-------------------------- MODULE ParserScopeProofs --------------------------
(***************************************************************************)
(* Proofs about ParserScope, for every set of names and types and every    *)
(* number of tables and nested constructs.                                 *)
(*                                                                         *)
(* The globals of the parser are a stack in disguise.  The argument is     *)
(* that each of them has the value it had when the innermost construct was *)
(* opened: the parents of the open constructs' tables say where            *)
(* curr_symtable returns to (Follows), and a history of the impl stack,    *)
(* one for each depth of nesting, says what the counters return to         *)
(* (Stacked).  The labels' table is one variable and no stack, so that     *)
(* what holds of it needs that functions are not nested (Labelled).        *)
(***************************************************************************)
EXTENDS ParserScope, SequenceTheorems, FiniteSetTheorems, TLAPS

(* Sources read with -main have no functions in blocks and no trait        *)
(* methods without a body; with them the scopes are refuted.               *)
FlatUnderMain == TRUE \notin Nested

(* Every table but the root's hangs under a table. *)
Linked ==
  /\ 1 <= Len(parent) /\ (emitMain => 2 <= Len(parent))
  /\ \A t \in Table \ {Root} : parent[t] \in Table

TypeInv == TypeOK /\ Linked

(***************************************************************************)
(* Type correctness.                                                       *)
(***************************************************************************)
LEMMA Lengths ==
  ASSUME TypeInv
  PROVE  /\ Len(parent) \in Nat /\ Len(ctx) \in Nat /\ Len(impls) \in Nat
         /\ Root \in Table /\ (emitMain => Main \in Table)
BY LenProperties DEF TypeInv, TypeOK, Linked, Root, Main, Table

LEMMA UpIsTable == ASSUME TypeInv, NEW t \in Table PROVE Up(t) \in Table
BY Lengths DEF TypeInv, Linked, Up

LEMMA FnParentIsTable == ASSUME TypeInv PROVE FnParent \in Table
BY UpIsTable DEF FnParent, TypeInv, TypeOK

LEMMA FunctionIsSeq ==
  ASSUME NEW n \in Nat, NEW S, NEW f \in [1 .. n -> S]
  PROVE  f \in Seq(S) /\ Len(f) = n
<1>1. f \in Seq(S)
  BY SeqDef
<1>2. DOMAIN f = 1 .. n /\ DOMAIN f = 1 .. Len(f) /\ Len(f) \in Nat
  BY <1>1, LenProperties
<1>3. Len(f) = n
  BY <1>2
<1> QED BY <1>1, <1>3

(* What the tables are after a new one. *)
LEMMA GrowFacts ==
  ASSUME TypeInv, NEW p \in Table, NEW more \in SUBSET EntryType,
         Grow(parent, p, more)
  PROVE  /\ Len(parent') = Len(parent) + 1
         /\ parent' \in Seq(0 .. Len(parent'))
         /\ \A t \in Table : parent'[t] = parent[t]
         /\ parent'[NewTable] = p
         /\ fnsyms' \in [Table' -> SUBSET EntryType]
         /\ fnsyms'[NewTable] = {}
         /\ \A t \in Table : fnsyms'[t] = IF t = p THEN more ELSE fnsyms[t]
         /\ labels' \in [Table' -> [Label -> {"absent", "hanging", "defined"}]]
<1> DEFINE n == Len(parent)
           L == [Label -> {"absent", "hanging", "defined"}]
           F == [t \in Table |-> IF t = p THEN more ELSE fnsyms[t]]
<1>1. n \in Nat /\ Table = 1 .. n /\ p \in 1 .. n /\ parent \in Seq(0 .. n)
      /\ parent \in Seq(0 .. n + 1)
  BY Lengths, SeqMonotonic DEF TypeInv, TypeOK, Table
<1>2. /\ parent' = Append(parent, p)
      /\ fnsyms' = Append(F, {})
      /\ labels' = Append(labels, [l \in Label |-> "absent"])
  BY DEF Grow
<1>3. /\ Len(parent') = n + 1 /\ parent'[n + 1] = p /\ parent' \in Seq(0 .. n + 1)
      /\ \A t \in 1 .. n : parent'[t] = parent[t]
  BY <1>1, <1>2, AppendProperties
<1>4. F \in [1 .. n -> SUBSET EntryType] /\ labels \in [1 .. n -> L]
  BY <1>1 DEF TypeInv, TypeOK
<1>5. F \in Seq(SUBSET EntryType) /\ Len(F) = n /\ labels \in Seq(L) /\ Len(labels) = n
  <2> HIDE DEF F, L, n
  <2> QED BY <1>1, <1>4, FunctionIsSeq
<1>6. [l \in Label |-> "absent"] \in L /\ {} \in SUBSET EntryType
  OBVIOUS
<1>7. /\ fnsyms' \in Seq(SUBSET EntryType) /\ Len(fnsyms') = n + 1
      /\ fnsyms'[n + 1] = {} /\ \A t \in 1 .. n : fnsyms'[t] = F[t]
      /\ labels' \in Seq(L) /\ Len(labels') = n + 1
  <2> HIDE DEF F, L, n
  <2> QED BY <1>2, <1>5, <1>6, AppendProperties
<1>8. Table' = 1 .. n + 1
  BY <1>3 DEF Table
<1>9. fnsyms' \in [1 .. n + 1 -> SUBSET EntryType] /\ labels' \in [1 .. n + 1 -> L]
  <2> HIDE DEF F, L, n
  <2> QED BY <1>7, LenProperties
<1> QED BY <1>1, <1>3, <1>7, <1>8, <1>9 DEF NewTable

(* The types grow with the tables. *)
LEMMA TypesGrow ==
  ASSUME TypeInv, Len(parent') \in Nat, Len(parent) <= Len(parent')
  PROVE  /\ CtxType \subseteq CtxType' /\ RecordType \subseteq RecordType'
         /\ ctx \in Seq(CtxType')
         /\ 0 .. Len(parent) \subseteq 0 .. Len(parent')
         /\ Table \subseteq Table'
<1>1. CtxType \subseteq CtxType' /\ RecordType \subseteq RecordType'
      /\ 0 .. Len(parent) \subseteq 0 .. Len(parent') /\ Table \subseteq Table'
  BY Lengths DEF CtxType, RecordType, Table
<1> QED BY <1>1, SeqMonotonic DEF TypeInv, TypeOK

LEMMA MethodsTyped ==
  /\ Plain \in MethodType
  /\ \A t \in Type : Method(t, None) \in MethodType
  /\ \A cls \in Type, for \in Type \cup {None} : Method(cls, for) \in MethodType
BY DEF Plain, Method, MethodType

(* A construct is opened. *)
LEMMA CtxOpened ==
  ASSUME TypeInv, Len(parent') \in Nat, Len(parent) <= Len(parent'),
         NEW kind \in {"block", "for", "fn", "trait", "impl"},
         NEW tab \in 0 .. Len(parent'), NEW owner \in MethodType,
         Open(kind, tab, owner)
  PROVE  /\ ctx' \in Seq(CtxType')
         /\ Len(ctx') = Len(ctx) + 1
         /\ ctx'[Len(ctx) + 1] = Frame(kind, tab, owner)
         /\ \A i \in 1 .. Len(ctx) : ctx'[i] = ctx[i]
         /\ ctx' # <<>> /\ ctx'[Len(ctx')] = Frame(kind, tab, owner)
<1>1. Frame(kind, tab, owner) \in CtxType'
  BY DEF Frame, CtxType
<1>2. ctx \in Seq(CtxType') /\ Len(ctx) \in Nat
  BY TypesGrow, Lengths
<1>3. ctx' = Append(ctx, Frame(kind, tab, owner))
  BY DEF Open
<1> QED BY <1>1, <1>2, <1>3, AppendProperties, EmptySeq

(* A sequence without its last element. *)
LEMMA FrontFacts ==
  ASSUME NEW S, NEW s \in Seq(S), s # <<>>
  PROVE  LET f == SubSeq(s, 1, Len(s) - 1) IN
         /\ Len(s) \in Nat \ {0} /\ s[Len(s)] \in S
         /\ f \in Seq(S) /\ Len(f) = Len(s) - 1
         /\ \A i \in 1 .. Len(s) - 1 : f[i] = s[i]
<1>1. Len(s) \in Nat \ {0} /\ \A i \in 1 .. Len(s) : s[i] \in S
  BY EmptySeq, ElementOfSeq
<1>2. \A i \in 1 .. Len(s) - 1 : s[i] \in S
  BY <1>1
<1>3. 1 \in Int /\ Len(s) - 1 \in Int
  BY <1>1
<1> DEFINE f == SubSeq(s, 1, Len(s) - 1)
<1>4. /\ f \in Seq(S)
      /\ Len(f) = IF 1 <= Len(s) - 1 THEN Len(s) - 1 - 1 + 1 ELSE 0
      /\ \A i \in 1 .. Len(s) - 1 - 1 + 1 : f[i] = s[1 + i - 1]
  BY <1>2, <1>3, SubSeqProperties
<1> HIDE DEF f
<1>5. \A i \in 1 .. Len(s) - 1 : 1 + i - 1 = i
  OBVIOUS
<1>6. \A i \in 1 .. Len(s) - 1 : f[i] = s[i]
  BY <1>1, <1>4, <1>5
<1>7. Len(f) = Len(s) - 1
  <2>1. CASE Len(s) = 1
    BY <1>4, <2>1
  <2>2. CASE Len(s) > 1
    BY <1>1, <1>4, <2>2
  <2>3. Len(s) \in Nat /\ Len(s) # 0
    BY <1>1
  <2> QED BY <2>1, <2>2, <2>3
<1> QED BY <1>1, <1>4, <1>6, <1>7 DEF f

(* The innermost construct is closed. *)
LEMMA CtxClosed ==
  ASSUME TypeInv, ctx # <<>>
  PROVE  /\ Len(ctx) \in Nat \ {0}
         /\ Outer \in Seq(CtxType)
         /\ Len(Outer) = Len(ctx) - 1
         /\ \A i \in 1 .. Len(ctx) - 1 : Outer[i] = ctx[i]
         /\ Top \in CtxType
BY FrontFacts DEF TypeInv, TypeOK, Outer, Top

(***************************************************************************)
(* The stack of impls.  H[i] is what it was when i constructs were open.   *)
(***************************************************************************)
ImplType == [owner : MethodType, count : Nat]

(* frame i of c is a member of a trait or of an impl *)
Member(c, i) == i > 1 /\ c[i - 1].kind \in {"trait", "impl"}

Pushed(s, c, i) ==
  CASE c[i].kind = "impl" -> Append(s, [owner |-> c[i].owner, count |-> 0])
    [] c[i].kind = "fn" /\ ~Member(c, i) -> Counted(s, 1)
    [] OTHER -> s

Stacked ==
  \E H \in [0 .. Len(ctx) -> Seq(ImplType)] :
    /\ impls = H[Len(ctx)]
    /\ \A i \in 1 .. Len(ctx) : H[i] = Pushed(H[i - 1], ctx, i)

(* Counting up and down again changes nothing. *)
LEMMA CountedBack ==
  ASSUME NEW s \in Seq(ImplType)
  PROVE  /\ Counted(s, 1) \in Seq(ImplType)
         /\ Counted(Counted(s, 1), -1) = s
         /\ s # <<>> => /\ Counted(s, 1) # <<>>
                        /\ Counted(s, 1)[Len(Counted(s, 1))].count # 0
         /\ s = <<>> => Counted(s, 1) = <<>>
<1>1. CASE s = <<>>
  BY <1>1 DEF Counted
<1>2. CASE s # <<>>
  <2> DEFINE n == Len(s)
             up == Counted(s, 1)
  <2>1. n \in 1 .. n /\ n \in Nat /\ s[n] \in ImplType
    BY <1>2, EmptySeq, LenProperties, ElementOfSeq
  <2>2. up = [s EXCEPT ![n] = [s[n] EXCEPT !.count = @ + 1]]
    BY <1>2 DEF Counted
  <2>3. [s[n] EXCEPT !.count = @ + 1] \in ImplType
    BY <2>1 DEF ImplType
  <2>4. up \in Seq(ImplType) /\ Len(up) = n /\ up # <<>>
        /\ \A i \in 1 .. n : up[i] = IF i = n THEN [s[n] EXCEPT !.count = @ + 1] ELSE s[i]
    <3>1. up \in Seq(ImplType) /\ Len(up) = n
          /\ \A i \in 1 .. n : up[i] = IF i = n THEN [s[n] EXCEPT !.count = @ + 1] ELSE s[i]
      BY <2>1, <2>2, <2>3, ExceptSeq, LenProperties
    <3> QED BY <2>1, <3>1, EmptySeq
  <2>5. up[n].count = s[n].count + 1 /\ s[n].count \in Nat
    BY <2>1, <2>4 DEF ImplType
  <2> DEFINE down == Counted(up, -1)
  <2>6. down = [up EXCEPT ![n] = [up[n] EXCEPT !.count = @ + -1]]
    BY <2>4 DEF Counted
  <2>7. [up[n] EXCEPT !.count = @ + -1] = s[n]
    <3>1. s[n] = [owner |-> s[n].owner, count |-> s[n].count] /\ s[n].count \in Nat
      BY <2>1 DEF ImplType
    <3>2. up[n] = [owner |-> s[n].owner, count |-> s[n].count + 1]
      BY <2>1, <2>4, <3>1
    <3>3. [up[n] EXCEPT !.count = @ + -1] = [owner |-> s[n].owner, count |-> s[n].count + 1 + -1]
      BY <3>2
    <3> QED BY <3>1, <3>3
  <2>8. down = [up EXCEPT ![n] = s[n]]
    BY <2>6, <2>7
  <2>9. down = s
    <3> HIDE DEF down, up
    <3>1. down \in Seq(ImplType) /\ Len(down) = n
      BY <2>1, <2>4, <2>8, ExceptSeq, LenProperties
    <3>2. \A i \in 1 .. n : down[i] = s[i]
      BY <2>1, <2>4, <2>8, ExceptSeq, LenProperties
    <3> QED BY <3>1, <3>2, SeqEqual
  <2> QED BY <1>2, <2>1, <2>4, <2>5, <2>9
<1> QED BY <1>1, <1>2

(* The last impl of the stack, if any, is counted from 0; an impl that has *)
(* just been opened has the count 0.                                       *)
LEMMA PushedTyped ==
  ASSUME NEW s \in Seq(ImplType), NEW c, NEW i, c[i].owner \in MethodType
  PROVE  Pushed(s, c, i) \in Seq(ImplType)
<1>1. [owner |-> c[i].owner, count |-> 0] \in ImplType
  BY DEF ImplType
<1>2. Append(s, [owner |-> c[i].owner, count |-> 0]) \in Seq(ImplType)
  BY <1>1, AppendProperties
<1> QED BY <1>2, CountedBack DEF Pushed

LEMMA StackKept ==
  ASSUME Stacked, UNCHANGED <<ctx, impls>>
  PROVE  Stacked'
BY DEF Stacked, Pushed, Member, Counted

LEMMA StackOpened ==
  ASSUME TypeInv, Stacked, Len(ctx') = Len(ctx) + 1,
         \A i \in 1 .. Len(ctx) : ctx'[i] = ctx[i],
         ctx'[Len(ctx) + 1].owner \in MethodType,
         impls' = Pushed(impls, ctx', Len(ctx) + 1)
  PROVE  Stacked'
<1> DEFINE n == Len(ctx)
<1>1. n \in Nat
  BY Lengths
<1>2. PICK H \in [0 .. n -> Seq(ImplType)] :
        /\ impls = H[n] /\ \A i \in 1 .. n : H[i] = Pushed(H[i - 1], ctx, i)
  BY DEF Stacked
<1> DEFINE G == [i \in 0 .. n + 1 |-> IF i = n + 1 THEN impls' ELSE H[i]]
<1>3. impls' \in Seq(ImplType)
  BY <1>1, <1>2, PushedTyped
<1>4. G \in [0 .. n + 1 -> Seq(ImplType)] /\ G[n + 1] = impls'
      /\ \A i \in 0 .. n : G[i] = H[i]
  BY <1>1, <1>3
<1>5. ASSUME NEW i \in 1 .. n + 1 PROVE G[i] = Pushed(G[i - 1], ctx', i)
  <2>1. CASE i = n + 1
    BY <1>1, <1>2, <1>4, <2>1
  <2>2. CASE i # n + 1
    <3>1. i \in 1 .. n /\ G[i] = H[i] /\ G[i - 1] = H[i - 1] /\ ctx'[i] = ctx[i]
          /\ (i > 1 => ctx'[i - 1] = ctx[i - 1])
      BY <1>1, <1>4, <2>2, SMTT(30)
    <3> HIDE DEF G
    <3>2. Pushed(H[i - 1], ctx', i) = Pushed(H[i - 1], ctx, i)
      BY <3>1 DEF Pushed, Member
    <3> QED BY <1>2, <3>1, <3>2
  <2> QED BY <2>1, <2>2
<1> HIDE DEF G
<1> QED BY <1>4, <1>5 DEF Stacked

(* Below the innermost construct the stack is what it was before. *)
LEMMA StackClosed ==
  ASSUME TypeInv, Stacked, ctx # <<>>
  PROVE  \E s \in Seq(ImplType) :
           /\ impls = Pushed(s, ctx, Len(ctx))
           /\ ctx' = Outer /\ impls' = s => Stacked'
<1> DEFINE n == Len(ctx)
<1>1. /\ n \in Nat \ {0} /\ n \in Nat /\ n # 0 /\ Len(Outer) = n - 1
      /\ \A i \in 1 .. n - 1 : Outer[i] = ctx[i]
  BY CtxClosed
<1>2. PICK H \in [0 .. n -> Seq(ImplType)] :
        /\ impls = H[n] /\ \A i \in 1 .. n : H[i] = Pushed(H[i - 1], ctx, i)
  BY DEF Stacked
<1>3. impls = Pushed(H[n - 1], ctx, n) /\ H[n - 1] \in Seq(ImplType)
  BY <1>1, <1>2
<1>4. ASSUME ctx' = Outer, impls' = H[n - 1] PROVE Stacked'
  <2> DEFINE G == [i \in 0 .. n - 1 |-> H[i]]
  <2>1. G \in [0 .. n - 1 -> Seq(ImplType)] /\ Len(ctx') = n - 1 /\ impls' = G[n - 1]
        /\ \A i \in 0 .. n - 1 : G[i] = H[i]
    BY <1>1, <1>4
  <2>2. ASSUME NEW i \in 1 .. n - 1 PROVE G[i] = Pushed(G[i - 1], ctx', i)
    <3>1. /\ G[i] = H[i] /\ G[i - 1] = H[i - 1] /\ ctx'[i] = ctx[i]
          /\ (i > 1 => ctx'[i - 1] = ctx[i - 1]) /\ i \in 1 .. n
      BY <1>1, <1>4, <2>1
    <3> HIDE DEF G
    <3>2. Pushed(H[i - 1], ctx', i) = Pushed(H[i - 1], ctx, i)
      BY <3>1 DEF Pushed, Member
    <3> QED BY <1>2, <3>1, <3>2
  <2> HIDE DEF G
  <2> QED BY <2>1, <2>2 DEF Stacked
<1> QED BY <1>3, <1>4

(***************************************************************************)
(* Innermost constructs.  Home and FnTable choose the last of several      *)
(* frames, which exists: the finite sets are well-founded.                 *)
(***************************************************************************)
LEMMA Least ==
  ASSUME NEW S \in SUBSET Nat, S # {}
  PROVE  \E x \in S : \A y \in S : x <= y
<1>1. PICK n \in S : TRUE
  OBVIOUS
<1> DEFINE T == {0 .. k : k \in S}
<1>2. IsWellFoundedOn(StrictSubsetOrdering(Nat), FiniteSubsetsOf(Nat))
  BY FS_StrictSubsetOrderingWellFounded
<1>3. T \subseteq FiniteSubsetsOf(Nat) /\ T # {}
  <2>1. \A k \in Nat : IsFiniteSet(0 .. k) /\ 0 .. k \in SUBSET Nat
    BY FS_Interval
  <2> QED BY <1>1, <2>1 DEF FiniteSubsetsOf
<1>4. PICK X \in T : \A Y \in T : <<Y, X>> \notin StrictSubsetOrdering(Nat)
  <2> HIDE DEF T
  <2> QED BY <1>2, <1>3, WFMin
<1>5. PICK k \in S : X = 0 .. k
  BY <1>4
<1>6. ASSUME NEW y \in S, y < k PROVE FALSE
  <2>1. 0 .. y \in T
    BY <1>6
  <2>2. 0 .. y \subseteq 0 .. k /\ k \in 0 .. k /\ k \notin 0 .. y
    BY <1>6
  <2>3. 0 .. y \in SUBSET Nat /\ X \in SUBSET Nat
    BY <1>5
  <2> QED BY <1>4, <1>5, <2>1, <2>2, <2>3 DEF StrictSubsetOrdering
<1> QED BY <1>6

LEMMA Greatest ==
  ASSUME NEW n \in Nat, NEW S \in SUBSET (1 .. n), S # {}
  PROVE  \E x \in S : \A y \in S : y <= x
<1> DEFINE T == {n - y : y \in S}
<1>1. T \in SUBSET Nat /\ T # {}
  <2>1. \A y \in S : y \in 1 .. n
    OBVIOUS
  <2>2. \A y \in S : n - y \in Nat
    BY <2>1
  <2> QED BY <2>2
<1>2. PICK z \in T : \A y \in T : z <= y
  <2> HIDE DEF T
  <2> QED BY <1>1, Least
<1>3. PICK x \in S : z = n - x
  BY <1>2
<1>4. ASSUME NEW y \in S PROVE y <= x
  <2>1. n - x <= n - y
    BY <1>2, <1>3
  <2> QED BY <2>1
<1> QED BY <1>4

(* Home is the table of the innermost frame that has one. *)
LEMMA HomeOf ==
  ASSUME NEW S, NEW c \in Seq(S), Scopes(c) # {}
  PROVE  \E i \in Scopes(c) : Home(c) = c[i].tab /\ \A j \in Scopes(c) : j <= i
<1>1. Scopes(c) \in SUBSET (1 .. Len(c)) /\ Len(c) \in Nat
  BY LenProperties DEF Scopes
<1>2. \E i \in Scopes(c) : \A j \in Scopes(c) : j <= i
  BY <1>1, Greatest
<1>3. (CHOOSE i \in Scopes(c) : \A j \in Scopes(c) : j <= i) \in Scopes(c)
      /\ \A j \in Scopes(c) : j <= (CHOOSE i \in Scopes(c) : \A k \in Scopes(c) : k <= i)
  BY <1>2
<1>4. Home(c) = c[CHOOSE i \in Scopes(c) : \A j \in Scopes(c) : j <= i].tab
  BY DEF Home
<1> QED BY <1>3, <1>4

LEMMA HomeIs ==
  ASSUME NEW S, NEW c \in Seq(S), NEW i \in Scopes(c), \A j \in Scopes(c) : j <= i
  PROVE  Home(c) = c[i].tab
<1>1. PICK k \in Scopes(c) : Home(c) = c[k].tab /\ \A j \in Scopes(c) : j <= k
  BY HomeOf
<1>2. i <= k /\ k <= i /\ i \in Int /\ k \in Int
  BY <1>1, LenProperties DEF Scopes
<1>3. i = k
  BY <1>2
<1> QED BY <1>1, <1>3

LEMMA FnTableOf ==
  ASSUME TypeInv, FnFrames # {}
  PROVE  \E i \in FnFrames : FnTable = ctx[i].tab /\ \A j \in FnFrames : j <= i
<1>1. FnFrames \in SUBSET (1 .. Len(ctx)) /\ Len(ctx) \in Nat
  BY LenProperties DEF FnFrames, TypeInv, TypeOK
<1>2. \E i \in FnFrames : \A j \in FnFrames : j <= i
  BY <1>1, Greatest
<1>3. (CHOOSE i \in FnFrames : \A j \in FnFrames : j <= i) \in FnFrames
      /\ \A j \in FnFrames : j <= (CHOOSE i \in FnFrames : \A k \in FnFrames : k <= i)
  BY <1>2
<1>4. FnTable = ctx[CHOOSE i \in FnFrames : \A j \in FnFrames : j <= i].tab
  BY DEF FnTable
<1> QED BY <1>3, <1>4

LEMMA PlacesTyped ==
  ASSUME TypeInv
  PROVE  /\ Home(ctx) \in 0 .. Len(parent) /\ FnHome(ctx) \in 0 .. Len(parent)
         /\ FnTable \in 0 .. Len(parent)
<1>1. /\ ctx \in Seq(CtxType) /\ Root \in 0 .. Len(parent) /\ 0 \in 0 .. Len(parent)
      /\ (emitMain => Main \in 0 .. Len(parent))
      /\ \A i \in DOMAIN ctx : ctx[i].tab \in 0 .. Len(parent)
  <2>1. ctx \in Seq(CtxType)
    BY DEF TypeInv, TypeOK
  <2>2. DOMAIN ctx = 1 .. Len(ctx) /\ \A i \in 1 .. Len(ctx) : ctx[i] \in CtxType
    BY <2>1, LenProperties, ElementOfSeq
  <2>3. \A i \in DOMAIN ctx : ctx[i].tab \in 0 .. Len(parent)
    BY <2>2 DEF CtxType
  <2> QED BY <2>1, <2>3, Lengths DEF Table
<1>2. Home(ctx) \in 0 .. Len(parent)
  <2>1. CASE Scopes(ctx) = {}
    BY <1>1, <2>1 DEF Home
  <2>2. CASE Scopes(ctx) # {}
    BY <1>1, <2>2, HomeOf DEF Scopes
  <2> QED BY <2>1, <2>2
<1>3. FnTable \in 0 .. Len(parent)
  <2>1. CASE FnFrames = {}
    BY <1>1, <2>1 DEF FnTable
  <2>2. CASE FnFrames # {}
    BY <1>1, <2>2, FnTableOf DEF FnFrames
  <2> QED BY <2>1, <2>2
<1> QED BY <1>1, <1>2, <1>3 DEF FnHome

(***************************************************************************)
(* The steps.  TypeInv is kept in parts.                                   *)
(***************************************************************************)
TablesTyped ==
  /\ parent \in Seq(0 .. Len(parent))
  /\ fnsyms \in [Table -> SUBSET EntryType]
  /\ labels \in [Table -> [Label -> {"absent", "hanging", "defined"}]]
  /\ Linked

RestTyped ==
  /\ emitMain \in BOOLEAN
  /\ curr \in Table
  /\ currFn \in 0 .. Len(parent)
  /\ trait \in Type \cup {None}
  /\ varg \in BOOLEAN
  /\ phase \in {"parse", "failed", "crashed"}

ObsTyped ==
  /\ \/ obs.sort = None
     \/ obs.sort \in {"function", "extern"}
          /\ obs.got \in RecordType /\ obs.want \in RecordType
     \/ obs.sort \in {"variable", "label"} /\ obs.got \in 0 .. Len(parent)
          /\ obs.want \in 0 .. Len(parent)
  /\ obs.intrait \in BOOLEAN

LEMMA TypeParts ==
  TypeInv <=> /\ TablesTyped /\ RestTyped /\ ObsTyped
              /\ ctx \in Seq(CtxType) /\ impls \in Seq(ImplType)
BY DEF TypeInv, TypeOK, TablesTyped, RestTyped, ObsTyped, ImplType

LEMMA TablesGrow ==
  ASSUME TypeInv, NEW p \in Table, NEW more \in SUBSET EntryType,
         Grow(parent, p, more), UNCHANGED emitMain
  PROVE  /\ TablesTyped'
         /\ Len(parent') \in Nat /\ Len(parent) <= Len(parent')
         /\ NewTable \in Table' /\ Table \subseteq Table'
<1>1. /\ Len(parent') = Len(parent) + 1 /\ Len(parent) \in Nat
      /\ parent' \in Seq(0 .. Len(parent'))
      /\ \A t \in Table : parent'[t] = parent[t]
      /\ parent'[NewTable] = p
      /\ fnsyms' \in [Table' -> SUBSET EntryType]
      /\ labels' \in [Table' -> [Label -> {"absent", "hanging", "defined"}]]
  BY GrowFacts, Lengths
<1>2. Table' = Table \cup {NewTable} /\ NewTable \in Table'
  <2>1. Table = 1 .. Len(parent) /\ Table' = 1 .. Len(parent) + 1
        /\ NewTable = Len(parent) + 1
    BY <1>1 DEF Table, NewTable
  <2> QED BY <1>1, <2>1
<1>3. Linked'
  BY <1>1, <1>2 DEF Linked, TypeInv
<1> QED BY <1>1, <1>2, <1>3 DEF TablesTyped

LEMMA ObsNone == Nameless => ObsTyped' /\ obs'.sort = None
BY DEF Nameless, NoName, ObsTyped

LEMMA InTraitIsBoolean == InTrait \in BOOLEAN
BY DEF InTrait

LEMMA ObsNamed ==
  ASSUME NEW sort \in {"variable", "label"}, NEW got \in 0 .. Len(parent'),
         NEW want \in 0 .. Len(parent'), Observe(sort, got, want)
  PROVE  ObsTyped'
BY InTraitIsBoolean DEF Observe, ObsTyped

LEMMA MethodOfTyped ==
  ASSUME TypeInv, NEW im \in Seq(ImplType)
  PROVE  MethodOf(im) \in MethodType
<1>1. im # <<>> => im[Len(im)] \in ImplType
  BY FrontFacts
<1>2. trait # None => Method(trait, None) \in MethodType
  BY MethodsTyped DEF TypeInv, TypeOK
<1> QED BY <1>1, <1>2, MethodsTyped DEF MethodOf, ImplType

LEMMA ProtoTyped ==
  ASSUME TypeInv, NEW sort \in {"function", "extern"}, NEW m \in MethodType,
         NEW args \in Args, ReadProto(sort, m, args),
         Len(parent') \in Nat, Len(parent) <= Len(parent')
  PROVE  ObsTyped' /\ varg' \in BOOLEAN
<1>1. ContainVarg(args) \in BOOLEAN /\ (args = "varg") \in BOOLEAN
  BY DEF ContainVarg, TypeInv, TypeOK
<1>2. Written \in MethodType
  BY MethodsTyped, CtxClosed DEF Written, MemberPlace, In, CtxType
<1>3. NameTable \in 0 .. Len(parent) /\ FnHome(ctx) \in 0 .. Len(parent)
  BY PlacesTyped, FnParentIsTable DEF NameTable, Table
<1>4. /\ Recorded(NameTable, m, ContainVarg(args)) \in RecordType
      /\ Recorded(FnHome(ctx), Written, args = "varg") \in RecordType
  BY <1>1, <1>2, <1>3 DEF Recorded, RecordType
<1>5. RecordType \subseteq RecordType'
  BY TypesGrow
<1> QED BY <1>1, <1>4, <1>5, InTraitIsBoolean DEF ReadProto, Observe, ObsTyped

LEMMA EntriesTyped ==
  ASSUME TypeInv, NEW n \in FnName, NEW m \in MethodType, NEW args \in Args
  PROVE  /\ WithDef(n, m, args) \in SUBSET EntryType
         /\ WithDecl(n, m, args) \in SUBSET EntryType
         /\ WithDef(n, m, args) # {} /\ WithDecl(n, m, args) # {}
<1>1. fnsyms[NameTable] \in SUBSET EntryType
  BY FnParentIsTable DEF NameTable, TypeInv, TypeOK
<1>2. ContainVarg(args) \in BOOLEAN /\ Argc(args) \in {0, 1}
  BY DEF ContainVarg, Argc, TypeInv, TypeOK
<1>3. \A sort \in {"decl", "def"} : FnEntry(n, m, sort, args) \in EntryType
  BY <1>2 DEF FnEntry, EntryType
<1>4. \A e \in EntryType : [e EXCEPT !.sort = "def"] \in EntryType
  BY DEF EntryType
<1>5. Found(n, m) \subseteq fnsyms[NameTable]
  BY DEF Found
<1>6. WithDecl(n, m, args) \in SUBSET EntryType /\ WithDecl(n, m, args) # {}
  BY <1>1, <1>3, <1>5 DEF WithDecl
<1>7. WithDef(n, m, args) \in SUBSET EntryType
  BY <1>1, <1>3, <1>4, <1>5 DEF WithDef
<1>8. WithDef(n, m, args) # {}
  <2>1. CASE Found(n, m) = {}
    BY <2>1 DEF WithDef
  <2>2. CASE Found(n, m) # {}
    <3>1. PICK e \in Found(n, m) : TRUE
      BY <2>2
    <3>2. [e EXCEPT !.sort = "def"] \in WithDef(n, m, args)
      BY <2>2, <3>1 DEF WithDef
    <3> QED BY <3>2
  <2> QED BY <2>1, <2>2
<1> QED BY <1>6, <1>7, <1>8

LEMMA FrontOfAppend ==
  ASSUME NEW S, NEW s \in Seq(S), NEW e \in S
  PROVE  SubSeq(Append(s, e), 1, Len(Append(s, e)) - 1) = s
<1> DEFINE a == Append(s, e)
           f == SubSeq(a, 1, Len(a) - 1)
<1>1. a \in Seq(S) /\ a # <<>> /\ Len(a) = Len(s) + 1 /\ Len(s) \in Nat
      /\ \A i \in 1 .. Len(s) : a[i] = s[i]
  BY AppendProperties, LenProperties
<1>2. f \in Seq(S) /\ Len(f) = Len(a) - 1 /\ \A i \in 1 .. Len(a) - 1 : f[i] = a[i]
  <2> HIDE DEF a
  <2> QED BY <1>1, FrontFacts
<1>3. Len(f) = Len(s) /\ \A i \in 1 .. Len(f) : f[i] = s[i]
  <2> HIDE DEF a, f
  <2> QED BY <1>1, <1>2
<1> HIDE DEF f
<1> QED BY <1>2, <1>3, SeqEqual DEF f

(* The stack of impls when a construct is opened, and when it is closed. *)
LEMMA Opened ==
  ASSUME TypeInv, Stacked, Len(parent') \in Nat, Len(parent) <= Len(parent'),
         NEW kind \in {"block", "for", "fn", "trait", "impl"},
         NEW tab \in 0 .. Len(parent'), NEW owner \in MethodType,
         Open(kind, tab, owner),
         kind = "impl" => impls' = Append(impls, [owner |-> owner, count |-> 0]),
         kind = "fn" => impls' = AtProto /\ (StatementPlace \/ MemberPlace),
         kind \notin {"fn", "impl"} => impls' = impls
  PROVE  ctx' \in Seq(CtxType') /\ Stacked' /\ impls' \in Seq(ImplType)
<1> DEFINE n == Len(ctx)
<1>1. /\ ctx' \in Seq(CtxType') /\ Len(ctx') = n + 1 /\ n \in Nat
      /\ ctx'[n + 1] = Frame(kind, tab, owner)
      /\ \A i \in 1 .. n : ctx'[i] = ctx[i]
  BY CtxOpened, Lengths
<1>2. ctx'[n + 1].kind = kind /\ ctx'[n + 1].owner = owner
  BY <1>1 DEF Frame
<1>3. Member(ctx', n + 1) <=> MemberPlace
  <2>1. ctx = <<>> <=> n = 0
    BY CtxClosed, EmptySeq
  <2>2. n > 0 => ctx'[n + 1 - 1] = Top
    BY <1>1 DEF Top
  <2> QED BY <1>1, <2>1, <2>2 DEF Member, MemberPlace, In
<1>4. ~(StatementPlace /\ MemberPlace)
  BY DEF StatementPlace, MemberPlace, In
<1>5. impls' = Pushed(impls, ctx', n + 1)
  BY <1>2, <1>3, <1>4 DEF Pushed, AtProto
<1>6. Stacked'
  BY <1>1, <1>2, <1>5, StackOpened
<1>7. impls \in Seq(ImplType) /\ impls' \in Seq(ImplType)
  BY <1>2, <1>5, PushedTyped, TypeParts
<1> QED BY <1>1, <1>6, <1>7

LEMMA Closed ==
  ASSUME TypeInv, Stacked, ctx # <<>>, ctx' = Outer,
         Top.kind = "impl" => impls' = SubSeq(impls, 1, Len(impls) - 1),
         Top.kind = "fn" =>
           impls' = IF Outer # <<>> /\ Outer[Len(Outer)].kind \in {"trait", "impl"}
                      THEN impls ELSE Counted(impls, -1),
         Top.kind \notin {"fn", "impl"} => impls' = impls
  PROVE  ctx' \in Seq(CtxType) /\ Stacked' /\ impls' \in Seq(ImplType)
<1> DEFINE n == Len(ctx)
<1>1. /\ n \in Nat /\ n # 0 /\ Outer \in Seq(CtxType) /\ Len(Outer) = n - 1
      /\ \A i \in 1 .. n - 1 : Outer[i] = ctx[i]
      /\ Top = ctx[n] /\ Top \in CtxType
  BY CtxClosed DEF Top
<1>2. PICK s \in Seq(ImplType) :
        /\ impls = Pushed(s, ctx, n)
        /\ ctx' = Outer /\ impls' = s => Stacked'
  BY StackClosed
<1>3. Member(ctx, n) <=> Outer # <<>> /\ Outer[Len(Outer)].kind \in {"trait", "impl"}
  <2>1. Outer = <<>> <=> n = 1
    BY <1>1, EmptySeq
  <2>2. n > 1 => Outer[Len(Outer)] = ctx[n - 1]
    BY <1>1
  <2> QED BY <1>1, <2>1, <2>2 DEF Member
<1>4. impls' = s
  <2>1. CASE Top.kind = "impl"
    <3>1. [owner |-> Top.owner, count |-> 0] \in ImplType
      BY <1>1 DEF ImplType, CtxType
    <3>2. impls = Append(s, [owner |-> Top.owner, count |-> 0])
      BY <1>1, <1>2, <2>1 DEF Pushed
    <3> QED BY <2>1, <3>1, <3>2, FrontOfAppend
  <2>2. CASE Top.kind = "fn" /\ Member(ctx, n)
    BY <1>1, <1>2, <1>3, <2>2 DEF Pushed
  <2>3. CASE Top.kind = "fn" /\ ~Member(ctx, n)
    <3>1. impls = Counted(s, 1) /\ impls' = Counted(impls, -1)
      BY <1>1, <1>2, <1>3, <2>3 DEF Pushed
    <3> QED BY <3>1, CountedBack
  <2>4. CASE Top.kind \notin {"fn", "impl"}
    BY <1>1, <1>2, <2>4 DEF Pushed
  <2> QED BY <2>1, <2>2, <2>3, <2>4
<1> QED BY <1>1, <1>2, <1>4

LEMMA AtProtoTyped == ASSUME TypeInv PROVE AtProto \in Seq(ImplType)
BY TypeParts, CountedBack DEF AtProto

TypeStack == TypeInv /\ Stacked

LEMMA OpenTableStep ==
  ASSUME TypeStack, OpenBlock \/ OpenFor PROVE TypeStack'
<1>1. TypeInv /\ Stacked /\ curr \in Table /\ fnsyms[curr] \in SUBSET EntryType
  BY DEF TypeStack, TypeInv, TypeOK
<1>2. Grow(parent, curr, fnsyms[curr]) /\ UNCHANGED emitMain
  BY DEF OpenBlock, OpenFor, Parsing
<1>3. /\ TablesTyped' /\ Len(parent') \in Nat /\ Len(parent) <= Len(parent')
      /\ NewTable \in Table' /\ Table \subseteq Table' /\ NewTable \in 0 .. Len(parent')
  BY <1>1, <1>2, TablesGrow DEF Table
<1>4. ObsTyped'
  BY ObsNone DEF OpenBlock, OpenFor
<1>5. RestTyped'
  BY <1>1, <1>2, <1>3, TypesGrow DEF OpenBlock, OpenFor, Parsing, RestTyped, globals, TypeInv, TypeOK
<1>6. \E kind \in {"block", "for"} : Open(kind, NewTable, Plain) /\ impls' = impls
  BY DEF OpenBlock, OpenFor, globals
<1>7. ctx' \in Seq(CtxType') /\ Stacked' /\ impls' \in Seq(ImplType)
  BY <1>1, <1>3, <1>6, Opened, MethodsTyped
<1> QED BY <1>3, <1>4, <1>5, <1>7 DEF TypeStack, TypeInv, TypeOK, TablesTyped, RestTyped, ObsTyped, ImplType

(* The tables stay as they are. *)
LEMMA TablesKept == ASSUME TypeInv, UNCHANGED <<emitMain, tables>> PROVE TablesTyped'
BY DEF TypeInv, TypeOK, tables, TablesTyped, Linked, Table

LEMMA CloseStep ==
  ASSUME TypeStack, CloseBlock \/ CloseFor \/ CloseTrait \/ CloseImpl
  PROVE  TypeStack'
<1>1. TypeInv /\ Stacked /\ UNCHANGED <<emitMain, tables>>
  BY DEF TypeStack, CloseBlock, CloseFor, CloseTrait, CloseImpl, Parsing
<1>2. TablesTyped' /\ parent' = parent /\ CtxType' = CtxType
  BY <1>1, TablesKept DEF tables, CtxType
<1>3. ObsTyped'
  BY ObsNone DEF CloseBlock, CloseFor, CloseTrait, CloseImpl
<1>4. RestTyped'
  BY <1>1, <1>2, UpIsTable
     DEF CloseBlock, CloseFor, CloseTrait, CloseImpl, Parsing, RestTyped, globals, TypeInv, TypeOK, Table
<1>5. ctx # <<>> /\ ctx' = Outer
  BY DEF CloseBlock, CloseFor, CloseTrait, CloseImpl, In
<1>6. /\ Top.kind = "impl" => impls' = SubSeq(impls, 1, Len(impls) - 1)
      /\ Top.kind # "fn"
      /\ Top.kind # "impl" => impls' = impls
  BY DEF CloseBlock, CloseFor, CloseTrait, CloseImpl, In, globals
<1>7. ctx' \in Seq(CtxType) /\ Stacked' /\ impls' \in Seq(ImplType)
  BY <1>1, <1>5, <1>6, Closed
<1> QED BY <1>2, <1>3, <1>4, <1>7
      DEF TypeStack, TypeInv, TypeOK, TablesTyped, RestTyped, ObsTyped, ImplType

LEMMA OpenMemberPlaceStep ==
  ASSUME TypeStack,
         \/ \E t \in Type : OpenTrait(t)
         \/ \E cls \in Type, for \in Type \cup {None} : OpenImpl(cls, for)
  PROVE  TypeStack'
<1>1. TypeInv /\ Stacked /\ UNCHANGED <<emitMain, tables>>
  BY DEF TypeStack, OpenTrait, OpenImpl, Parsing
<1>2. /\ TablesTyped' /\ parent' = parent /\ CtxType' = CtxType
      /\ Len(parent') \in Nat /\ Len(parent) <= Len(parent') /\ 0 \in 0 .. Len(parent')
  BY <1>1, TablesKept, Lengths DEF tables, CtxType
<1>3. ObsTyped'
  BY ObsNone DEF OpenTrait, OpenImpl
<1>4. RestTyped'
  BY <1>1, <1>2 DEF OpenTrait, OpenImpl, Parsing, RestTyped, globals, TypeInv, TypeOK, Table
<1>5. \E kind \in {"trait", "impl"}, owner \in MethodType :
        /\ Open(kind, 0, owner)
        /\ kind = "impl" => impls' = Append(impls, [owner |-> owner, count |-> 0])
        /\ kind = "trait" => impls' = impls
  BY MethodsTyped DEF OpenTrait, OpenImpl
<1>6. ctx' \in Seq(CtxType') /\ Stacked' /\ impls' \in Seq(ImplType)
  BY <1>1, <1>2, <1>5, Opened
<1> QED BY <1>2, <1>3, <1>4, <1>6
      DEF TypeStack, TypeInv, TypeOK, TablesTyped, RestTyped, ObsTyped, ImplType

(* The end of a function or of its declaration.                            *)
LEMMA BackFacts ==
  ASSUME NEW n \in Nat, NEW links \in Seq(0 .. n), Len(links) = n,
         emitMain \in BOOLEAN, emitMain => n >= 2,
         NEW to \in 1 .. n, BackToMainOrUp(links, to)
  PROVE  /\ Len(parent') = n /\ parent' \in Seq(0 .. n)
         /\ \A t \in 1 .. n : parent'[t] = IF emitMain /\ t = Main THEN to ELSE links[t]
         /\ curr' = IF emitMain THEN Main ELSE to
         /\ currFn' = IF emitMain THEN Main ELSE 0
         /\ curr' \in 1 .. n /\ currFn' \in 0 .. n
<1>1. CASE emitMain
  <2>1. Main \in 1 .. Len(links) /\ to \in 0 .. n
    BY <1>1 DEF Main
  <2>2. parent' = [links EXCEPT ![Main] = to] /\ curr' = Main /\ currFn' = Main
    BY <1>1 DEF BackToMainOrUp
  <2>3. /\ Len(parent') = n /\ parent' \in Seq(0 .. n)
        /\ \A t \in 1 .. n : parent'[t] = IF t = Main THEN to ELSE links[t]
    BY <2>1, <2>2, ExceptSeq
  <2> QED BY <1>1, <2>1, <2>2, <2>3
<1>2. CASE ~emitMain
  BY <1>2 DEF BackToMainOrUp
<1> QED BY <1>1, <1>2

LEMMA EndFnTables ==
  ASSUME TypeInv, EndFn
  PROVE  /\ Len(parent') = Len(parent)
         /\ \A t \in Table : parent'[t] = IF emitMain /\ t = Main THEN Up(curr) ELSE parent[t]
         /\ curr' = IF emitMain THEN Main ELSE Up(curr)
         /\ currFn' = IF emitMain THEN Main ELSE 0
         /\ TablesTyped' /\ RestTyped'
<1> DEFINE n == Len(parent)
<1>1. /\ n \in Nat /\ parent \in Seq(0 .. n) /\ emitMain \in BOOLEAN /\ (emitMain => n >= 2)
      /\ Table = 1 .. n
  BY Lengths DEF TypeInv, TypeOK, Linked, Table
<1>2. Up(curr) \in 1 .. n
  BY <1>1, UpIsTable DEF TypeInv, TypeOK
<1>3. /\ BackToMainOrUp(parent, Up(curr)) /\ UNCHANGED emitMain
      /\ UNCHANGED <<trait, varg, fnsyms, labels, phase>>
  BY DEF EndFn, Parsing
<1>4. /\ Len(parent') = n /\ parent' \in Seq(0 .. n)
      /\ \A t \in 1 .. n : parent'[t] = IF emitMain /\ t = Main THEN Up(curr) ELSE parent[t]
      /\ curr' = IF emitMain THEN Main ELSE Up(curr)
      /\ currFn' = IF emitMain THEN Main ELSE 0
      /\ curr' \in 1 .. n /\ currFn' \in 0 .. n
  BY <1>1, <1>2, <1>3, BackFacts
<1>5. Table' = Table
  BY <1>4 DEF Table
<1>6. Linked'
  BY <1>1, <1>2, <1>3, <1>4, <1>5 DEF TypeInv, Linked
<1>7. TablesTyped' /\ RestTyped'
  BY <1>1, <1>3, <1>4, <1>5, <1>6 DEF TypeInv, TypeOK, TablesTyped, RestTyped
<1> QED BY <1>1, <1>4, <1>7

LEMMA EndFnStep == ASSUME TypeStack, EndFn PROVE TypeStack'
<1>1. TypeInv /\ Stacked
  BY DEF TypeStack
<1>2. TablesTyped' /\ RestTyped' /\ CtxType' = CtxType
  BY <1>1, EndFnTables DEF CtxType
<1>3. ObsTyped'
  BY ObsNone DEF EndFn
<1>4. /\ ctx # <<>> /\ ctx' = Outer /\ Top.kind = "fn"
      /\ impls' = IF Outer # <<>> /\ Outer[Len(Outer)].kind \in {"trait", "impl"}
                    THEN impls ELSE Counted(impls, -1)
  BY DEF EndFn, In
<1>5. ctx' \in Seq(CtxType) /\ Stacked' /\ impls' \in Seq(ImplType)
  BY <1>1, <1>4, Closed
<1> QED BY <1>2, <1>3, <1>5
      DEF TypeStack, TypeInv, TypeOK, TablesTyped, RestTyped, ObsTyped, ImplType

LEMMA BeginFnStep ==
  ASSUME TypeStack, NEW n \in FnName, NEW args \in Args, BeginFn(n, args)
  PROVE  TypeStack'
<1> DEFINE m == MethodOf(AtProto)
<1>1. TypeInv /\ Stacked /\ AtProto \in Seq(ImplType) /\ m \in MethodType
  BY AtProtoTyped, MethodOfTyped DEF TypeStack
<1>2. /\ FnParent \in Table /\ WithDef(n, m, args) \in SUBSET EntryType
  BY <1>1, FnParentIsTable, EntriesTyped
<1>3. Grow(parent, FnParent, WithDef(n, m, args)) /\ UNCHANGED emitMain
  BY DEF BeginFn, Parsing
<1>4. /\ TablesTyped' /\ Len(parent') \in Nat /\ Len(parent) <= Len(parent')
      /\ NewTable \in Table' /\ NewTable \in 0 .. Len(parent')
  <2> HIDE DEF m
  <2> QED BY <1>1, <1>2, <1>3, TablesGrow DEF Table
<1>5. ReadProto("function", m, args) /\ impls' = AtProto /\ (StatementPlace \/ MemberPlace)
      /\ Open("fn", NewTable, Plain)
  BY DEF BeginFn
<1>6. ObsTyped' /\ varg' \in BOOLEAN
  <2> HIDE DEF m
  <2> QED BY <1>1, <1>4, <1>5, ProtoTyped
<1>7. RestTyped'
  BY <1>1, <1>4, <1>6 DEF BeginFn, Parsing, RestTyped, TypeInv, TypeOK
<1>8. ctx' \in Seq(CtxType') /\ Stacked' /\ impls' \in Seq(ImplType)
  BY <1>1, <1>4, <1>5, Opened, MethodsTyped
<1> QED BY <1>4, <1>6, <1>7, <1>8
      DEF TypeStack, TypeInv, TypeOK, TablesTyped, RestTyped, ObsTyped, ImplType

(* An impl's or a trait's prototype without a body. *)
LEMMA TraitProtoStep ==
  ASSUME TypeStack, NEW n \in FnName, NEW args \in Args, TraitProto(n, args)
  PROVE  TypeStack'
<1> DEFINE m == MethodOf(impls)
<1>1. TypeInv /\ Stacked /\ impls \in Seq(ImplType) /\ m \in MethodType
  BY TypeParts, MethodOfTyped DEF TypeStack
<1>2. /\ FnParent \in Table /\ WithDef(n, m, args) \in SUBSET EntryType
  BY <1>1, FnParentIsTable, EntriesTyped
<1>3. Grow(parent, FnParent, WithDef(n, m, args)) /\ UNCHANGED emitMain
  BY DEF TraitProto, Parsing
<1>4. /\ TablesTyped' /\ Len(parent') \in Nat /\ Len(parent) <= Len(parent')
      /\ NewTable \in Table' /\ NewTable \in 0 .. Len(parent') /\ Table \subseteq Table'
  <2> HIDE DEF m
  <2> QED BY <1>1, <1>2, <1>3, TablesGrow DEF Table
<1>5. ReadProto("function", m, args) /\ UNCHANGED <<ctx, impls>>
  BY DEF TraitProto
<1>6. ObsTyped' /\ varg' \in BOOLEAN
  <2> HIDE DEF m
  <2> QED BY <1>1, <1>4, <1>5, ProtoTyped
<1>7. RestTyped'
  BY <1>1, <1>2, <1>4, <1>6 DEF TraitProto, Parsing, RestTyped, TypeInv, TypeOK
<1>8. ctx' \in Seq(CtxType') /\ Stacked' /\ impls' \in Seq(ImplType)
  BY <1>1, <1>4, <1>5, TypesGrow, StackKept
<1> QED BY <1>4, <1>6, <1>7, <1>8
      DEF TypeStack, TypeInv, TypeOK, TablesTyped, RestTyped, ObsTyped, ImplType

LEMMA ExternTables ==
  ASSUME TypeInv, NEW n \in FnName, NEW args \in Args, DeclareExtern(n, args)
  PROVE  /\ Len(parent') = Len(parent) + 1
         /\ \A t \in Table : parent'[t] = IF emitMain /\ t = Main THEN FnParent ELSE parent[t]
         /\ curr' = IF emitMain THEN Main ELSE FnParent
         /\ currFn' = IF emitMain THEN Main ELSE 0
         /\ fnsyms'[NewTable] = {}
         /\ \A t \in Table : fnsyms'[t] = IF t = NameTable THEN WithDecl(n, MethodOf(impls), args)
                                          ELSE fnsyms[t]
         /\ TablesTyped'
         /\ curr' \in Table' /\ currFn' \in 0 .. Len(parent')
<1> DEFINE k == Len(parent)
           links == Append(parent, FnParent)
           W == WithDecl(n, MethodOf(impls), args)
           F == [fnsyms EXCEPT ![NameTable] = W]
           L == [Label -> {"absent", "hanging", "defined"}]
<1>1. /\ k \in Nat /\ parent \in Seq(0 .. k) /\ parent \in Seq(0 .. k + 1)
      /\ emitMain \in BOOLEAN /\ (emitMain => k >= 2) /\ Table = 1 .. k
  BY Lengths, SeqMonotonic DEF TypeInv, TypeOK, Linked, Table
<1>2. FnParent \in 1 .. k /\ NameTable = FnParent
  BY <1>1, FnParentIsTable DEF NameTable
<1>3. W \in SUBSET EntryType
  BY MethodOfTyped, EntriesTyped, TypeParts
<1>4. /\ links \in Seq(0 .. k + 1) /\ Len(links) = k + 1 /\ links[k + 1] = FnParent
      /\ \A t \in 1 .. k : links[t] = parent[t]
  BY <1>1, <1>2, AppendProperties
<1>5. /\ BackToMainOrUp(links, FnParent) /\ UNCHANGED emitMain
      /\ fnsyms' = Append(F, {}) /\ labels' = Append(labels, [l \in Label |-> "absent"])
  BY DEF DeclareExtern, Parsing
<1>6. /\ Len(parent') = k + 1 /\ parent' \in Seq(0 .. k + 1)
      /\ \A t \in 1 .. k + 1 : parent'[t] = IF emitMain /\ t = Main THEN FnParent ELSE links[t]
      /\ curr' = IF emitMain THEN Main ELSE FnParent
      /\ currFn' = IF emitMain THEN Main ELSE 0
      /\ curr' \in 1 .. k + 1 /\ currFn' \in 0 .. k + 1
  <2> HIDE DEF links
  <2>1. k + 1 \in Nat /\ (emitMain => k + 1 >= 2) /\ FnParent \in 1 .. k + 1
    BY <1>1, <1>2
  <2> QED BY <1>1, <1>4, <1>5, <2>1, BackFacts
<1>7. /\ F \in [1 .. k -> SUBSET EntryType] /\ labels \in [1 .. k -> L]
      /\ \A t \in 1 .. k : F[t] = IF t = NameTable THEN W ELSE fnsyms[t]
  <2> HIDE DEF W
  <2> QED BY <1>1, <1>2, <1>3 DEF TypeInv, TypeOK
<1>8. F \in Seq(SUBSET EntryType) /\ Len(F) = k /\ labels \in Seq(L) /\ Len(labels) = k
  <2> HIDE DEF F, L, k
  <2> QED BY <1>1, <1>7, FunctionIsSeq
<1>9. [l \in Label |-> "absent"] \in L /\ {} \in SUBSET EntryType
  OBVIOUS
<1>10. /\ fnsyms' \in Seq(SUBSET EntryType) /\ Len(fnsyms') = k + 1
       /\ fnsyms'[k + 1] = {} /\ \A t \in 1 .. k : fnsyms'[t] = F[t]
       /\ labels' \in Seq(L) /\ Len(labels') = k + 1
  <2> HIDE DEF F, L, k
  <2> QED BY <1>5, <1>8, <1>9, AppendProperties
<1>11. Table' = 1 .. k + 1
  BY <1>6 DEF Table
<1>12. fnsyms' \in [1 .. k + 1 -> SUBSET EntryType] /\ labels' \in [1 .. k + 1 -> L]
  <2> HIDE DEF F, L, k
  <2> QED BY <1>10, LenProperties
<1>13. \A t \in 1 .. k + 1 : t # Root => parent'[t] \in 1 .. k + 1
  <2>1. \A t \in 1 .. k : t # Root => parent[t] \in 1 .. k
    BY <1>1 DEF TypeInv, Linked
  <2> SUFFICES ASSUME NEW t \in 1 .. k + 1, t # Root PROVE parent'[t] \in 1 .. k + 1
    OBVIOUS
  <2> HIDE DEF links
  <2>2. parent'[t] = FnParent \/ parent'[t] = links[t]
    BY <1>6
  <2>3. links[t] \in 1 .. k + 1
    <3>1. CASE t = k + 1
      BY <1>1, <1>2, <1>4, <3>1
    <3>2. CASE t # k + 1
      <4>1. t \in 1 .. k
        BY <1>1, <3>2
      <4> QED BY <1>1, <1>4, <2>1, <4>1
    <3> QED BY <3>1, <3>2
  <2> QED BY <1>1, <1>2, <2>2, <2>3
<1>14. TablesTyped'
  <2>1. Linked'
    BY <1>1, <1>5, <1>6, <1>11, <1>13 DEF Linked
  <2> QED BY <1>6, <1>11, <1>12, <2>1 DEF TablesTyped
<1>15. NewTable = k + 1 /\ \A t \in 1 .. k : parent'[t] = IF emitMain /\ t = Main THEN FnParent ELSE parent[t]
  <2> HIDE DEF links
  <2>1. NewTable = k + 1
    BY DEF NewTable
  <2>2. ASSUME NEW t \in 1 .. k
        PROVE  parent'[t] = IF emitMain /\ t = Main THEN FnParent ELSE parent[t]
    <3>1. t \in 1 .. k + 1 /\ links[t] = parent[t]
      BY <1>1, <1>4
    <3> QED BY <1>6, <3>1
  <2> QED BY <2>1, <2>2
<1> HIDE DEF F, W, L, links
<1> QED BY <1>1, <1>6, <1>7, <1>10, <1>11, <1>14, <1>15 DEF W

LEMMA ExternStep ==
  ASSUME TypeStack, NEW n \in FnName, NEW args \in Args, DeclareExtern(n, args)
  PROVE  TypeStack'
<1> DEFINE m == MethodOf(impls)
<1>1. TypeInv /\ Stacked /\ impls \in Seq(ImplType) /\ m \in MethodType
  BY TypeParts, MethodOfTyped DEF TypeStack
<1>2. /\ TablesTyped' /\ Len(parent') \in Nat /\ Len(parent) <= Len(parent')
      /\ curr' \in Table' /\ currFn' \in 0 .. Len(parent')
  BY <1>1, ExternTables, Lengths
<1>3. ReadProto("extern", m, args) /\ UNCHANGED <<emitMain, phase, trait, ctx, impls>>
  BY DEF DeclareExtern, Parsing
<1>4. ObsTyped' /\ varg' \in BOOLEAN
  <2> HIDE DEF m
  <2> QED BY <1>1, <1>2, <1>3, ProtoTyped
<1>5. RestTyped'
  BY <1>1, <1>2, <1>3, <1>4 DEF RestTyped, TypeInv, TypeOK
<1>6. ctx' \in Seq(CtxType') /\ Stacked' /\ impls' \in Seq(ImplType)
  BY <1>1, <1>2, <1>3, TypesGrow, StackKept
<1> QED BY <1>2, <1>4, <1>5, <1>6
      DEF TypeStack, TypeInv, TypeOK, TablesTyped, RestTyped, ObsTyped, ImplType

LEMMA DefineStructStep == ASSUME TypeStack, DefineStruct PROVE TypeStack'
<1>1. /\ TypeInv /\ Stacked /\ impls \in Seq(ImplType)
      /\ curr \in Table /\ fnsyms[curr] \in SUBSET EntryType
  BY TypeParts DEF TypeStack, TypeInv, TypeOK
<1>2. /\ Grow(parent, curr, fnsyms[curr])
      /\ UNCHANGED <<emitMain, phase, curr, currFn, trait, impls, ctx>> /\ varg' = FALSE
  BY DEF DefineStruct, Parsing
<1>3. /\ TablesTyped' /\ Len(parent') \in Nat /\ Len(parent) <= Len(parent')
      /\ Table \subseteq Table'
  BY <1>1, <1>2, TablesGrow
<1>4. ObsTyped'
  BY ObsNone DEF DefineStruct
<1>5. RestTyped'
  BY <1>1, <1>2, <1>3, TypesGrow DEF RestTyped, TypeInv, TypeOK
<1>6. ctx' \in Seq(CtxType') /\ Stacked' /\ impls' \in Seq(ImplType)
  BY <1>1, <1>2, <1>3, TypesGrow, StackKept
<1> QED BY <1>3, <1>4, <1>5, <1>6
      DEF TypeStack, TypeInv, TypeOK, TablesTyped, RestTyped, ObsTyped, ImplType

(* Names that change no scope: variables, labels and what is refused. *)
Naming ==
  \/ \E n \in FnName, args \in Args : RejectProto(n, args)
  \/ \E global \in BOOLEAN : Let(global)
  \/ \E l \in Label : Goto(l) \/ DefineLabel(l) \/ RejectLabel(l)
  \/ CrashOnLabel

LEMMA NamingKeeps ==
  ASSUME TypeInv, Naming
  PROVE  /\ UNCHANGED <<emitMain, curr, currFn, trait, impls, varg, parent, fnsyms, ctx>>
         /\ phase' \in {phase, "failed", "crashed"}
         /\ labels' \in [Table -> [Label -> {"absent", "hanging", "defined"}]]
         /\ ObsTyped'
<1>1. /\ UNCHANGED <<emitMain, curr, currFn, trait, impls, varg, parent, fnsyms, ctx>>
      /\ phase' \in {phase, "failed", "crashed"}
  BY DEF Naming, RejectProto, Let, Goto, DefineLabel, RejectLabel, CrashOnLabel,
         Parsing, globals, tables
<1>2. labels' \in [Table -> [Label -> {"absent", "hanging", "defined"}]]
  <2>1. UNCHANGED labels \/ \E l \in Label : Goto(l) \/ DefineLabel(l)
    BY DEF Naming, RejectProto, Let, RejectLabel, CrashOnLabel, tables
  <2>2. labels \in [Table -> [Label -> {"absent", "hanging", "defined"}]]
    BY DEF TypeInv, TypeOK
  <2>3. CASE \E l \in Label : Goto(l) \/ DefineLabel(l)
    BY <2>2, <2>3 DEF Goto, DefineLabel
  <2> QED BY <2>1, <2>2, <2>3
<1>3. ObsTyped'
  <2>1. /\ curr \in 0 .. Len(parent) /\ currFn \in 0 .. Len(parent)
        /\ Root \in 0 .. Len(parent) /\ parent' = parent
    BY <1>1, Lengths DEF TypeInv, TypeOK, Table
  <2>2. Nameless \/ \E sort \in {"variable", "label"},
                       got \in 0 .. Len(parent), want \in 0 .. Len(parent) :
                         Observe(sort, got, want)
    BY <2>1, PlacesTyped
       DEF Naming, RejectProto, Let, Goto, DefineLabel, RejectLabel, CrashOnLabel
  <2> QED BY <2>1, <2>2, ObsNone, ObsNamed
<1> QED BY <1>1, <1>2, <1>3

LEMMA NamingStep == ASSUME TypeStack, Naming PROVE TypeStack'
<1>1. TypeInv /\ Stacked
  BY DEF TypeStack
<1>2. /\ UNCHANGED <<emitMain, curr, currFn, trait, impls, varg, parent, fnsyms, ctx>>
      /\ phase' \in {phase, "failed", "crashed"}
      /\ labels' \in [Table -> [Label -> {"absent", "hanging", "defined"}]]
      /\ ObsTyped'
  BY <1>1, NamingKeeps
<1>3. Table' = Table /\ CtxType' = CtxType /\ Linked'
  BY <1>1, <1>2 DEF Table, CtxType, Linked, TypeInv
<1>4. TypeInv'
  BY <1>1, <1>2, <1>3 DEF TypeInv, TypeOK, ObsTyped
<1> QED BY <1>1, <1>2, <1>4, StackKept DEF TypeStack

LEMMA TypeInit == Init => TypeStack
<1> SUFFICES ASSUME Init PROVE TypeStack
  OBVIOUS
<1>1. /\ emitMain \in BOOLEAN /\ trait = None /\ impls = <<>> /\ varg = FALSE
      /\ ctx = <<>> /\ obs.sort = None /\ obs.intrait = FALSE /\ phase = "parse"
      /\ fnsyms \in [Table -> SUBSET EntryType]
      /\ labels \in [Table -> [Label -> {"absent", "hanging", "defined"}]]
  BY OptionAssumption DEF Init, NoName
<1>2. /\ emitMain => /\ parent \in Seq(0 .. 2) /\ Len(parent) = 2 /\ parent[2] = 1
                     /\ curr = 2 /\ currFn = 2
      /\ ~emitMain => parent \in Seq(0 .. 1) /\ Len(parent) = 1 /\ curr = 1 /\ currFn = 0
  <2>1. CASE emitMain
    <3>1. parent = <<0, 1>> /\ curr = 2 /\ currFn = 2
      BY <2>1 DEF Init, Root, Main
    <3>2. parent \in [1 .. 2 -> 0 .. 2] /\ parent[2] = 1
      BY <3>1
    <3> QED BY <2>1, <3>1, <3>2, FunctionIsSeq
  <2>2. CASE ~emitMain
    <3>1. parent = <<0>> /\ curr = 1 /\ currFn = 0
      BY <2>2 DEF Init, Root
    <3>2. parent \in [1 .. 1 -> 0 .. 1]
      BY <3>1
    <3> QED BY <2>2, <3>1, <3>2, FunctionIsSeq
  <2> QED BY <2>1, <2>2
<1>3. TypeOK
  <2>1. parent \in Seq(0 .. Len(parent)) /\ curr \in Table /\ currFn \in 0 .. Len(parent)
    <3>1. CASE emitMain
      <4>1. Len(parent) = 2 /\ 0 .. Len(parent) = 0 .. 2
        BY <1>2, <3>1
      <4> QED BY <1>2, <3>1, <4>1 DEF Table
    <3>2. CASE ~emitMain
      <4>1. Len(parent) = 1 /\ 0 .. Len(parent) = 0 .. 1
        BY <1>2, <3>2
      <4> QED BY <1>2, <3>2, <4>1 DEF Table
    <3> QED BY <3>1, <3>2
  <2>2. ctx \in Seq(CtxType) /\ impls \in Seq([owner : MethodType, count : Nat])
    BY <1>1, EmptySeq
  <2> QED BY <1>1, <2>1, <2>2 DEF TypeOK
<1>4. Linked
  BY <1>1, <1>2, SMTT(30) DEF Linked, Table, Root
<1>5. Stacked
  <2> DEFINE H == [i \in 0 .. 0 |-> <<>>]
  <2>1. H \in [0 .. 0 -> Seq(ImplType)] /\ H[0] = <<>>
    BY EmptySeq
  <2>2. Len(ctx) = 0
    BY <1>1, EmptySeq
  <2> HIDE DEF H
  <2> QED BY <1>1, <2>1, <2>2 DEF Stacked
<1> QED BY <1>3, <1>4, <1>5 DEF TypeInv, TypeStack

LEMMA TypeStep == ASSUME TypeStack, [Next]_vars PROVE TypeStack'
<1>1. CASE UNCHANGED vars
  <2>1. TypeInv' /\ UNCHANGED <<ctx, impls>>
    BY <1>1 DEF TypeStack, vars, TypeInv, TypeOK, Linked, Table, CtxType, RecordType
  <2> QED BY <2>1, StackKept DEF TypeStack
<1>2. CASE OpenBlock \/ OpenFor
  BY <1>2, OpenTableStep
<1>3. CASE CloseBlock \/ CloseFor \/ CloseTrait \/ CloseImpl
  BY <1>3, CloseStep
<1>4. CASE \/ \E t \in Type : OpenTrait(t)
           \/ \E cls \in Type, for \in Type \cup {None} : OpenImpl(cls, for)
  BY <1>4, OpenMemberPlaceStep
<1>5. CASE DefineStruct
  BY <1>5, DefineStructStep
<1>6. CASE EndFn
  BY <1>6, EndFnStep
<1>7. CASE \E n \in FnName, args \in Args :
             BeginFn(n, args) \/ DeclareExtern(n, args) \/ TraitProto(n, args)
  BY <1>7, BeginFnStep, ExternStep, TraitProtoStep
<1>8. CASE Naming
  BY <1>8, NamingStep
<1> QED BY <1>1, <1>2, <1>3, <1>4, <1>5, <1>6, <1>7, <1>8 DEF Next, Naming

(* The parser's globals and tables have their types at every step, for any *)
(* source and with and without -main: no table index is out of range, and  *)
(* the stack of impls is what the open constructs say.                     *)
THEOREM TypeCorrect == Spec => []TypeOK
<1>1. TypeStack /\ [Next]_vars => TypeStack'
  BY TypeStep
<1>2. TypeStack => TypeOK
  BY DEF TypeStack, TypeInv
<1> QED BY TypeInit, <1>1, <1>2, PTL DEF Spec

(***************************************************************************)
(* Methods.  current_trait_id is set in traits only, and the count of the  *)
(* innermost impl is 0 just where its methods are.                         *)
(***************************************************************************)
TraitIsOpen == trait # None => InTrait

LEMMA ClosedTraits ==
  ASSUME TypeInv, ctx # <<>>, Top.kind # "trait", ctx' = Outer, InTrait
  PROVE  InTrait'
<1>1. /\ Len(ctx) \in Nat /\ Len(Outer) = Len(ctx) - 1 /\ Outer \in Seq(CtxType)
      /\ \A i \in 1 .. Len(ctx) - 1 : Outer[i] = ctx[i]
      /\ DOMAIN ctx = 1 .. Len(ctx) /\ DOMAIN Outer = 1 .. Len(Outer)
  BY CtxClosed, LenProperties DEF TypeInv, TypeOK
<1>2. PICK i \in DOMAIN ctx : ctx[i].kind = "trait"
  BY DEF InTrait
<1>3. i # Len(ctx)
  BY <1>2 DEF Top
<1>4. i \in DOMAIN Outer /\ Outer[i] = ctx[i]
  BY <1>1, <1>3
<1> QED BY <1>2, <1>4 DEF InTrait

LEMMA OpenedTraits ==
  ASSUME TypeInv, NEW kind, NEW tab, NEW owner, Open(kind, tab, owner)
  PROVE  (kind = "trait" \/ InTrait) => InTrait'
<1> DEFINE f == Frame(kind, tab, owner)
<1>1. ctx \in Seq(CtxType \cup {f}) /\ Len(ctx) \in Nat
  BY SeqMonotonic, Lengths DEF TypeInv, TypeOK
<1>2. /\ ctx' \in Seq(CtxType \cup {f}) /\ Len(ctx') = Len(ctx) + 1
      /\ ctx'[Len(ctx) + 1] = f
      /\ \A i \in 1 .. Len(ctx) : ctx'[i] = ctx[i]
  <2> HIDE DEF f
  <2>1. ctx' = Append(ctx, f)
    BY DEF Open, f
  <2> QED BY <1>1, <2>1, AppendProperties
<1>3. DOMAIN ctx = 1 .. Len(ctx) /\ DOMAIN ctx' = 1 .. Len(ctx) + 1
  BY <1>1, <1>2, LenProperties
<1>4. f.kind = kind
  BY DEF Frame
<1> HIDE DEF f
<1> QED BY <1>1, <1>2, <1>3, <1>4 DEF InTrait

LEMMA TraitStep ==
  ASSUME TypeStack, TraitIsOpen, [Next]_vars PROVE TraitIsOpen'
<1>1. TypeInv
  BY DEF TypeStack
<1>2. CASE \E t \in Type : OpenTrait(t)
  BY <1>1, <1>2, OpenedTraits DEF OpenTrait, TraitIsOpen
<1>3. CASE CloseTrait
  BY <1>3 DEF CloseTrait, TraitIsOpen
<1>4. CASE CloseBlock \/ CloseFor \/ CloseImpl \/ EndFn
  <2>1. ctx # <<>> /\ Top.kind # "trait" /\ ctx' = Outer /\ trait' = trait
    BY <1>4 DEF CloseBlock, CloseFor, CloseImpl, EndFn, In, globals
  <2> QED BY <1>1, <2>1, ClosedTraits DEF TraitIsOpen
<1>5. CASE \/ OpenBlock \/ OpenFor
           \/ \E cls \in Type, for \in Type \cup {None} : OpenImpl(cls, for)
           \/ \E n \in FnName, args \in Args : BeginFn(n, args)
  <2>1. trait' = trait /\ \E kind, tab, owner : Open(kind, tab, owner)
    BY <1>5 DEF OpenBlock, OpenFor, OpenImpl, BeginFn, globals
  <2> QED BY <1>1, <2>1, OpenedTraits DEF TraitIsOpen
<1>6. CASE \/ DefineStruct \/ Naming \/ UNCHANGED vars
           \/ \E n \in FnName, args \in Args : DeclareExtern(n, args) \/ TraitProto(n, args)
  <2>1. trait' = trait /\ ctx' = ctx
    BY <1>1, <1>6, NamingKeeps DEF DefineStruct, DeclareExtern, TraitProto, vars
  <2> QED BY <2>1 DEF TraitIsOpen, InTrait
<1> QED BY <1>2, <1>3, <1>4, <1>5, <1>6 DEF Next, Naming

(* In an impl, its methods are counted 0; elsewhere a function counts. *)
LEMMA CountOfImpl ==
  ASSUME TypeStack, In({"impl"}), trait = None
  PROVE  MethodOf(impls) = Top.owner
<1>1. TypeInv /\ Stacked /\ ctx # <<>> /\ Top.kind = "impl"
  BY DEF TypeStack, In
<1>2. PICK s \in Seq(ImplType) : impls = Pushed(s, ctx, Len(ctx))
  BY <1>1, StackClosed
<1> DEFINE e == [owner |-> Top.owner, count |-> 0]
<1>3. impls = Append(s, e)
  BY <1>1, <1>2 DEF Pushed, Top
<1>4. e \in ImplType
  BY <1>1, CtxClosed DEF ImplType, CtxType
<1>5. impls # <<>> /\ impls[Len(impls)] = e
  <2> HIDE DEF e
  <2>1. Len(impls) = Len(s) + 1 /\ impls[Len(s) + 1] = e /\ impls \in Seq(ImplType) /\ Len(s) \in Nat
    BY <1>3, <1>4, AppendProperties, LenProperties
  <2> QED BY <2>1, EmptySeq
<1> QED BY <1>5 DEF MethodOf

LEMMA CountOfPlain ==
  ASSUME TypeStack, StatementPlace, trait = None
  PROVE  MethodOf(AtProto) = Plain
<1>1. impls \in Seq(ImplType) /\ AtProto = Counted(impls, 1)
  BY TypeParts DEF TypeStack, AtProto
<1>2. CASE impls = <<>>
  BY <1>1, <1>2, CountedBack DEF MethodOf
<1>3. CASE impls # <<>>
  BY <1>1, <1>3, CountedBack DEF MethodOf
<1> QED BY <1>2, <1>3

(* Functions written directly in an impl, and no others, are its methods:  *)
(* the counter that decides it (fn_def_recursive_count, of the impl on top *)
(* of the stack) is balanced over bodies, impls inside bodies and          *)
(* functions inside those, to any depth.                                   *)
THEOREM MethodsOfImpls == Spec => []ImplMethodsAreMethods
<1> DEFINE I == TypeStack /\ TraitIsOpen /\ ImplMethodsAreMethods
<1>1. Init => I
  BY TypeInit DEF Init, TraitIsOpen, ImplMethodsAreMethods, NoName
<1>2. I /\ [Next]_vars => I'
  <2> SUFFICES ASSUME I, [Next]_vars PROVE ImplMethodsAreMethods'
    BY TypeStep, TraitStep
  <2>1. ASSUME NEW n \in FnName, NEW args \in Args, BeginFn(n, args)
        PROVE  ImplMethodsAreMethods'
    <3>1. /\ obs'.got.method = MethodOf(AtProto) /\ obs'.want.method = Written
          /\ obs'.intrait = InTrait /\ (StatementPlace \/ MemberPlace)
      BY <2>1 DEF BeginFn, ReadProto, Observe, Recorded
    <3> SUFFICES ASSUME ~InTrait PROVE MethodOf(AtProto) = Written
      BY <3>1 DEF ImplMethodsAreMethods
    <3>2. trait = None
      BY DEF TraitIsOpen
    <3>3. CASE StatementPlace
      <4>1. ~MemberPlace
        BY <3>3 DEF StatementPlace, MemberPlace, In
      <4> QED BY <3>2, <3>3, <4>1, CountOfPlain DEF Written
    <3>4. CASE MemberPlace
      <4>1. ~StatementPlace
        BY <3>4 DEF StatementPlace, MemberPlace, In
      <4>2. In({"impl"})
        <5>1. ctx # <<>> /\ Len(ctx) \in DOMAIN ctx
          BY <3>4, CtxClosed, LenProperties DEF MemberPlace, In, TypeStack, TypeInv, TypeOK
        <5> QED BY <3>4, <5>1 DEF MemberPlace, In, InTrait, Top
      <4> QED BY <3>2, <3>4, <4>1, <4>2, CountOfImpl DEF Written, AtProto
    <3> QED BY <3>1, <3>3, <3>4
  <2>2. ASSUME NEW n \in FnName, NEW args \in Args, TraitProto(n, args)
        PROVE  ImplMethodsAreMethods'
    <3>1. InTrait
      <4>1. ctx # <<>> /\ Top.kind = "trait" /\ Len(ctx) \in DOMAIN ctx
        BY <2>2, CtxClosed, LenProperties DEF TraitProto, In, TypeStack, TypeInv, TypeOK
      <4> QED BY <4>1 DEF InTrait, Top
    <3> QED BY <2>2, <3>1 DEF TraitProto, ReadProto, Observe, ImplMethodsAreMethods
  <2>3. CASE UNCHANGED vars
    BY <2>3 DEF vars, ImplMethodsAreMethods
  <2>4. CASE \/ OpenBlock \/ CloseBlock \/ OpenFor \/ CloseFor \/ DefineStruct
             \/ \E t \in Type : OpenTrait(t)
             \/ CloseTrait
             \/ \E cls \in Type, for \in Type \cup {None} : OpenImpl(cls, for)
             \/ CloseImpl \/ EndFn
    <3>1. Nameless
      BY <2>4 DEF OpenBlock, CloseBlock, OpenFor, CloseFor, DefineStruct, OpenTrait, CloseTrait,
           OpenImpl, CloseImpl, EndFn
    <3> QED BY <3>1 DEF Nameless, NoName, None, ImplMethodsAreMethods
  <2>5. CASE Naming \/ \E n \in FnName, args \in Args : DeclareExtern(n, args)
    <3>1. obs'.sort # "function"
      BY <2>5 DEF Naming, RejectProto, Let, Goto, DefineLabel, RejectLabel, CrashOnLabel,
           DeclareExtern, ReadProto, Observe, Nameless, NoName, None
    <3> QED BY <3>1 DEF ImplMethodsAreMethods
  <2> QED BY <2>1, <2>2, <2>3, <2>4, <2>5 DEF Next, Naming
<1> QED BY <1>1, <1>2, PTL DEF Spec

(***************************************************************************)
(* Scopes.  curr_symtable is the innermost construct's table, and the      *)
(* parents say where each construct returns to.                            *)
(***************************************************************************)
Placed(i) ==
  /\ ctx[i].tab = 0 <=> ctx[i].kind \in {"trait", "impl"}
  /\ ctx[i].tab # 0 => /\ ctx[i].tab # Root /\ (emitMain => ctx[i].tab # Main)
                       /\ parent[ctx[i].tab] = Above(i)
  /\ emitMain /\ ctx[i].kind = "fn" => \A j \in 1 .. i - 1 : ctx[j].tab = 0

Follows ==
  /\ curr = Home(ctx)
  /\ emitMain => parent[Main] = Root
  /\ \A i \in 1 .. Len(ctx) : Placed(i)

LEMMA PrefixesAgree ==
  ASSUME NEW S, NEW T, NEW s \in Seq(S), NEW t \in Seq(T), NEW k \in Nat,
         k <= Len(s), k <= Len(t), \A i \in 1 .. k : s[i] = t[i]
  PROVE  SubSeq(s, 1, k) = SubSeq(t, 1, k)
<1> DEFINE a == SubSeq(s, 1, k)
           b == SubSeq(t, 1, k)
<1>1. Len(s) \in Nat /\ Len(t) \in Nat
      /\ (\A i \in 1 .. k : s[i] \in S) /\ (\A i \in 1 .. k : t[i] \in T)
  BY LenProperties, ElementOfSeq
<1>2. /\ a \in Seq(S) /\ Len(a) = (IF 1 <= k THEN k - 1 + 1 ELSE 0)
      /\ \A i \in 1 .. k - 1 + 1 : a[i] = s[1 + i - 1]
  BY <1>1, SubSeqProperties
<1>3. /\ b \in Seq(T) /\ Len(b) = (IF 1 <= k THEN k - 1 + 1 ELSE 0)
      /\ \A i \in 1 .. k - 1 + 1 : b[i] = t[1 + i - 1]
  BY <1>1, SubSeqProperties
<1> HIDE DEF a, b
<1>4. Len(a) = k /\ Len(b) = k
  BY <1>2, <1>3
<1>5. \A i \in 1 .. k : a[i] = s[i] /\ b[i] = t[i]
  <2> SUFFICES ASSUME NEW i \in 1 .. k PROVE a[i] = s[i] /\ b[i] = t[i]
    OBVIOUS
  <2>1. i \in 1 .. k - 1 + 1 /\ 1 + i - 1 = i
    OBVIOUS
  <2> QED BY <1>2, <1>3, <2>1
<1>6. a \in Seq(S \cup T) /\ b \in Seq(S \cup T)
  BY <1>2, <1>3, SeqMonotonic
<1> QED BY <1>4, <1>5, <1>6, SeqEqual DEF a, b

(* A frame keeps its place as long as the frames up to it stay. *)
LEMMA PlacedKept ==
  ASSUME TypeInv, NEW i \in 1 .. Len(ctx), Placed(i), emitMain' = emitMain,
         NEW T, ctx' \in Seq(T), i <= Len(ctx'), \A j \in 1 .. i : ctx'[j] = ctx[j],
         \A t \in Table : ~(emitMain /\ t = Main) => parent'[t] = parent[t]
  PROVE  Placed(i)'
<1>1. ctx \in Seq(CtxType) /\ Len(ctx) \in Nat /\ ctx[i] \in CtxType
  BY LenProperties, ElementOfSeq DEF TypeInv, TypeOK
<1>2. Before(i)' = Before(i)
  <2>1. i - 1 \in Nat /\ i - 1 <= Len(ctx) /\ i - 1 <= Len(ctx') /\ Len(ctx') \in Nat
        /\ \A j \in 1 .. i - 1 : ctx'[j] = ctx[j]
    BY <1>1, LenProperties
  <2>2. SubSeq(ctx', 1, i - 1) = SubSeq(ctx, 1, i - 1)
    <3> HIDE DEF TypeInv
    <3> QED BY <1>1, <2>1, PrefixesAgree
  <2> QED BY <2>2 DEF Before
<1>3. ctx'[i] = ctx[i] /\ \A j \in 1 .. i - 1 : ctx'[j] = ctx[j]
  BY <1>1
<1>4. Above(i)' = Above(i)
  BY <1>2, <1>3 DEF Above, FnHome, Home
<1>5. ctx[i].tab # 0 => parent'[ctx[i].tab] = parent[ctx[i].tab]
  BY <1>1, Lengths DEF Placed, CtxType, Table
<1> QED BY <1>3, <1>4, <1>5 DEF Placed

LEMMA ScopesOf ==
  ASSUME TypeInv, Follows
  PROVE  /\ Scopes(ctx) = {i \in 1 .. Len(ctx) : ctx[i].kind \notin {"trait", "impl"}}
         /\ \A i \in Scopes(ctx) : ctx[i].tab \in Table \ {Root}
<1>1. DOMAIN ctx = 1 .. Len(ctx) /\ Len(ctx) \in Nat /\ \A i \in 1 .. Len(ctx) : ctx[i] \in CtxType
  BY LenProperties, ElementOfSeq DEF TypeInv, TypeOK
<1>2. \A i \in 1 .. Len(ctx) : ctx[i].tab = 0 <=> ctx[i].kind \in {"trait", "impl"}
  BY DEF Follows, Placed
<1>3. ASSUME NEW i \in Scopes(ctx) PROVE ctx[i].tab \in Table \ {Root}
  BY <1>1, Lengths DEF Follows, Placed, Scopes, CtxType, Table
<1> QED BY <1>1, <1>2, <1>3 DEF Scopes

(* Where a function that may be written here hangs. *)
LEMMA FnParentIsFnHome ==
  ASSUME FlatUnderMain, TypeInv, Follows, FunctionAllowed
  PROVE  /\ FnParent = FnHome(ctx)
         /\ emitMain => Scopes(ctx) = {} /\ curr = Main
<1>1. emitMain \in BOOLEAN
  BY DEF TypeInv, TypeOK
<1>2. CASE emitMain
  <2>1. emitMain = TRUE /\ \A i \in DOMAIN ctx : ctx[i].kind \in {"trait", "impl"}
    BY <1>1, <1>2 DEF FunctionAllowed, FlatUnderMain
  <2>2. Scopes(ctx) = {}
    <3>1. \A i \in Scopes(ctx) : i \in DOMAIN ctx /\ ctx[i].kind \notin {"trait", "impl"}
      BY ScopesOf DEF Scopes
    <3> QED BY <2>1, <3>1
  <2>3. curr = Main /\ parent[Main] = Root /\ Main # Root
    BY <1>2, <2>2 DEF Follows, Home, Main, Root
  <2> QED BY <1>2, <2>2, <2>3 DEF FnParent, Up, FnHome
<1>3. CASE ~emitMain
  BY <1>3 DEF FnParent, FnHome, Home, Follows
<1> QED BY <1>2, <1>3

(* A construct without a table changes no scope. *)
LEMMA HomeBelow ==
  ASSUME NEW S, NEW c \in Seq(S), NEW T, NEW d \in Seq(T), Len(d) = Len(c) + 1,
         \A i \in 1 .. Len(c) : d[i] = c[i], d[Len(d)].tab = 0
  PROVE  Scopes(d) = Scopes(c) /\ Home(d) = Home(c)
<1>1. DOMAIN c = 1 .. Len(c) /\ DOMAIN d = 1 .. Len(c) + 1 /\ Len(c) \in Nat
  BY LenProperties
<1>2. Scopes(d) = Scopes(c)
  BY <1>1 DEF Scopes
<1>3. CASE Scopes(c) = {}
  BY <1>2, <1>3 DEF Home
<1>4. CASE Scopes(c) # {}
  <2>1. PICK i \in Scopes(c) : Home(c) = c[i].tab /\ \A j \in Scopes(c) : j <= i
    BY <1>4, HomeOf
  <2>2. Home(d) = d[i].tab
    BY <1>2, <2>1, HomeIs
  <2>3. i \in 1 .. Len(c)
    BY <1>1 DEF Scopes
  <2> QED BY <1>2, <2>1, <2>2, <2>3
<1> QED BY <1>2, <1>3, <1>4

LEMMA FollowsOpened ==
  ASSUME TypeInv, Follows, emitMain' = emitMain,
         NEW kind \in {"block", "for", "fn"}, Open(kind, NewTable, Plain),
         Len(parent') = Len(parent) + 1, \A t \in Table : parent'[t] = parent[t],
         parent'[NewTable] = IF kind = "fn" THEN FnHome(ctx) ELSE curr,
         curr' = NewTable,
         kind = "fn" /\ emitMain => Scopes(ctx) = {}
  PROVE  Follows'
<1> DEFINE n == Len(ctx)
           k == n + 1
<1>1. /\ n \in Nat /\ Len(parent) \in Nat /\ Table = 1 .. Len(parent)
      /\ (emitMain => Main \in Table) /\ Root \in Table /\ NewTable = Len(parent) + 1
      /\ ctx \in Seq(CtxType) /\ DOMAIN ctx = 1 .. n
  BY Lengths, LenProperties DEF TypeInv, TypeOK, Table, NewTable
<1>2. /\ ctx' \in Seq(CtxType') /\ Len(ctx') = n + 1
      /\ ctx'[k] = Frame(kind, NewTable, Plain) /\ \A i \in 1 .. n : ctx'[i] = ctx[i]
  <2>1. Len(parent') \in Nat /\ Len(parent) <= Len(parent') /\ NewTable \in 0 .. Len(parent')
    BY <1>1
  <2> QED BY <2>1, CtxOpened, MethodsTyped
<1>3. /\ ctx'[k].kind = kind /\ ctx'[k].tab = NewTable
      /\ NewTable # 0 /\ NewTable # Root /\ (emitMain => NewTable # Main)
  BY <1>1, <1>2 DEF Frame
<1>4. DOMAIN ctx' = 1 .. k
  BY <1>2, LenProperties
<1>5. Home(ctx') = NewTable
  <2>1. k \in Scopes(ctx') /\ \A j \in Scopes(ctx') : j <= k
    BY <1>1, <1>3, <1>4 DEF Scopes
  <2> QED BY <1>2, <1>3, <2>1, HomeIs
<1>6. ASSUME NEW i \in 1 .. k PROVE Placed(i)'
  <2>1. CASE i # k
    <3>1. i \in 1 .. n /\ i <= Len(ctx') /\ \A j \in 1 .. i : ctx'[j] = ctx[j]
      BY <1>1, <1>2, <2>1
    <3> QED BY <1>2, <3>1, PlacedKept DEF Follows
  <2>2. CASE i = k
    <3>1. Before(i)' = ctx
      <4>1. SubSeq(ctx', 1, n) = SubSeq(ctx, 1, n)
        <5>1. n <= Len(ctx') /\ n <= Len(ctx)
          BY <1>1, <1>2
        <5> HIDE DEF k
        <5> QED BY <1>1, <1>2, <5>1, PrefixesAgree
      <4>2. SubSeq(ctx, 1, n) = ctx
        <5> DEFINE f == SubSeq(ctx, 1, n)
        <5>1. \A i_1 \in 1 .. n : ctx[i_1] \in CtxType
          BY <1>1, ElementOfSeq
        <5>2. /\ f \in Seq(CtxType) /\ Len(f) = (IF 1 <= n THEN n - 1 + 1 ELSE 0)
              /\ \A j \in 1 .. n - 1 + 1 : f[j] = ctx[1 + j - 1]
          BY <1>1, <5>1, SubSeqProperties
        <5> HIDE DEF f
        <5>3. Len(f) = n /\ \A j \in 1 .. n : j \in 1 .. n - 1 + 1 /\ 1 + j - 1 = j
          BY <1>1, <5>2
        <5>4. \A j \in 1 .. n : f[j] = ctx[j]
          BY <5>2, <5>3
        <5> QED BY <1>1, <5>2, <5>3, <5>4, SeqEqual DEF f
      <4>3. i - 1 = n
        BY <1>1, <2>2
      <4> QED BY <4>1, <4>2, <4>3 DEF Before
    <3>2. Above(i)' = parent'[NewTable]
      <4>1. CASE kind = "fn"
        BY <1>3, <2>2, <3>1, <4>1 DEF Above, FnHome, Home
      <4>2. CASE kind # "fn"
        <5> HIDE DEF k
        <5>1. ctx'[i].kind # "fn"
          BY <1>3, <2>2, <4>2
        <5>2. Home(Before(i))' = Home(ctx)
          BY <3>1 DEF Home
        <5>3. Above(i)' = Home(ctx)
          BY <5>1, <5>2 DEF Above
        <5> QED BY <4>2, <5>3 DEF Follows
      <4> QED BY <4>1, <4>2
    <3>3. ASSUME emitMain, kind = "fn", NEW j \in 1 .. i - 1 PROVE ctx'[j].tab = 0
      <4>1. Scopes(ctx) = {} /\ j \in 1 .. n
        BY <1>1, <2>2, <3>3
      <4> QED BY <1>1, <1>2, <4>1 DEF Scopes
    <3>4. Placed(i)'
      <4>1. ctx'[i].kind = kind /\ ctx'[i].tab = NewTable
        BY <1>3, <2>2
      <4> QED BY <1>3, <3>2, <3>3, <4>1 DEF Placed
    <3> QED BY <3>4
  <2> QED BY <2>1, <2>2
<1>7. emitMain => parent'[Main] = Root
  BY <1>1 DEF Follows
<1>8. curr' = Home(ctx)'
  BY <1>5 DEF Home
<1> QED BY <1>2, <1>6, <1>7, <1>8 DEF Follows

(* Nothing opens or closes. *)
LEMMA FollowsKept ==
  ASSUME TypeInv, Follows, UNCHANGED <<emitMain, ctx, curr>>,
         \A t \in Table : parent'[t] = parent[t]
  PROVE  Follows'
<1>1. /\ ctx' \in Seq(CtxType) /\ \A i \in 1 .. Len(ctx) : i <= Len(ctx')
      /\ (emitMain => Main \in Table)
  BY Lengths DEF TypeInv, TypeOK
<1>2. \A i \in 1 .. Len(ctx) : Placed(i)'
  BY <1>1, PlacedKept DEF Follows
<1>3. Home(ctx)' = Home(ctx)
  BY DEF Home
<1> QED BY <1>1, <1>2, <1>3 DEF Follows

(* A trait or an impl opens. *)
LEMMA FollowsEntered ==
  ASSUME TypeInv, Follows, UNCHANGED <<emitMain, parent, curr>>,
         NEW kind \in {"trait", "impl"}, NEW owner \in MethodType, Open(kind, 0, owner)
  PROVE  Follows'
<1> DEFINE n == Len(ctx)
           k == n + 1
<1>1. /\ n \in Nat /\ ctx \in Seq(CtxType) /\ Len(parent') \in Nat
      /\ Len(parent) <= Len(parent') /\ 0 \in 0 .. Len(parent')
  BY Lengths DEF TypeInv, TypeOK
<1>2. /\ ctx' \in Seq(CtxType') /\ Len(ctx') = k
      /\ ctx'[k] = Frame(kind, 0, owner) /\ \A i \in 1 .. n : ctx'[i] = ctx[i]
  BY <1>1, CtxOpened
<1>3. ctx'[k].kind = kind /\ ctx'[k].tab = 0
  BY <1>2 DEF Frame
<1>4. Home(ctx') = Home(ctx)
  <2> HIDE DEF k
  <2> QED BY <1>1, <1>2, <1>3, HomeBelow DEF k
<1>5. ASSUME NEW i \in 1 .. k PROVE Placed(i)'
  <2>1. CASE i # k
    <3>1. i \in 1 .. n /\ i <= Len(ctx') /\ \A j \in 1 .. i : ctx'[j] = ctx[j]
      BY <1>1, <1>2, <2>1
    <3> QED BY <1>2, <3>1, PlacedKept DEF Follows
  <2>2. CASE i = k
    BY <1>3, <2>2 DEF Placed
  <2> QED BY <2>1, <2>2
<1>6. curr' = Home(ctx)'
  BY <1>4 DEF Home, Follows
<1> QED BY <1>2, <1>5, <1>6 DEF Follows

(* The frames below the innermost one, when it closes. *)
LEMMA PlacedBelow ==
  ASSUME TypeInv, Follows, ctx # <<>>, ctx' = Outer, emitMain' = emitMain,
         \A t \in Table : ~(emitMain /\ t = Main) => parent'[t] = parent[t]
  PROVE  \A i \in 1 .. Len(ctx') : Placed(i)'
<1>1. /\ Len(ctx) \in Nat /\ ctx' \in Seq(CtxType) /\ Len(ctx') = Len(ctx) - 1
      /\ \A i \in 1 .. Len(ctx) - 1 : ctx'[i] = ctx[i]
  BY CtxClosed
<1> SUFFICES ASSUME NEW i \in 1 .. Len(ctx') PROVE Placed(i)'
  OBVIOUS
<1>2. i \in 1 .. Len(ctx) /\ i <= Len(ctx') /\ \A j \in 1 .. i : ctx'[j] = ctx[j]
  BY <1>1
<1> QED BY <1>1, <1>2, PlacedKept DEF Follows

(* A block or a loop closes: its table hangs where curr_symtable was. *)
LEMMA FollowsLeft ==
  ASSUME TypeInv, Follows, In({"block", "for"}), ctx' = Outer,
         UNCHANGED <<emitMain, parent>>, curr' = Up(curr)
  PROVE  Follows'
<1> DEFINE n == Len(ctx)
<1>1. n \in Nat /\ n # 0 /\ ctx # <<>> /\ ctx \in Seq(CtxType) /\ Top = ctx[n]
      /\ Top.kind \in {"block", "for"} /\ n \in 1 .. n /\ DOMAIN ctx = 1 .. n
  BY CtxClosed, LenProperties DEF In, Top, TypeInv, TypeOK
<1>2. n \in Scopes(ctx) /\ \A j \in Scopes(ctx) : j <= n
  BY <1>1, ScopesOf
<1>3. curr = ctx[n].tab /\ curr # Root
  BY <1>1, <1>2, HomeIs, ScopesOf DEF Follows
<1>4. Up(curr) = Home(Outer)
  BY <1>1, <1>2, <1>3 DEF Up, Follows, Placed, Above, Before, Outer, Scopes
<1>5. curr' = Home(ctx)'
  BY <1>4 DEF Home
<1>6. \A i \in 1 .. Len(ctx') : Placed(i)'
  BY <1>1, PlacedBelow
<1> QED BY <1>5, <1>6 DEF Follows

(* A trait or an impl closes. *)
LEMMA FollowsOut ==
  ASSUME TypeInv, Follows, In({"trait", "impl"}), ctx' = Outer,
         UNCHANGED <<emitMain, parent, curr>>
  PROVE  Follows'
<1> DEFINE n == Len(ctx)
<1>1. /\ n \in Nat /\ n # 0 /\ ctx # <<>> /\ ctx \in Seq(CtxType)
      /\ ctx[n].kind \in {"trait", "impl"} /\ n \in 1 .. n
      /\ Outer \in Seq(CtxType) /\ Len(Outer) = n - 1
      /\ \A i \in 1 .. n - 1 : Outer[i] = ctx[i]
  BY CtxClosed DEF In, Top, TypeInv, TypeOK
<1>2. ctx[n].tab = 0
  BY <1>1 DEF Follows, Placed
<1>3. Home(ctx) = Home(Outer)
  <2>1. Len(ctx) = Len(Outer) + 1 /\ \A i \in 1 .. Len(Outer) : ctx[i] = Outer[i]
    BY <1>1
  <2> QED BY <1>1, <1>2, <2>1, HomeBelow
<1>4. curr' = Home(ctx)'
  BY <1>3 DEF Home, Follows
<1>5. \A i \in 1 .. Len(ctx') : Placed(i)'
  BY <1>1, PlacedBelow
<1> QED BY <1>4, <1>5 DEF Follows

(* A function closes: with -main nothing else is open but main. *)
LEMMA FollowsFnEnd ==
  ASSUME TypeInv, Follows, EndFn PROVE Follows'
<1> DEFINE n == Len(ctx)
<1>1. /\ n \in Nat /\ n # 0 /\ ctx # <<>> /\ ctx \in Seq(CtxType) /\ ctx[n].kind = "fn"
      /\ n \in 1 .. n /\ DOMAIN ctx = 1 .. n /\ ctx' = Outer
      /\ Outer \in Seq(CtxType) /\ Len(Outer) = n - 1
      /\ \A i \in 1 .. n - 1 : Outer[i] = ctx[i]
      /\ DOMAIN Outer = 1 .. n - 1 /\ emitMain' = emitMain /\ emitMain \in BOOLEAN
  BY CtxClosed, LenProperties DEF EndFn, In, Top, TypeInv, TypeOK, Parsing
<1>2. /\ \A t \in Table : parent'[t] = IF emitMain /\ t = Main THEN Up(curr) ELSE parent[t]
      /\ curr' = IF emitMain THEN Main ELSE Up(curr)
      /\ emitMain => Main \in Table
  BY EndFnTables, Lengths
<1>3. n \in Scopes(ctx) /\ \A j \in Scopes(ctx) : j <= n
  BY <1>1, ScopesOf
<1>4. curr = ctx[n].tab /\ curr # Root
  BY <1>1, <1>3, HomeIs, ScopesOf DEF Follows
<1>5. Up(curr) = FnHome(Outer)
  BY <1>1, <1>3, <1>4 DEF Up, Follows, Placed, Above, Before, Outer, Scopes
<1>6. \A i \in 1 .. Len(ctx') : Placed(i)'
  BY <1>1, <1>2, PlacedBelow
<1>7. CASE emitMain
  <2>1. \A j \in 1 .. n - 1 : ctx[j].tab = 0
    BY <1>1, <1>7 DEF Follows, Placed
  <2>2. Scopes(Outer) = {}
    BY <1>1, <2>1 DEF Scopes
  <2>3. parent'[Main] = Root /\ curr' = Main
    BY <1>2, <1>5, <1>7, <2>2 DEF FnHome
  <2>4. curr' = Home(ctx)'
    BY <1>1, <1>7, <2>2, <2>3 DEF Home
  <2> QED BY <1>6, <2>3, <2>4 DEF Follows
<1>8. CASE ~emitMain
  <2>1. curr' = Home(ctx)'
    BY <1>1, <1>2, <1>5, <1>8 DEF Home, FnHome
  <2> QED BY <1>1, <1>6, <1>8, <2>1 DEF Follows
<1> QED BY <1>7, <1>8

LEMMA FollowsFnBegin ==
  ASSUME FlatUnderMain, TypeInv, Follows, NEW n \in FnName, NEW args \in Args,
         BeginFn(n, args)
  PROVE  Follows'
<1>1. /\ Grow(parent, FnParent, WithDef(n, MethodOf(AtProto), args))
      /\ curr' = NewTable /\ emitMain' = emitMain /\ Open("fn", NewTable, Plain)
      /\ FunctionAllowed
  BY DEF BeginFn, Parsing
<1>2. FnParent = FnHome(ctx) /\ (emitMain => Scopes(ctx) = {}) /\ FnParent \in Table
  BY <1>1, FnParentIsFnHome, FnParentIsTable
<1>3. WithDef(n, MethodOf(AtProto), args) \in SUBSET EntryType
  BY AtProtoTyped, MethodOfTyped, EntriesTyped
<1>4. /\ Len(parent') = Len(parent) + 1 /\ parent'[NewTable] = FnParent
      /\ \A t \in Table : parent'[t] = parent[t]
  BY <1>1, <1>2, <1>3, GrowFacts
<1>5. parent'[NewTable] = IF "fn" = "fn" THEN FnHome(ctx) ELSE curr
  BY <1>2, <1>4
<1>6. "fn" = "fn" /\ emitMain => Scopes(ctx) = {}
  BY <1>2
<1> QED BY <1>1, <1>4, <1>5, <1>6, FollowsOpened

LEMMA FollowsExtern ==
  ASSUME FlatUnderMain, TypeInv, Follows, NEW n \in FnName, NEW args \in Args,
         DeclareExtern(n, args)
  PROVE  Follows'
<1>1. FunctionAllowed /\ StatementPlace /\ UNCHANGED <<emitMain, ctx>> /\ emitMain \in BOOLEAN
  BY DEF DeclareExtern, Parsing, TypeInv, TypeOK
<1>2. FnParent = FnHome(ctx) /\ (emitMain => Scopes(ctx) = {} /\ curr = Main)
  BY <1>1, FnParentIsFnHome
<1>3. /\ \A t \in Table : parent'[t] = IF emitMain /\ t = Main THEN FnParent ELSE parent[t]
      /\ curr' = IF emitMain THEN Main ELSE FnParent
      /\ emitMain => Main \in Table
  BY ExternTables, Lengths
<1>4. curr' = curr
  <2>1. CASE emitMain
    BY <1>2, <1>3, <2>1
  <2>2. CASE ~emitMain
    BY <1>3, <2>2 DEF FnParent
  <2> QED BY <2>1, <2>2
<1>5. ASSUME NEW t \in Table PROVE parent'[t] = parent[t]
  <2>1. CASE emitMain /\ t = Main
    <3>1. parent'[t] = Root
      BY <1>2, <1>3, <2>1 DEF FnHome
    <3> QED BY <2>1, <3>1 DEF Follows
  <2>2. CASE ~(emitMain /\ t = Main)
    BY <1>3, <2>2
  <2> QED BY <2>1, <2>2
<1> QED BY <1>1, <1>4, <1>5, FollowsKept

LEMMA FollowsTraitProto ==
  ASSUME FlatUnderMain, TypeInv, Follows, NEW n \in FnName, NEW args \in Args,
         TraitProto(n, args)
  PROVE  Follows' /\ ~emitMain
<1>1. /\ Grow(parent, FnParent, WithDef(n, MethodOf(impls), args))
      /\ curr' = FnParent /\ UNCHANGED <<emitMain, ctx>> /\ emitMain \in Nested
      /\ emitMain \in BOOLEAN
  BY DEF TraitProto, Parsing, TypeInv, TypeOK
<1>2. ~emitMain
  BY <1>1 DEF FlatUnderMain
<1>3. FnParent = curr /\ FnParent \in Table
  BY <1>2, FnParentIsTable DEF FnParent
<1>4. WithDef(n, MethodOf(impls), args) \in SUBSET EntryType
  BY TypeParts, MethodOfTyped, EntriesTyped
<1>5. \A t \in Table : parent'[t] = parent[t]
  BY <1>1, <1>3, <1>4, GrowFacts
<1> QED BY <1>1, <1>2, <1>3, <1>5, FollowsKept

LEMMA FollowsStep ==
  ASSUME FlatUnderMain, TypeInv, Follows, [Next]_vars PROVE Follows'
<1>1. CASE OpenBlock \/ OpenFor
  <2>1. /\ Grow(parent, curr, fnsyms[curr]) /\ curr' = NewTable /\ emitMain' = emitMain
        /\ curr \in Table /\ fnsyms[curr] \in SUBSET EntryType
        /\ \E kind \in {"block", "for"} : Open(kind, NewTable, Plain)
    BY <1>1 DEF OpenBlock, OpenFor, Parsing, TypeInv, TypeOK
  <2>2. /\ Len(parent') = Len(parent) + 1 /\ parent'[NewTable] = curr
        /\ \A t \in Table : parent'[t] = parent[t]
    BY <2>1, GrowFacts
  <2> QED BY <2>1, <2>2, FollowsOpened
<1>2. CASE CloseBlock \/ CloseFor
  BY <1>2, FollowsLeft DEF CloseBlock, CloseFor, In, Parsing, tables
<1>3. CASE CloseTrait \/ CloseImpl
  BY <1>3, FollowsOut DEF CloseTrait, CloseImpl, In, Parsing, tables
<1>4. CASE \/ \E t \in Type : OpenTrait(t)
           \/ \E cls \in Type, for \in Type \cup {None} : OpenImpl(cls, for)
  BY <1>4, FollowsEntered, MethodsTyped DEF OpenTrait, OpenImpl, Parsing, tables
<1>5. CASE DefineStruct
  <2>1. /\ Grow(parent, curr, fnsyms[curr]) /\ UNCHANGED <<emitMain, ctx, curr>>
        /\ curr \in Table /\ fnsyms[curr] \in SUBSET EntryType
    BY <1>5 DEF DefineStruct, Parsing, TypeInv, TypeOK
  <2> QED BY <2>1, GrowFacts, FollowsKept
<1>6. CASE EndFn
  BY <1>6, FollowsFnEnd
<1>7. CASE \E n \in FnName, args \in Args :
             BeginFn(n, args) \/ DeclareExtern(n, args) \/ TraitProto(n, args)
  BY <1>7, FollowsFnBegin, FollowsExtern, FollowsTraitProto
<1>8. CASE Naming \/ UNCHANGED vars
  <2>1. UNCHANGED <<emitMain, ctx, curr, parent>>
    BY <1>8, NamingKeeps DEF vars
  <2> QED BY <2>1, FollowsKept
<1> QED BY <1>1, <1>2, <1>3, <1>4, <1>5, <1>6, <1>7, <1>8 DEF Next, Naming

LEMMA FollowsInit == Init => Follows
<1> SUFFICES ASSUME Init PROVE Follows
  OBVIOUS
<1>1. ctx = <<>> /\ Len(ctx) = 0 /\ Scopes(ctx) = {}
  BY EmptySeq DEF Init, Scopes
<1>2. curr = Home(ctx)
  BY <1>1 DEF Init, Home
<1>3. emitMain => parent[Main] = Root
  BY DEF Init, Main
<1> QED BY <1>1, <1>2, <1>3 DEF Follows

ScopeInv == TypeStack /\ Follows

LEMMA ScopeStep ==
  ASSUME FlatUnderMain PROVE ScopeInv /\ [Next]_vars => ScopeInv'
BY TypeStep, FollowsStep DEF ScopeInv, TypeStack

(* curr_symtable is the table of the innermost open construct, and the     *)
(* tables of the open constructs hang one under the other, however blocks, *)
(* loops, structs, functions, impls and prototypes have come and gone.     *)
THEOREM ScopesFollow == ASSUME FlatUnderMain PROVE Spec => []ScopeFollowsGrammar
<1>1. Init => ScopeInv
  BY TypeInit, FollowsInit DEF ScopeInv
<1>2. ScopeInv /\ [Next]_vars => ScopeInv'
  BY ScopeStep
<1>3. ScopeInv => ScopeFollowsGrammar
  <2> SUFFICES ASSUME ScopeInv, NEW i \in Scopes(ctx) PROVE parent[ctx[i].tab] = Above(i)
    BY DEF ScopeInv, Follows, ScopeFollowsGrammar
  <2>1. i \in 1 .. Len(ctx) /\ ctx[i].tab # 0
    BY LenProperties DEF ScopeInv, TypeStack, TypeInv, TypeOK, Scopes
  <2> QED BY <2>1 DEF ScopeInv, Follows, Placed
<1> QED BY <1>1, <1>2, <1>3, PTL DEF Spec

(* A variable is recorded in the innermost construct's scope, a function   *)
(* or an extern declaration in the one around it (with -main, in the       *)
(* root's), after any sequence of constructs.                              *)
THEOREM NamesInTheirScope == ASSUME FlatUnderMain PROVE Spec => []NamesGoToTheirScope
<1> DEFINE I == ScopeInv /\ NamesGoToTheirScope
<1>1. Init => I
  BY TypeInit, FollowsInit DEF ScopeInv, Init, NoName, None, NamesGoToTheirScope
<1>2. I /\ [Next]_vars => I'
  <2> SUFFICES ASSUME ScopeInv, NamesGoToTheirScope, [Next]_vars PROVE NamesGoToTheirScope'
    BY ScopeStep
  <2>1. TypeInv /\ Follows
    BY DEF ScopeInv, TypeStack
  <2>2. ASSUME NEW n \in FnName, NEW args \in Args,
               BeginFn(n, args) \/ DeclareExtern(n, args) \/ TraitProto(n, args)
        PROVE  NamesGoToTheirScope'
    <3>1. NameTable = FnHome(ctx)
      <4>1. CASE FunctionAllowed
        BY <2>1, <4>1, FnParentIsFnHome DEF NameTable
      <4>2. CASE TraitProto(n, args)
        <5>1. ~emitMain
          BY <2>1, <4>2, FollowsTraitProto
        <5> QED BY <2>1, <5>1 DEF NameTable, FnParent, FnHome, Home, Follows
      <4> QED BY <2>2, <4>1, <4>2 DEF BeginFn, DeclareExtern
    <3>2. /\ obs'.sort \in {"function", "extern"}
          /\ obs'.got.table = NameTable /\ obs'.want.table = FnHome(ctx)
      BY <2>2 DEF BeginFn, DeclareExtern, TraitProto, ReadProto, Observe, Recorded
    <3> QED BY <3>1, <3>2 DEF NamesGoToTheirScope
  <2>3. ASSUME NEW global \in BOOLEAN, Let(global) PROVE NamesGoToTheirScope'
    BY <2>1, <2>3 DEF Let, Observe, NamesGoToTheirScope, Follows
  <2>4. CASE \/ \E l \in Label : Goto(l) \/ DefineLabel(l)
             \/ CrashOnLabel
    <3>1. obs'.sort = "label"
      BY <2>4 DEF Goto, DefineLabel, CrashOnLabel, Observe
    <3> QED BY <3>1 DEF NamesGoToTheirScope
  <2>5. CASE \/ OpenBlock \/ CloseBlock \/ OpenFor \/ CloseFor \/ DefineStruct
             \/ \E t \in Type : OpenTrait(t)
             \/ CloseTrait
             \/ \E cls \in Type, for \in Type \cup {None} : OpenImpl(cls, for)
             \/ CloseImpl \/ EndFn
             \/ \E n \in FnName, args \in Args : RejectProto(n, args)
             \/ \E l \in Label : RejectLabel(l)
    <3>1. Nameless
      BY <2>5 DEF OpenBlock, CloseBlock, OpenFor, CloseFor, DefineStruct, OpenTrait, CloseTrait,
           OpenImpl, CloseImpl, EndFn, RejectProto, RejectLabel
    <3> QED BY <3>1 DEF Nameless, NoName, None, NamesGoToTheirScope
  <2>6. CASE UNCHANGED vars
    BY <2>6 DEF vars, NamesGoToTheirScope
  <2> QED BY <2>2, <2>3, <2>4, <2>5, <2>6 DEF Next
<1>3. I => NamesGoToTheirScope
  OBVIOUS
<1> QED BY <1>1, <1>2, <1>3, PTL DEF Spec

(***************************************************************************)
(* Labels.  curr_fn_symtable is no stack: it is right as long as functions *)
(* are entered in the root's table only.                                   *)
(***************************************************************************)
Quiet == \A t \in Table \ {Root} : fnsyms[t] = {}

Fns(c) == {i \in DOMAIN c : c[i].kind = "fn"}

Labelled ==
  Quiet => /\ emitMain \/ Fns(ctx) # {} => currFn = FnTable
           /\ \A i \in Fns(ctx) : \A j \in 1 .. i - 1 : ctx[j].tab = 0

(* FnTable of given constructs. *)
FnTableIn(c) == IF Fns(c) = {} THEN IF emitMain THEN Main ELSE 0
                ELSE c[CHOOSE i \in Fns(c) : \A j \in Fns(c) : j <= i].tab

LEMMA FnTables ==
  FnTable = FnTableIn(ctx) /\ (emitMain' = emitMain => FnTable' = FnTableIn(ctx'))
BY DEF FnTable, FnTableIn, FnFrames, Fns

LEMMA FnTableIs ==
  ASSUME NEW S, NEW c \in Seq(S), NEW i \in Fns(c), \A j \in Fns(c) : j <= i
  PROVE  FnTableIn(c) = c[i].tab
<1>1. Fns(c) \subseteq Int
  BY LenProperties DEF Fns
<1> DEFINE k == CHOOSE h \in Fns(c) : \A j \in Fns(c) : j <= h
<1>2. k \in Fns(c) /\ \A j \in Fns(c) : j <= k
  OBVIOUS
<1>3. FnTableIn(c) = c[k].tab
  BY DEF FnTableIn
<1>4. k = i
  <2> HIDE DEF k
  <2>1. k <= i /\ i <= k /\ i \in Int /\ k \in Int
    BY <1>1, <1>2
  <2> QED BY <2>1
<1> QED BY <1>3, <1>4

(* The same functions are open. *)
LEMMA FnTableSame ==
  ASSUME NEW S, NEW c \in Seq(S), NEW T, NEW d \in Seq(T), Fns(c) = Fns(d),
         \A i \in Fns(c) : c[i] = d[i]
  PROVE  FnTableIn(c) = FnTableIn(d)
<1>1. CASE Fns(c) = {}
  BY <1>1 DEF FnTableIn
<1>2. CASE Fns(c) # {}
  <2>1. Fns(c) \in SUBSET (1 .. Len(c)) /\ Len(c) \in Nat
    BY LenProperties DEF Fns
  <2>2. PICK i \in Fns(c) : \A j \in Fns(c) : j <= i
    BY <1>2, <2>1, Greatest
  <2>3. FnTableIn(c) = c[i].tab /\ FnTableIn(d) = d[i].tab
    BY <2>2, FnTableIs
  <2> QED BY <2>2, <2>3
<1> QED BY <1>1, <1>2

(* Functions stay entered where they are. *)
LEMMA QuietBefore ==
  ASSUME TypeInv, Quiet', Table \subseteq Table',
         \A t \in Table : fnsyms'[t] = {} => fnsyms[t] = {}
  PROVE  Quiet
BY DEF Quiet

(* A construct that is no function opens or closes, or none does. *)
LEMMA LabelledKept ==
  ASSUME TypeInv, Labelled, UNCHANGED <<emitMain, currFn>>, Quiet' => Quiet,
         NEW T, ctx' \in Seq(T), Fns(ctx') = Fns(ctx),
         \A i \in 1 .. Len(ctx) : i \in DOMAIN ctx' => ctx'[i] = ctx[i]
  PROVE  Labelled'
<1>1. /\ ctx \in Seq(CtxType) /\ DOMAIN ctx = 1 .. Len(ctx) /\ Len(ctx) \in Nat
      /\ DOMAIN ctx' = 1 .. Len(ctx') /\ Len(ctx') \in Nat
  BY LenProperties DEF TypeInv, TypeOK
<1>2. \A i \in Fns(ctx) : i \in 1 .. Len(ctx) /\ i \in 1 .. Len(ctx')
  BY <1>1 DEF Fns
<1>3. \A i \in Fns(ctx) : ctx'[i] = ctx[i]
  BY <1>1, <1>2
<1>4. FnTable' = FnTable
  BY <1>1, <1>3, FnTables, FnTableSame
<1>5. ASSUME NEW i \in Fns(ctx), NEW j \in 1 .. i - 1 PROVE ctx'[j] = ctx[j]
  BY <1>1, <1>2
<1>6. (emitMain \/ Fns(ctx) # {})' <=> emitMain \/ Fns(ctx) # {}
  BY DEF Fns
<1>7. Fns(ctx)' = Fns(ctx)
  BY DEF Fns
<1> QED BY <1>4, <1>5, <1>6, <1>7 DEF Labelled

LEMMA LabelledStill ==
  ASSUME TypeInv, Labelled, UNCHANGED <<emitMain, currFn, ctx>>, Quiet' => Quiet
  PROVE  Labelled'
BY LabelledKept DEF TypeInv, TypeOK

LEMMA LabelledOpened ==
  ASSUME TypeInv, Labelled, UNCHANGED <<emitMain, currFn>>, Quiet' => Quiet,
         NEW kind \in {"block", "for", "trait", "impl"}, NEW tab, NEW owner,
         Open(kind, tab, owner)
  PROVE  Labelled'
<1> DEFINE f == Frame(kind, tab, owner)
<1>1. ctx \in Seq(CtxType \cup {f}) /\ Len(ctx) \in Nat
  BY SeqMonotonic, Lengths DEF TypeInv, TypeOK
<1>2. /\ ctx' \in Seq(CtxType \cup {f}) /\ Len(ctx') = Len(ctx) + 1
      /\ ctx'[Len(ctx) + 1] = f
      /\ \A i \in 1 .. Len(ctx) : ctx'[i] = ctx[i]
  <2> HIDE DEF f
  <2>1. ctx' = Append(ctx, f)
    BY DEF Open, f
  <2> QED BY <1>1, <2>1, AppendProperties
<1>3. DOMAIN ctx = 1 .. Len(ctx) /\ DOMAIN ctx' = 1 .. Len(ctx) + 1
  BY <1>1, <1>2, LenProperties
<1>4. f.kind # "fn"
  BY DEF Frame
<1> HIDE DEF f
<1>5. Fns(ctx') = Fns(ctx)
  BY <1>1, <1>2, <1>3, <1>4 DEF Fns
<1> QED BY <1>2, <1>5, LabelledKept

LEMMA LabelledClosed ==
  ASSUME TypeInv, Labelled, UNCHANGED <<emitMain, currFn>>, Quiet' => Quiet,
         ctx # <<>>, Top.kind # "fn", ctx' = Outer
  PROVE  Labelled'
<1>1. /\ Len(ctx) \in Nat /\ Len(ctx) # 0 /\ Outer \in Seq(CtxType) /\ Len(Outer) = Len(ctx) - 1
      /\ \A i \in 1 .. Len(ctx) - 1 : Outer[i] = ctx[i]
      /\ DOMAIN ctx = 1 .. Len(ctx) /\ DOMAIN Outer = 1 .. Len(Outer)
      /\ ctx[Len(ctx)].kind # "fn"
  BY CtxClosed, LenProperties DEF TypeInv, TypeOK, Top
<1>2. Fns(Outer) = Fns(ctx)
  <2>1. \A i \in 1 .. Len(ctx) : i \in 1 .. Len(ctx) - 1 \/ i = Len(ctx)
    BY <1>1
  <2>2. \A i \in 1 .. Len(ctx) - 1 : i \in 1 .. Len(ctx)
    BY <1>1
  <2> QED BY <1>1, <2>1, <2>2 DEF Fns
<1> QED BY <1>1, <1>2, LabelledKept

LEMMA LabelledFnBegin ==
  ASSUME FlatUnderMain, TypeInv, Follows, Labelled, NEW n \in FnName, NEW args \in Args,
         BeginFn(n, args)
  PROVE  Labelled'
<1> DEFINE W == WithDef(n, MethodOf(AtProto), args)
<1>1. /\ Grow(parent, FnParent, W) /\ FunctionAllowed /\ Open("fn", NewTable, Plain)
      /\ currFn' = NewTable /\ emitMain' = emitMain
  BY DEF BeginFn, Parsing
<1>2. FnParent \in Table /\ FnParent = FnHome(ctx) /\ W \in SUBSET EntryType /\ W # {}
  BY <1>1, FnParentIsTable, FnParentIsFnHome, AtProtoTyped, MethodOfTyped, EntriesTyped
<1>3. /\ Len(parent') = Len(parent) + 1 /\ Len(parent) \in Nat
      /\ \A t \in Table : fnsyms'[t] = IF t = FnParent THEN W ELSE fnsyms[t]
  <2> HIDE DEF W
  <2> QED BY <1>1, <1>2, GrowFacts, Lengths
<1>4. Table \subseteq Table' /\ NewTable \in 0 .. Len(parent')
  BY <1>3 DEF Table, NewTable
<1>5. /\ ctx' \in Seq(CtxType') /\ Len(ctx') = Len(ctx) + 1
      /\ ctx'[Len(ctx) + 1] = Frame("fn", NewTable, Plain)
      /\ \A i \in 1 .. Len(ctx) : ctx'[i] = ctx[i]
  <2>1. Len(parent') \in Nat /\ Len(parent) <= Len(parent')
    BY <1>3
  <2> QED BY <1>1, <1>4, <2>1, CtxOpened, MethodsTyped
<1>6. PICK k \in Nat : k = Len(ctx) + 1
  BY Lengths
<1>7. DOMAIN ctx' = 1 .. k /\ DOMAIN ctx = 1 .. Len(ctx) /\ Len(ctx) \in Nat
      /\ ctx'[k].kind = "fn" /\ ctx'[k].tab = NewTable
  BY <1>5, <1>6, LenProperties DEF Frame, TypeInv, TypeOK
<1>8. FnTable' = NewTable
  <2>1. k \in Fns(ctx') /\ \A j \in Fns(ctx') : j <= k
    BY <1>6, <1>7 DEF Fns
  <2> QED BY <1>1, <1>5, <1>7, <2>1, FnTables, FnTableIs
<1>9. ASSUME Quiet' PROVE Scopes(ctx) = {}
  <2>1. FnParent \in Table' /\ fnsyms'[FnParent] # {}
    BY <1>2, <1>3, <1>4
  <2>2. FnHome(ctx) = Root
    BY <1>2, <1>9, <2>1 DEF Quiet
  <2>3. CASE Scopes(ctx) # {}
    <3>1. ctx \in Seq(CtxType)
      BY DEF TypeInv, TypeOK
    <3>2. PICK i \in Scopes(ctx) : Home(ctx) = ctx[i].tab
      BY <2>3, <3>1, HomeOf
    <3> QED BY <2>2, <2>3, <3>2, ScopesOf DEF FnHome
  <2> QED BY <2>3
<1>10. ASSUME Quiet', NEW i \in Fns(ctx'), NEW j \in 1 .. i - 1 PROVE ctx'[j].tab = 0
  <2>1. j \in DOMAIN ctx /\ ctx'[j] = ctx[j]
    BY <1>5, <1>6, <1>7 DEF Fns
  <2> QED BY <1>9, <1>10, <2>1 DEF Scopes
<1>11. Fns(ctx)' = Fns(ctx')
  BY DEF Fns
<1> HIDE DEF W
<1> QED BY <1>1, <1>8, <1>10, <1>11 DEF Labelled

(* A function, extern or prototype is entered outside of all functions. *)
LEMMA EnteredAtRoot ==
  ASSUME TypeInv, Follows, FnHome(ctx) = Root
  PROVE  Fns(ctx) = {}
<1>1. Scopes(ctx) = {}
  <2> SUFFICES ASSUME Scopes(ctx) # {} PROVE FALSE
    OBVIOUS
  <2>1. ctx \in Seq(CtxType)
    BY DEF TypeInv, TypeOK
  <2>2. PICK i \in Scopes(ctx) : Home(ctx) = ctx[i].tab
    BY <2>1, HomeOf
  <2> QED BY <2>2, ScopesOf DEF FnHome
<1>2. DOMAIN ctx = 1 .. Len(ctx)
  BY LenProperties DEF TypeInv, TypeOK
<1> QED BY <1>1, <1>2, ScopesOf DEF Fns

LEMMA LabelledFnEnd ==
  ASSUME TypeInv, Follows, Labelled, EndFn
  PROVE  Labelled'
<1> DEFINE n == Len(ctx)
<1>1. /\ n \in Nat /\ n # 0 /\ ctx # <<>> /\ ctx[n].kind = "fn"
      /\ DOMAIN ctx = 1 .. n /\ ctx' = Outer /\ Outer \in Seq(CtxType)
      /\ DOMAIN Outer = 1 .. n - 1 /\ \A i \in 1 .. n - 1 : Outer[i] = ctx[i]
      /\ emitMain' = emitMain /\ fnsyms' = fnsyms
  BY CtxClosed, LenProperties DEF EndFn, In, Top, TypeInv, TypeOK, Parsing
<1>2. /\ Len(parent') = Len(parent) /\ Table' = Table
      /\ currFn' = IF emitMain THEN Main ELSE 0
  BY EndFnTables DEF Table
<1>3. Quiet' => Quiet
  BY <1>1, <1>2 DEF Quiet
<1>4. Quiet => Fns(Outer) = {}
  <2> SUFFICES ASSUME Quiet, NEW i \in Fns(Outer) PROVE FALSE
    OBVIOUS
  <2>1. n \in Fns(ctx) /\ i \in 1 .. n - 1 /\ ctx[i].kind = "fn" /\ i \in 1 .. n
    BY <1>1 DEF Fns
  <2>2. ctx[i].tab = 0
    BY <2>1 DEF Labelled
  <2> QED BY <2>1, <2>2 DEF Follows, Placed
<1>5. Fns(ctx)' = Fns(Outer)
  BY <1>1 DEF Fns
<1>6. Quiet' => FnTable' = IF emitMain THEN Main ELSE 0
  BY <1>1, <1>3, <1>4, FnTables DEF FnTableIn
<1> QED BY <1>1, <1>2, <1>3, <1>4, <1>5, <1>6 DEF Labelled

LEMMA LabelledExtern ==
  ASSUME FlatUnderMain, TypeInv, Follows, Labelled, NEW n \in FnName, NEW args \in Args,
         DeclareExtern(n, args)
  PROVE  Labelled'
<1> DEFINE W == WithDecl(n, MethodOf(impls), args)
<1>1. FunctionAllowed /\ UNCHANGED <<emitMain, ctx>>
  BY DEF DeclareExtern, Parsing
<1>2. /\ FnParent \in Table /\ FnParent = FnHome(ctx) /\ NameTable = FnParent
      /\ W \in SUBSET EntryType /\ W # {}
  BY <1>1, FnParentIsTable, FnParentIsFnHome, TypeParts, MethodOfTyped, EntriesTyped DEF NameTable
<1>3. /\ Len(parent') = Len(parent) + 1 /\ Len(parent) \in Nat
      /\ \A t \in Table : fnsyms'[t] = IF t = NameTable THEN W ELSE fnsyms[t]
      /\ currFn' = IF emitMain THEN Main ELSE 0
  BY ExternTables, Lengths
<1>4. Table \subseteq Table'
  BY <1>3 DEF Table
<1>5. Quiet' => Fns(ctx) = {}
  <2> SUFFICES ASSUME Quiet' PROVE FnHome(ctx) = Root
    BY EnteredAtRoot
  <2>1. FnParent \in Table' /\ fnsyms'[FnParent] # {}
    BY <1>2, <1>3, <1>4
  <2> QED BY <1>2, <2>1 DEF Quiet
<1>6. Fns(ctx)' = Fns(ctx)
  BY <1>1 DEF Fns
<1>7. Quiet' => FnTable' = IF emitMain THEN Main ELSE 0
  BY <1>1, <1>5, FnTables DEF FnTableIn
<1> QED BY <1>1, <1>3, <1>5, <1>6, <1>7 DEF Labelled

LEMMA LabelledTraitProto ==
  ASSUME FlatUnderMain, TypeInv, Follows, Labelled, NEW n \in FnName, NEW args \in Args,
         TraitProto(n, args)
  PROVE  Labelled'
<1> DEFINE W == WithDef(n, MethodOf(impls), args)
<1>1. Grow(parent, FnParent, W) /\ UNCHANGED <<emitMain, ctx>>
  BY DEF TraitProto, Parsing
<1>2. ~emitMain
  BY FollowsTraitProto
<1>3. FnParent \in Table /\ FnParent = FnHome(ctx) /\ W \in SUBSET EntryType /\ W # {}
  BY <1>2, FnParentIsTable, TypeParts, MethodOfTyped, EntriesTyped
     DEF FnParent, FnHome, Home, Follows
<1>4. /\ Len(parent') = Len(parent) + 1 /\ Len(parent) \in Nat
      /\ \A t \in Table : fnsyms'[t] = IF t = FnParent THEN W ELSE fnsyms[t]
  <2> HIDE DEF W
  <2> QED BY <1>1, <1>3, GrowFacts, Lengths
<1>5. Table \subseteq Table'
  BY <1>4 DEF Table
<1>6. Quiet' => Fns(ctx) = {}
  <2> SUFFICES ASSUME Quiet' PROVE FnHome(ctx) = Root
    BY EnteredAtRoot
  <2>1. FnParent \in Table' /\ fnsyms'[FnParent] # {}
    BY <1>3, <1>4, <1>5
  <2> QED BY <1>3, <2>1 DEF Quiet
<1>7. Fns(ctx)' = Fns(ctx)
  BY <1>1 DEF Fns
<1> QED BY <1>1, <1>2, <1>6, <1>7 DEF Labelled

(* A table is added whose parent keeps its entries. *)
LEMMA QuietGrown ==
  ASSUME TypeInv, Grow(parent, curr, fnsyms[curr])
  PROVE  Quiet' => Quiet
<1>1. curr \in Table /\ fnsyms[curr] \in SUBSET EntryType
  BY DEF TypeInv, TypeOK
<1>2. /\ Len(parent') = Len(parent) + 1 /\ Len(parent) \in Nat
      /\ \A t \in Table : fnsyms'[t] = fnsyms[t]
  BY <1>1, GrowFacts, Lengths
<1>3. Table \subseteq Table'
  BY <1>2 DEF Table
<1> QED BY <1>2, <1>3, QuietBefore

LEMMA LabelledStep ==
  ASSUME FlatUnderMain, TypeInv, Follows, Labelled, [Next]_vars PROVE Labelled'
<1>1. CASE OpenBlock \/ OpenFor
  <2>1. Grow(parent, curr, fnsyms[curr]) /\ UNCHANGED <<emitMain, currFn>>
        /\ \E kind \in {"block", "for"} : Open(kind, NewTable, Plain)
    BY <1>1 DEF OpenBlock, OpenFor, Parsing
  <2> QED BY <2>1, QuietGrown, LabelledOpened
<1>2. CASE DefineStruct
  BY <1>2, QuietGrown, LabelledStill DEF DefineStruct, Parsing
<1>3. CASE \/ \E t \in Type : OpenTrait(t)
           \/ \E cls \in Type, for \in Type \cup {None} : OpenImpl(cls, for)
  <2>1. /\ UNCHANGED <<emitMain, currFn, parent, fnsyms>>
        /\ \E kind \in {"trait", "impl"} : \E tab, owner : Open(kind, tab, owner)
    BY <1>3 DEF OpenTrait, OpenImpl, Parsing, tables
  <2>2. Quiet' => Quiet
    BY <2>1 DEF Quiet, Table
  <2> QED BY <2>1, <2>2, LabelledOpened
<1>4. CASE CloseBlock \/ CloseFor \/ CloseTrait \/ CloseImpl
  <2>1. /\ UNCHANGED <<emitMain, currFn, parent, fnsyms>>
        /\ ctx # <<>> /\ Top.kind # "fn" /\ ctx' = Outer
    BY <1>4 DEF CloseBlock, CloseFor, CloseTrait, CloseImpl, In, Parsing, tables
  <2>2. Quiet' => Quiet
    BY <2>1 DEF Quiet, Table
  <2> QED BY <2>1, <2>2, LabelledClosed
<1>5. CASE EndFn
  BY <1>5, LabelledFnEnd
<1>6. CASE \E n \in FnName, args \in Args :
             BeginFn(n, args) \/ DeclareExtern(n, args) \/ TraitProto(n, args)
  BY <1>6, LabelledFnBegin, LabelledExtern, LabelledTraitProto
<1>7. CASE Naming \/ UNCHANGED vars
  <2>1. UNCHANGED <<emitMain, currFn, ctx, parent, fnsyms>>
    BY <1>7, NamingKeeps DEF vars
  <2>2. Quiet' => Quiet
    BY <2>1 DEF Quiet, Table
  <2> QED BY <2>1, <2>2, LabelledStill
<1> QED BY <1>1, <1>2, <1>3, <1>4, <1>5, <1>6, <1>7 DEF Next, Naming

(* A goto's or a label definition's label goes into the table of the       *)
(* function it is written in, or of main, as long as no function, extern   *)
(* or trait has been inside another function.                              *)
THEOREM LabelsInTheirScope == ASSUME FlatUnderMain PROVE Spec => []LabelsInTheirFunction
<1> DEFINE I == ScopeInv /\ Labelled /\ LabelsInTheirFunction
<1>1. Init => I
  <2> SUFFICES ASSUME Init PROVE Labelled /\ LabelsInTheirFunction
    BY TypeInit, FollowsInit DEF ScopeInv
  <2>1. Fns(ctx) = {}
    BY EmptySeq DEF Init, Fns
  <2>2. emitMain => currFn = FnTable
    BY <2>1, FnTables DEF FnTableIn, Init
  <2> QED BY <2>1, <2>2 DEF Labelled, Init, NoName, None, LabelsInTheirFunction
<1>2. I /\ [Next]_vars => I'
  <2> SUFFICES ASSUME ScopeInv, Labelled, LabelsInTheirFunction, [Next]_vars
               PROVE  LabelsInTheirFunction'
    BY ScopeStep, LabelledStep DEF ScopeInv, TypeStack
  <2>1. ASSUME \/ \E l \in Label : Goto(l) \/ DefineLabel(l)
               \/ CrashOnLabel
        PROVE  LabelsInTheirFunction'
    <3>1. /\ obs'.got = currFn /\ obs'.want = FnTable /\ UNCHANGED <<parent, fnsyms>>
          /\ FnTable # 0
      BY <2>1 DEF Goto, DefineLabel, CrashOnLabel, Observe, LabelPlace, tables
    <3>2. Quiet => currFn = FnTable
      <4>1. emitMain \/ Fns(ctx) # {}
        BY <3>1, FnTables DEF FnTableIn
      <4> QED BY <4>1 DEF Labelled
    <3>3. Quiet' => Quiet
      BY <3>1 DEF Quiet, Table
    <3> QED BY <3>1, <3>2, <3>3 DEF LabelsInTheirFunction, Quiet
  <2>2. CASE \/ \E n \in FnName, args \in Args :
                  BeginFn(n, args) \/ DeclareExtern(n, args) \/ TraitProto(n, args)
             \/ \E global \in BOOLEAN : Let(global)
    <3>1. obs'.sort # "label"
      BY <2>2 DEF BeginFn, DeclareExtern, TraitProto, ReadProto, Let, Observe
    <3> QED BY <3>1 DEF LabelsInTheirFunction
  <2>3. CASE \/ OpenBlock \/ CloseBlock \/ OpenFor \/ CloseFor \/ DefineStruct
             \/ \E t \in Type : OpenTrait(t)
             \/ CloseTrait
             \/ \E cls \in Type, for \in Type \cup {None} : OpenImpl(cls, for)
             \/ CloseImpl \/ EndFn
             \/ \E n \in FnName, args \in Args : RejectProto(n, args)
             \/ \E l \in Label : RejectLabel(l)
    <3>1. Nameless
      BY <2>3 DEF OpenBlock, CloseBlock, OpenFor, CloseFor, DefineStruct, OpenTrait, CloseTrait,
           OpenImpl, CloseImpl, EndFn, RejectProto, RejectLabel
    <3> QED BY <3>1 DEF Nameless, NoName, None, LabelsInTheirFunction
  <2>4. CASE UNCHANGED vars
    BY <2>4 DEF vars, LabelsInTheirFunction, Table
  <2> QED BY <2>1, <2>2, <2>3, <2>4 DEF Next
<1>3. I => LabelsInTheirFunction
  OBVIOUS
<1> QED BY <1>1, <1>2, <1>3, PTL DEF Spec
=============================================================================
