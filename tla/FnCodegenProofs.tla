--------------------------- MODULE FnCodegenProofs ---------------------------
(***************************************************************************)
(* Proofs about FnCodegen, for every set of labels, every source and every *)
(* depth of nesting.                                                       *)
(*                                                                         *)
(* The walker's stack decides everything: the function a place belongs to  *)
(* is the one of the last function frame below it (Own), curr_fn and its   *)
(* stack follow that (Stacked), and a block that is inserted nowhere yet   *)
(* is kept for one purpose only -- the return block of an open function, a *)
(* label a goto has named, or a block that one frame is still to insert.   *)
(* That is what makes a block that is about to be inserted fresh.  The     *)
(* purpose of each block is a history K.  For the phis another history     *)
(* does, and no word on functions: the blocks J that && and || made.  For  *)
(* the verifier a third is needed, H, the function each block was created  *)
(* for: a branch may name a block long before it is inserted.              *)
(***************************************************************************)
EXTENDS FnCodegen, SequenceTheorems, FiniteSetTheorems, TLAPS

(***************************************************************************)
(* The invariants, as statements about values.                             *)
(***************************************************************************)
Base == IF EmitMain THEN 1 ELSE 0

(* the function frames among the first i of stack c *)
FnAt(c, i) == {j \in 1 .. i : c[j].kind = "fn"}

(* the function whose body holds the part that frame i walks *)
Own(c, i) ==
  IF FnAt(c, i) = {} THEN Base
  ELSE c[CHOOSE j \in FnAt(c, i) : \A k \in FnAt(c, i) : k <= j].fn

Depth(c, i) == Cardinality(FnAt(c, i))

(* Functions are numbered as they are opened: an inner one comes later. *)
Framed(c, F) ==
  /\ \A i \in 1 .. Len(c) : c[i].kind = "fn" =>
       c[i].fn \in 1 .. Len(F) /\ Own(c, i - 1) < c[i].fn /\ c[i].parts = <<>>
  /\ ~EmitMain /\ c # <<>> => c[1].kind = "fn"
  /\ Base <= Len(F)

(* curr_fn and curr_fn_stack without -main *)
Stacked(c, cur, stack) ==
  IF EmitMain THEN cur # 0
  ELSE /\ cur = Own(c, Len(c))
       /\ Len(stack) = Depth(c, Len(c))
       /\ \A i \in 1 .. Len(c) :
            c[i].kind = "fn" => stack[Depth(c, i)] = Own(c, i - 1)

(* There is an insertion block, and one to return to, except at top level. *)
Placed(p, c) ==
  /\ EmitMain \/ c # <<>> => p # 0
  /\ \A i \in 1 .. Len(c) :
       c[i].kind = "landor" \/ (c[i].kind = "fn" /\ (EmitMain \/ i > 1)) => c[i].from # 0

(* the functions on the stack are open while the walk goes on *)
Opened(c, F, ph) ==
  \A i \in 1 .. Len(c) : c[i].kind = "fn" =>
    /\ F[c[i].fn].final \in {"open", "rejected"}
    /\ ph = "walk" => F[c[i].fn].final = "open"

(* Each construct has parts left; the last of them, and only it, is what    *)
(* follows the construct.                                                  *)
Shaped(fr) ==
  fr.kind # "fn" =>
    /\ fr.parts # <<>>
    /\ \A q \in DOMAIN fr.parts :
         /\ fr.parts[q].in = "after" <=> q = Len(fr.parts)
         /\ fr.parts[q].hops # <<>>

Shapes(c) == \A i \in 1 .. Len(c) : Shaped(c[i])

(* the blocks that instructions are still to go into *)
SavedBlocks(c) == {c[i].from : i \in {j \in 2 .. Len(c) : c[j].kind = "fn"}}
Live(p, c) == SavedBlocks(c) \cup (IF c = <<>> THEN {} ELSE {p})

Blk(m) == 1 .. Len(m.fn)

InBody(m, b, f) == b \in Blk(m) /\ m.fn[b] = f

Saved(m, p, c) ==
  /\ \A i \in 2 .. Len(c) : c[i].kind = "fn" => InBody(m, c[i].from, Own(c, i - 1))
  /\ c # <<>> => InBody(m, p, Own(c, Len(c)))

(* Every block has one terminator, those apart that are not finished. *)
Straight(m, live) ==
  \A b \in Blk(m) :
    /\ m.fn[b] = 0 \/ b \in live => m.out[b] = <<>>
    /\ m.fn[b] # 0 /\ b \notin live => Len(m.out[b]) = 1

(* block b is inserted nowhere, and kept for purpose t *)
Held(m, K, b, t) == b \in Blk(m) /\ m.fn[b] = 0 /\ K[b] = t
ForReturn == 1
ForLabel == 2
ForFrame(i) == i + 2

Reserved(m, K, fr, i) ==
  \A q \in DOMAIN fr.parts : \A h \in DOMAIN fr.parts[q].hops :
    Held(m, K, fr.parts[q].hops[h].at, ForFrame(i))

Distinct(fr) ==
  \A q, r \in DOMAIN fr.parts :
    \A h \in DOMAIN fr.parts[q].hops : \A k \in DOMAIN fr.parts[r].hops :
      fr.parts[q].hops[h].at = fr.parts[r].hops[k].at => q = r /\ h = k

Frames(m, c, K) ==
  \A i \in 1 .. Len(c) : Distinct(c[i]) /\ Reserved(m, K, c[i], i)

Unfinished(F) == {f \in 1 .. Len(F) : F[f].final \in {"open", "rejected"}}

Returns(m, F, K) ==
  \A f \in Unfinished(F) :
    /\ Held(m, K, F[f].ret, ForReturn)
    /\ \A g \in Unfinished(F) : F[f].ret = F[g].ret => f = g

Labels(m, lm, K) ==
  \A l \in Label : lm[l] # 0 /\ m.fn[lm[l]] = 0 => K[lm[l]] = ForLabel

Core(m, p, c, F, lm, K) ==
  /\ K \in [Blk(m) -> Nat]
  /\ Saved(m, p, c) /\ Straight(m, Live(p, c))
  /\ Frames(m, c, K) /\ Returns(m, F, K) /\ Labels(m, lm, K)

(***************************************************************************)
(* Sequences and numbers.                                                  *)
(***************************************************************************)
LEMMA FunctionIsSeq ==
  ASSUME NEW n \in Nat, NEW S, NEW f \in [1 .. n -> S]
  PROVE  f \in Seq(S) /\ Len(f) = n
<1>1. f \in Seq(S)
  BY SeqDef
<1>2. DOMAIN f = 1 .. n /\ DOMAIN f = 1 .. Len(f) /\ Len(f) \in Nat
  BY <1>1, LenProperties
<1>3. Len(f) = n
  BY <1>2
<1> QED BY <1>1, <1>3

(* What is left when the last element goes. *)
LEMMA OuterFacts ==
  ASSUME NEW S, NEW s \in Seq(S), s # <<>>
  PROVE  LET f == SubSeq(s, 1, Len(s) - 1) IN
         /\ Len(s) \in Nat \ {0} /\ s[Len(s)] \in S
         /\ f \in Seq(S) /\ Len(f) = Len(s) - 1
         /\ \A i \in 1 .. Len(s) - 1 : f[i] = s[i]
<1>1. Len(s) \in Nat \ {0} /\ \A i \in 1 .. Len(s) : s[i] \in S
  BY EmptySeq, ElementOfSeq
<1>2. \A i \in 1 .. Len(s) - 1 : s[i] \in S
  BY <1>1
<1>3. 1 \in Int /\ Len(s) - 1 \in Int
  BY <1>1
<1> DEFINE f == SubSeq(s, 1, Len(s) - 1)
<1>4. /\ f \in Seq(S)
      /\ Len(f) = IF 1 <= Len(s) - 1 THEN Len(s) - 1 - 1 + 1 ELSE 0
      /\ \A i \in 1 .. Len(s) - 1 - 1 + 1 : f[i] = s[1 + i - 1]
  BY <1>2, <1>3, SubSeqProperties
<1> HIDE DEF f
<1>5. \A i \in 1 .. Len(s) - 1 : 1 + i - 1 = i
  OBVIOUS
<1>6. \A i \in 1 .. Len(s) - 1 : f[i] = s[i]
  BY <1>1, <1>4, <1>5
<1>7. Len(f) = Len(s) - 1
  <2>1. CASE Len(s) = 1
    BY <1>4, <2>1
  <2>2. CASE Len(s) > 1
    BY <1>1, <1>4, <2>2
  <2>3. Len(s) \in Nat /\ Len(s) # 0
    BY <1>1
  <2> QED BY <2>1, <2>2, <2>3
<1> QED BY <1>1, <1>4, <1>6, <1>7 DEF f

(* Every set of naturals has a least element: the finite sets are well-founded. *)
LEMMA Least ==
  ASSUME NEW S \in SUBSET Nat, S # {}
  PROVE  \E x \in S : \A y \in S : x <= y
<1>1. PICK n \in S : TRUE
  OBVIOUS
<1> DEFINE T == {0 .. k : k \in S}
<1>2. IsWellFoundedOn(StrictSubsetOrdering(Nat), FiniteSubsetsOf(Nat))
  BY FS_StrictSubsetOrderingWellFounded
<1>3. T \subseteq FiniteSubsetsOf(Nat) /\ T # {}
  <2>1. \A k \in Nat : IsFiniteSet(0 .. k) /\ 0 .. k \in SUBSET Nat
    BY FS_Interval
  <2> QED BY <1>1, <2>1 DEF FiniteSubsetsOf
<1>4. PICK X \in T : \A Y \in T : <<Y, X>> \notin StrictSubsetOrdering(Nat)
  <2> HIDE DEF T
  <2> QED BY <1>2, <1>3, WFMin
<1>5. PICK k \in S : X = 0 .. k
  BY <1>4
<1>6. ASSUME NEW y \in S, y < k PROVE FALSE
  <2>1. 0 .. y \in T
    BY <1>6
  <2>2. 0 .. y \subseteq 0 .. k /\ k \in 0 .. k /\ k \notin 0 .. y
    BY <1>6
  <2>3. 0 .. y \in SUBSET Nat /\ X \in SUBSET Nat
    BY <1>5
  <2> QED BY <1>4, <1>5, <2>1, <2>2, <2>3 DEF StrictSubsetOrdering
<1> QED BY <1>6

LEMMA Greatest ==
  ASSUME NEW n \in Nat, NEW S \in SUBSET (1 .. n), S # {}
  PROVE  \E x \in S : \A y \in S : y <= x
<1> DEFINE T == {n - x : x \in S}
<1>1. T \in SUBSET Nat /\ T # {}
  <2>1. \A x \in S : n - x \in Nat
    OBVIOUS
  <2> QED BY <2>1
<1>2. PICK t \in T : \A u \in T : t <= u
  <2> HIDE DEF T
  <2> QED BY <1>1, Least
<1>3. PICK x \in S : t = n - x
  BY <1>2
<1>4. ASSUME NEW y \in S PROVE y <= x
  <2>1. n - y \in T
    OBVIOUS
  <2> QED BY <1>2, <1>3, <2>1
<1> QED BY <1>4

(***************************************************************************)
(* The function of a frame.                                                *)
(***************************************************************************)
LEMMA OwnZero == ASSUME NEW c PROVE Own(c, 0) = Base /\ Depth(c, 0) = 0
<1>1. FnAt(c, 0) = {}
  BY DEF FnAt
<1> QED BY <1>1, FS_EmptySet DEF Own, Depth

LEMMA OwnStep ==
  ASSUME NEW c, NEW i \in Nat \ {0}
  PROVE  Own(c, i) = IF c[i].kind = "fn" THEN c[i].fn ELSE Own(c, i - 1)
<1>1. CASE c[i].kind = "fn"
  <2>1. i \in FnAt(c, i) /\ \A k \in FnAt(c, i) : k <= i
    BY <1>1 DEF FnAt
  <2>2. \A j \in FnAt(c, i) : (\A k \in FnAt(c, i) : k <= j) => j = i
    BY <2>1 DEF FnAt
  <2>3. (CHOOSE j \in FnAt(c, i) : \A k \in FnAt(c, i) : k <= j) = i
    BY <2>1, <2>2
  <2> QED BY <1>1, <2>1, <2>3 DEF Own
<1>2. CASE c[i].kind # "fn"
  <2>1. FnAt(c, i) = FnAt(c, i - 1)
    BY <1>2 DEF FnAt
  <2> QED BY <1>2, <2>1 DEF Own
<1> QED BY <1>1, <1>2

LEMMA DepthStep ==
  ASSUME NEW c, NEW i \in Nat \ {0}
  PROVE  /\ Depth(c, i - 1) \in Nat /\ Depth(c, i) \in Nat
         /\ Depth(c, i) = IF c[i].kind = "fn" THEN Depth(c, i - 1) + 1 ELSE Depth(c, i - 1)
<1>1. \A j \in Nat : IsFiniteSet(FnAt(c, j)) /\ Cardinality(FnAt(c, j)) \in Nat
  <2> TAKE j \in Nat
  <2>1. IsFiniteSet(1 .. j) /\ FnAt(c, j) \in SUBSET (1 .. j)
    BY FS_Interval DEF FnAt
  <2> QED BY <2>1, FS_Subset, FS_CardinalityType
<1>2. i - 1 \in Nat
  OBVIOUS
<1>3. CASE c[i].kind = "fn"
  <2>1. FnAt(c, i) = FnAt(c, i - 1) \cup {i} /\ i \notin FnAt(c, i - 1)
    BY <1>3 DEF FnAt
  <2>2. Cardinality(FnAt(c, i - 1) \cup {i}) = Cardinality(FnAt(c, i - 1)) + 1
    BY <1>1, <1>2, <2>1, FS_AddElement
  <2> QED BY <1>1, <1>2, <1>3, <2>1, <2>2 DEF Depth
<1>4. CASE c[i].kind # "fn"
  <2>1. FnAt(c, i) = FnAt(c, i - 1)
    BY <1>4 DEF FnAt
  <2> QED BY <1>1, <1>2, <1>4, <2>1 DEF Depth
<1> QED BY <1>3, <1>4

(* Frames above i do not matter, nor what is left to do in those below. *)
Alike(c, d, i) == \A j \in 1 .. i : c[j].kind = d[j].kind /\ c[j].fn = d[j].fn

LEMMA OwnSame ==
  ASSUME NEW c, NEW d, NEW n \in Nat, Alike(c, d, n)
  PROVE  \A i \in 0 .. n : Own(c, i) = Own(d, i) /\ Depth(c, i) = Depth(d, i)
<1> SUFFICES ASSUME NEW i \in 0 .. n
             PROVE  Own(c, i) = Own(d, i) /\ Depth(c, i) = Depth(d, i)
  OBVIOUS
<1>1. FnAt(c, i) = FnAt(d, i)
  BY DEF FnAt, Alike
<1>2. CASE FnAt(c, i) = {}
  BY <1>1, <1>2 DEF Own, Depth
<1>3. CASE FnAt(c, i) # {}
  <2>1. PICK x \in FnAt(c, i) : \A y \in FnAt(c, i) : y <= x
    <3>1. FnAt(c, i) \in SUBSET (1 .. i) /\ i \in Nat
      BY DEF FnAt
    <3> QED BY <1>3, <3>1, Greatest
  <2>2. \A j \in FnAt(c, i) : (\A k \in FnAt(c, i) : k <= j) => j = x
    BY <2>1 DEF FnAt
  <2>3. (CHOOSE j \in FnAt(c, i) : \A k \in FnAt(c, i) : k <= j) = x
    BY <2>1, <2>2
  <2>4. x \in 1 .. n
    BY <2>1 DEF FnAt
  <2> QED BY <1>1, <1>3, <2>3, <2>4 DEF Own, Depth, Alike
<1> QED BY <1>2, <1>3

LEMMA OwnGrows ==
  ASSUME NEW c, NEW F, Len(c) \in Nat, Len(F) \in Nat, Framed(c, F),
         NEW j \in 0 .. Len(c), NEW i \in j .. Len(c)
  PROVE  Own(c, j) \in 0 .. Len(F) /\ Own(c, i) \in 0 .. Len(F) /\ Own(c, j) <= Own(c, i)
<1>1. \A k \in 1 .. Len(c) : c[k].kind = "fn" => c[k].fn \in 1 .. Len(F) /\ Own(c, k - 1) < c[k].fn
  BY DEF Framed
<1>2. Base \in 0 .. Len(F)
  BY DEF Framed, Base
<1>3. ASSUME NEW k \in 0 .. Len(c) PROVE Own(c, k) \in 0 .. Len(F)
  <2> DEFINE Bad == {x \in 0 .. Len(c) : Own(c, x) \notin 0 .. Len(F)}
  <2> SUFFICES ASSUME Bad # {} PROVE FALSE
    OBVIOUS
  <2>1. PICK x \in Bad : \A y \in Bad : x <= y
    <3>1. Bad \in SUBSET Nat
      OBVIOUS
    <3> HIDE DEF Bad
    <3> QED BY <3>1, Least
  <2>2. x # 0
    BY <1>2, <2>1, OwnZero
  <2>3. x \in Nat \ {0} /\ x - 1 \in 0 .. Len(c) /\ x - 1 \notin Bad /\ x \in 1 .. Len(c)
    BY <2>1, <2>2
  <2>4. Own(c, x) = IF c[x].kind = "fn" THEN c[x].fn ELSE Own(c, x - 1)
    BY <2>3, OwnStep
  <2> QED BY <1>1, <2>1, <2>3, <2>4
<1> DEFINE Bad == {x \in j .. Len(c) : Own(c, x) < Own(c, j)}
<1>4. ASSUME Bad # {} PROVE FALSE
  <2>1. PICK x \in Bad : \A y \in Bad : x <= y
    <3>1. Bad \in SUBSET Nat
      OBVIOUS
    <3> HIDE DEF Bad
    <3> QED BY <1>4, <3>1, Least
  <2>2. x # j
    BY <1>3, <2>1
  <2>3. x \in Nat \ {0} /\ x - 1 \in j .. Len(c) /\ x - 1 \notin Bad /\ x \in 1 .. Len(c)
    BY <2>1, <2>2
  <2>4. Own(c, x) = IF c[x].kind = "fn" THEN c[x].fn ELSE Own(c, x - 1)
    BY <2>3, OwnStep
  <2>5. Own(c, x) \in 0 .. Len(F) /\ Own(c, x - 1) \in 0 .. Len(F) /\ Own(c, j) \in 0 .. Len(F)
    BY <1>3, <2>3
  <2> QED BY <1>1, <2>1, <2>3, <2>4, <2>5
<1>5. i \in 0 .. Len(c)
  OBVIOUS
<1> QED BY <1>3, <1>4, <1>5

(* The functions of the frames are those they are in, and they differ. *)
LEMMA OwnIs ==
  ASSUME NEW c, NEW F, Len(c) \in Nat, Len(F) \in Nat, Framed(c, F),
         NEW i \in 1 .. Len(c)
  PROVE  /\ Own(c, i) \in 1 .. Len(F)
         /\ c[i].kind = "fn" => Own(c, i) = c[i].fn
         /\ c[i].kind # "fn" => Own(c, i) = Own(c, i - 1)
         /\ \A k \in i .. Len(c) : c[i].kind = "fn" => Own(c, i - 1) < Own(c, k)
<1>1. c[i].kind = "fn" => c[i].fn \in 1 .. Len(F) /\ Own(c, i - 1) < c[i].fn
  BY DEF Framed
<1>2. Own(c, i) = IF c[i].kind = "fn" THEN c[i].fn ELSE Own(c, i - 1)
  BY OwnStep
<1>3. \A k \in i .. Len(c) : Own(c, i - 1) \in 0 .. Len(F) /\ Own(c, i) \in 0 .. Len(F)
                              /\ Own(c, k) \in 0 .. Len(F) /\ Own(c, i) <= Own(c, k)
  BY OwnGrows
<1>4. \A k \in i .. Len(c) : c[i].kind = "fn" => Own(c, i - 1) < Own(c, k)
  BY <1>1, <1>2, <1>3
<1>5. Own(c, i) # 0
  <2>1. Own(c, 1) # 0
    <3>1. CASE EmitMain
      <4>1. Own(c, 0) = 1 /\ 0 \in 0 .. Len(c) /\ 1 \in 0 .. Len(c)
        BY <3>1, OwnZero DEF Base
      <4> QED BY <4>1, OwnGrows
    <3>2. CASE ~EmitMain
      <4>1. c # <<>>
        BY EmptySeq
      <4>2. c[1].kind = "fn" /\ c[1].fn \in 1 .. Len(F) /\ 1 \in Nat \ {0}
        BY <3>2, <4>1 DEF Framed
      <4> QED BY <4>2, OwnStep
    <3> QED BY <3>1, <3>2
  <2>2. Own(c, 1) \in 0 .. Len(F) /\ Own(c, 1) <= Own(c, i)
    BY OwnGrows
  <2> QED BY <1>3, <2>1, <2>2
<1> QED BY <1>2, <1>3, <1>4, <1>5

LEMMA EnclosingIs == Enclosing = Own(ctl, Len(ctl))
BY DEF Enclosing, Own, FnFrames, FnAt, Base

(***************************************************************************)
(* The operations on the blocks.                                           *)
(***************************************************************************)
Ir(m, k) ==
  /\ m = [fn |-> m.fn, out |-> m.out]
  /\ m.fn \in Seq(0 .. k)
  /\ m.out \in Seq(Seq(SUBSET Blk(m))) /\ Len(m.out) = Len(m.fn)

LEMMA IrFacts ==
  ASSUME NEW m, NEW k, Ir(m, k)
  PROVE  /\ Len(m.fn) \in Nat /\ DOMAIN m.fn = Blk(m) /\ DOMAIN m.out = Blk(m)
         /\ \A b \in Blk(m) : m.fn[b] \in 0 .. k /\ m.out[b] \in Seq(SUBSET Blk(m))
BY LenProperties, ElementOfSeq DEF Ir, Blk

LEMMA Wider ==
  ASSUME NEW a \in Nat, NEW b \in Nat, a <= b
  PROVE  /\ \A s \in Seq(SUBSET (1 .. a)) : s \in Seq(SUBSET (1 .. b))
         /\ \A s \in Seq(Seq(SUBSET (1 .. a))) : s \in Seq(Seq(SUBSET (1 .. b)))
<1>1. SUBSET (1 .. a) \subseteq SUBSET (1 .. b)
  OBVIOUS
<1>2. \A s \in Seq(SUBSET (1 .. a)) : s \in Seq(SUBSET (1 .. b))
  BY <1>1, SeqMonotonic
<1>3. \A s \in Seq(Seq(SUBSET (1 .. a))) : s \in Seq(Seq(SUBSET (1 .. b)))
  BY <1>2, SeqMonotonic
<1> QED BY <1>2, <1>3

LEMMA NewBlocksIs ==
  ASSUME NEW k \in Nat, Ir(ir, k), NEW n \in Nat
  PROVE  LET m == NewBlocks(n) IN
         /\ Ir(m, k) /\ Len(m.fn) = Len(ir.fn) + n
         /\ Blk(ir) \subseteq Blk(m)
         /\ \A b \in Blk(m) : /\ m.fn[b] = IF b \in Blk(ir) THEN ir.fn[b] ELSE 0
                              /\ m.out[b] = IF b \in Blk(ir) THEN ir.out[b] ELSE <<>>
<1> DEFINE m == NewBlocks(n)
           u == [i \in 1 .. n |-> 0]
           v == [i \in 1 .. n |-> <<>>]
           N == Len(ir.fn) + n
<1>1. Len(ir.fn) \in Nat /\ Len(ir.out) = Len(ir.fn) /\ ir.fn \in Seq(0 .. k)
  BY IrFacts DEF Ir
<1>2. u \in Seq(0 .. k) /\ Len(u) = n
  <2>1. u \in [1 .. n -> 0 .. k]
    OBVIOUS
  <2> HIDE DEF u
  <2> QED BY <2>1, FunctionIsSeq
<1>3. v \in Seq(Seq(SUBSET (1 .. N))) /\ Len(v) = n
  <2>1. <<>> \in Seq(SUBSET (1 .. N))
    BY EmptySeq
  <2>2. v \in [1 .. n -> Seq(SUBSET (1 .. N))]
    BY <2>1
  <2> HIDE DEF v, N
  <2> QED BY <2>2, FunctionIsSeq
<1>4. ir.out \in Seq(Seq(SUBSET (1 .. N)))
  <2>1. ir.out \in Seq(Seq(SUBSET (1 .. Len(ir.fn)))) /\ N \in Nat /\ Len(ir.fn) <= N
    BY <1>1 DEF Ir, Blk
  <2> HIDE DEF N
  <2> QED BY <1>1, <2>1, Wider
<1>5. m.fn = ir.fn \o u /\ m.out = ir.out \o v /\ m = [fn |-> m.fn, out |-> m.out]
  BY DEF NewBlocks
<1>6. \A i \in 1 .. n : u[i] = 0 /\ v[i] = <<>>
  OBVIOUS
<1> HIDE DEF m, u, v, N
<1>7. /\ m.fn \in Seq(0 .. k) /\ Len(m.fn) = N
      /\ \A i \in 1 .. N : m.fn[i] = IF i <= Len(ir.fn) THEN ir.fn[i] ELSE u[i - Len(ir.fn)]
  <2>1. /\ ir.fn \o u \in Seq(0 .. k) /\ Len(ir.fn \o u) = Len(ir.fn) + Len(u)
        /\ \A i \in 1 .. Len(ir.fn) + Len(u) :
             (ir.fn \o u)[i] = IF i <= Len(ir.fn) THEN ir.fn[i] ELSE u[i - Len(ir.fn)]
    BY <1>1, <1>2, ConcatProperties
  <2> QED BY <1>2, <1>5, <2>1 DEF N
<1>8. /\ m.out \in Seq(Seq(SUBSET (1 .. N))) /\ Len(m.out) = N
      /\ \A i \in 1 .. N : m.out[i] = IF i <= Len(ir.fn) THEN ir.out[i] ELSE v[i - Len(ir.fn)]
  <2>1. /\ ir.out \o v \in Seq(Seq(SUBSET (1 .. N))) /\ Len(ir.out \o v) = Len(ir.out) + Len(v)
        /\ \A i \in 1 .. Len(ir.out) + Len(v) :
             (ir.out \o v)[i] = IF i <= Len(ir.out) THEN ir.out[i] ELSE v[i - Len(ir.out)]
    BY <1>3, <1>4, ConcatProperties
  <2>2. Len(ir.out) + Len(v) = N
    BY <1>1, <1>3 DEF N
  <2> QED BY <1>1, <1>5, <2>1, <2>2
<1>9. Ir(m, k)
  BY <1>5, <1>7, <1>8 DEF Ir, Blk
<1>10. ASSUME NEW b \in Blk(m)
       PROVE  /\ m.fn[b] = IF b \in Blk(ir) THEN ir.fn[b] ELSE 0
              /\ m.out[b] = IF b \in Blk(ir) THEN ir.out[b] ELSE <<>>
  <2>1. b \in 1 .. N /\ (b <= Len(ir.fn) <=> b \in Blk(ir))
    BY <1>1, <1>7 DEF Blk, N
  <2>2. b > Len(ir.fn) => b - Len(ir.fn) \in 1 .. n
    BY <1>1, <2>1 DEF N
  <2>3. CASE b \in Blk(ir)
    BY <1>7, <1>8, <2>1, <2>3
  <2>4. CASE b \notin Blk(ir)
    <3>1. b > Len(ir.fn) /\ ~(b <= Len(ir.fn))
      BY <1>1, <2>1, <2>4 DEF N
    <3> QED BY <1>6, <1>7, <1>8, <2>1, <2>2, <2>4, <3>1
  <2> QED BY <2>3, <2>4
<1>11. Blk(ir) \subseteq Blk(m)
  BY <1>1, <1>7 DEF Blk, N
<1> QED BY <1>7, <1>9, <1>10, <1>11 DEF m, N

LEMMA BranchIs ==
  ASSUME NEW m, NEW k, Ir(m, k), NEW b \in Blk(m), NEW T \in SUBSET Blk(m)
  PROVE  LET r == Branch(m, b, T) IN
         /\ Ir(r, k) /\ r.fn = m.fn /\ Blk(r) = Blk(m)
         /\ \A x \in Blk(m) : r.out[x] = IF x = b THEN Append(m.out[b], T) ELSE m.out[x]
<1> DEFINE r == Branch(m, b, T)
           o == [m.out EXCEPT ![b] = Append(m.out[b], T)]
<1>1. m = [fn |-> m.fn, out |-> m.out] /\ m.out \in Seq(Seq(SUBSET Blk(m)))
      /\ b \in 1 .. Len(m.out) /\ Len(m.out) = Len(m.fn)
  BY DEF Ir, Blk
<1>2. r = [fn |-> m.fn, out |-> o]
  <2>1. r = [m EXCEPT !.out = o]
    BY DEF Branch
  <2> HIDE DEF o, r
  <2> QED BY <1>1, <2>1
<1>3. Append(m.out[b], T) \in Seq(SUBSET Blk(m))
  BY <1>1, ElementOfSeq, AppendProperties
<1>4. /\ o \in Seq(Seq(SUBSET Blk(m))) /\ Len(o) = Len(m.out)
      /\ \A x \in 1 .. Len(m.out) : o[x] = IF x = b THEN Append(m.out[b], T) ELSE m.out[x]
  <2> DEFINE e == Append(m.out[b], T)
  <2>1. e \in Seq(SUBSET Blk(m))
    BY <1>3
  <2> HIDE DEF e
  <2>2. LET s == [m.out EXCEPT ![b] = e] IN
        /\ s \in Seq(Seq(SUBSET Blk(m))) /\ Len(s) = Len(m.out)
        /\ \A x \in 1 .. Len(m.out) : s[x] = IF x = b THEN e ELSE m.out[x]
    BY <1>1, <2>1, ExceptSeq
  <2> QED BY <2>2 DEF e
<1> HIDE DEF o, r
<1>5. r.fn = m.fn /\ r.out = o /\ r = [fn |-> r.fn, out |-> r.out] /\ Blk(r) = Blk(m)
  BY <1>2 DEF Blk
<1>6. Ir(r, k)
  BY <1>1, <1>4, <1>5 DEF Ir
<1>7. \A x \in Blk(m) : r.out[x] = IF x = b THEN Append(m.out[b], T) ELSE m.out[x]
  BY <1>1, <1>4, <1>5 DEF Blk
<1> QED BY <1>5, <1>6, <1>7 DEF r

LEMMA InsertIs ==
  ASSUME NEW m, NEW k, Ir(m, k), NEW b \in Blk(m), NEW f \in 0 .. k
  PROVE  LET r == Insert(m, b, f) IN
         /\ Ir(r, k) /\ r.out = m.out /\ Blk(r) = Blk(m)
         /\ \A x \in Blk(m) : r.fn[x] = IF x = b THEN f ELSE m.fn[x]
<1> DEFINE r == Insert(m, b, f)
           o == [m.fn EXCEPT ![b] = f]
<1>1. m = [fn |-> m.fn, out |-> m.out] /\ m.fn \in Seq(0 .. k) /\ b \in 1 .. Len(m.fn)
  BY DEF Ir, Blk
<1>2. r = [fn |-> o, out |-> m.out]
  BY <1>1, SMTT(30) DEF Insert
<1>3. /\ o \in Seq(0 .. k) /\ Len(o) = Len(m.fn)
      /\ \A x \in 1 .. Len(m.fn) : o[x] = IF x = b THEN f ELSE m.fn[x]
  BY <1>1, ExceptSeq
<1> HIDE DEF o, r
<1>4. r.fn = o /\ r.out = m.out /\ r = [fn |-> r.fn, out |-> r.out] /\ Blk(r) = Blk(m)
  BY <1>2, <1>3 DEF Blk
<1>5. Ir(r, k)
  BY <1>3, <1>4 DEF Ir
<1> QED BY <1>3, <1>4, <1>5 DEF r, Blk

HopT(n) == [to : SUBSET (1 .. n), at : 1 .. n]
LoopT(n) == [cond : 1 .. n, out : 1 .. n]
PartT(n) == [hops : Seq(HopT(n)), in : {"stmts", "expr", "after"}, loop : Seq(LoopT(n))]

Sources(hops) == {Source(hops, i) : i \in DOMAIN hops}
Ats(hops) == {hops[i].at : i \in DOMAIN hops}

(* what a run of hops does, if its blocks differ from one another *)
LEMMA JumpIs ==
  ASSUME NEW m, NEW k, Ir(m, k), NEW hops \in Seq(HopT(Len(m.fn))), currFn \in 0 .. k
  PROVE  LET r == Jump(m, hops) IN
         /\ Ir(r, k) /\ Blk(r) = Blk(m)
         /\ \A b \in Blk(m) : r.fn[b] = IF b \in Ats(hops) THEN currFn ELSE m.fn[b]
         /\ \A b \in Blk(m) : b \notin Sources(hops) => r.out[b] = m.out[b]
         /\ \A i \in DOMAIN hops :
              Source(hops, i) \in Blk(m) /\ (\A j \in DOMAIN hops : Source(hops, j) = Source(hops, i) => j = i)
                => r.out[Source(hops, i)] = Append(m.out[Source(hops, i)], hops[i].to)
<1> DEFINE r == Jump(m, hops)
           at(b) == CHOOSE i \in DOMAIN hops : Source(hops, i) = b
           o == [b \in Blk(m) |-> IF b \in Sources(hops) THEN Append(m.out[b], hops[at(b)].to)
                                  ELSE m.out[b]]
           g == [b \in Blk(m) |-> IF b \in Ats(hops) THEN currFn ELSE m.fn[b]]
<1>1. /\ Len(m.fn) \in Nat /\ DOMAIN m.fn = Blk(m) /\ DOMAIN m.out = Blk(m)
      /\ \A b \in Blk(m) : m.fn[b] \in 0 .. k /\ m.out[b] \in Seq(SUBSET Blk(m))
  BY IrFacts
<1>2. r.fn = g /\ r.out = o /\ r = [fn |-> r.fn, out |-> r.out]
  <2>1. \A b : b \in Ats(hops) <=> \E i \in DOMAIN hops : hops[i].at = b
    BY DEF Ats
  <2>2. \A b : b \in Sources(hops) <=> \E i \in DOMAIN hops : Source(hops, i) = b
    BY DEF Sources
  <2>3. r.fn = [b \in DOMAIN m.fn |-> IF \E i \in DOMAIN hops : hops[i].at = b THEN currFn ELSE m.fn[b]]
    BY DEF Jump
  <2>4. r.out = [b \in DOMAIN m.out |->
                   IF \E i \in DOMAIN hops : Source(hops, i) = b
                     THEN Append(m.out[b], hops[CHOOSE i \in DOMAIN hops : Source(hops, i) = b].to)
                     ELSE m.out[b]]
    BY DEF Jump
  <2>5. r.fn = g
    BY <1>1, <2>1, <2>3
  <2>6. r.out = o
    BY <1>1, <2>2, <2>4
  <2>7. r = [fn |-> r.fn, out |-> r.out]
    BY DEF Jump
  <2> QED BY <2>5, <2>6, <2>7
<1>3. g \in [1 .. Len(m.fn) -> 0 .. k]
  BY <1>1 DEF Blk
<1>4. o \in [1 .. Len(m.fn) -> Seq(SUBSET Blk(m))]
  <2> SUFFICES ASSUME NEW b \in Blk(m) PROVE o[b] \in Seq(SUBSET Blk(m))
    BY DEF Blk
  <2>1. CASE b \in Sources(hops)
    <3>1. at(b) \in DOMAIN hops
      BY <2>1 DEF Sources
    <3>2. at(b) \in 1 .. Len(hops)
      BY <3>1, LenProperties
    <3> HIDE DEF at
    <3>3. hops[at(b)] \in HopT(Len(m.fn))
      BY <3>2, ElementOfSeq
    <3>4. hops[at(b)].to \in SUBSET Blk(m)
      BY <3>3 DEF HopT, Blk
    <3>5. Append(m.out[b], hops[at(b)].to) \in Seq(SUBSET Blk(m))
      BY <1>1, <3>4, AppendProperties
    <3> QED BY <2>1, <3>5
  <2>2. CASE b \notin Sources(hops)
    BY <1>1, <2>2
  <2> QED BY <2>1, <2>2
<1>5. \A b \in Blk(m) : /\ g[b] = IF b \in Ats(hops) THEN currFn ELSE m.fn[b]
                        /\ b \notin Sources(hops) => o[b] = m.out[b]
  OBVIOUS
<1>6. ASSUME NEW i \in DOMAIN hops, Source(hops, i) \in Blk(m),
             \A j \in DOMAIN hops : Source(hops, j) = Source(hops, i) => j = i
      PROVE  o[Source(hops, i)] = Append(m.out[Source(hops, i)], hops[i].to)
  <2>1. at(Source(hops, i)) = i /\ Source(hops, i) \in Sources(hops)
    BY <1>6 DEF Sources
  <2> QED BY <1>6, <2>1
<1> HIDE DEF o, g, r
<1>7. /\ g \in Seq(0 .. k) /\ Len(g) = Len(m.fn)
      /\ o \in Seq(Seq(SUBSET Blk(m))) /\ Len(o) = Len(m.fn)
  BY <1>1, <1>3, <1>4, FunctionIsSeq
<1>8. Ir(r, k) /\ Blk(r) = Blk(m)
  BY <1>2, <1>7 DEF Ir, Blk
<1> QED BY <1>2, <1>5, <1>6, <1>8 DEF r

(***************************************************************************)
(* Types.                                                                  *)
(***************************************************************************)
Kinds == {"loop", "while", "for", "if", "ife", "landor"}
FrameT(n, k) == [kind : Kinds \cup {"fn"}, in : {"stmts", "expr"}, parts : Seq(PartT(n)),
                 from : 0 .. n, fn : 0 .. k]
FnT(n) == [entry : 1 .. n, ret : 1 .. n, valued : BOOLEAN,
           final : {"open", "void", "slot", "default", "rejected"},
           returns : BOOLEAN, inner : BOOLEAN,
           defs : SUBSET Label, uses : SUBSET Label]
PhiT(n) == [at : 1 .. n, in : SUBSET (1 .. n)]

(* TypeOK, conjunct by conjunct, of n blocks and k functions *)
BlocksTyped == Ir(ir, Len(fns)) /\ ip \in 0 .. Len(ir.fn)
               /\ phis \subseteq PhiT(Len(ir.fn))
FnsTyped == currFn \in 0 .. Len(fns) /\ fnStack \in Seq(0 .. Len(fns)) /\ withRet \in BOOLEAN
            /\ fns \in Seq(FnT(Len(ir.fn)))
TablesTyped == labelMap \in [Label -> 0 .. Len(ir.fn)] /\ loops \in Seq(LoopT(Len(ir.fn)))
StackTyped == ctl \in Seq(FrameT(Len(ir.fn), Len(fns)))
Typed == BlocksTyped /\ FnsTyped /\ TablesTyped /\ StackTyped
         /\ nodes \in Nat /\ phase \in {"walk", "done", "failed"}

LEMMA TypedIs == Typed => TypeOK
BY DEF Typed, TypeOK, BlocksTyped, FnsTyped, TablesTyped, StackTyped, Ir, Blk, Block, BlockOrNone,
       FunctionType, FnT, LoopType, LoopT, FrameType, FrameT, PartType, PartT, HopType, HopT,
       PhiT, Kinds

Context == Framed(ctl, fns) /\ Stacked(ctl, currFn, fnStack) /\ Placed(ip, ctl)
           /\ Opened(ctl, fns, phase) /\ Shapes(ctl)

LEMMA Sizes ==
  ASSUME Typed
  PROVE  /\ Len(ir.fn) \in Nat /\ Len(ctl) \in Nat /\ Len(fns) \in Nat /\ Len(fnStack) \in Nat
         /\ Len(loops) \in Nat
         /\ \A i \in 1 .. Len(ctl) : ctl[i] \in FrameT(Len(ir.fn), Len(fns))
         /\ \A f \in 1 .. Len(fns) : fns[f] \in FnT(Len(ir.fn))
         /\ Block = Blk(ir) /\ Fn = 1 .. Len(fns)
         /\ ctl # <<>> => Len(ctl) \in 1 .. Len(ctl)
<1>1. Len(ir.fn) \in Nat
  BY IrFacts DEF Typed, BlocksTyped
<1>2. ctl # <<>> => Len(ctl) \in Nat \ {0}
  BY EmptySeq DEF Typed, StackTyped
<1> QED BY <1>1, <1>2, LenProperties, ElementOfSeq
        DEF Typed, FnsTyped, TablesTyped, StackTyped, Block, Blk, Fn

(* More blocks and functions only add to the types. *)
LEMMA TypesGrow ==
  ASSUME NEW n \in Nat, NEW n2 \in Nat, NEW k \in Nat, NEW k2 \in Nat, n <= n2, k <= k2
  PROVE  /\ \A s \in Seq(PartT(n)) : s \in Seq(PartT(n2))
         /\ \A s \in Seq(FrameT(n, k)) : s \in Seq(FrameT(n2, k2))
         /\ FrameT(n, k) \subseteq FrameT(n2, k2)
         /\ \A s \in Seq(LoopT(n)) : s \in Seq(LoopT(n2))
         /\ FnT(n) \subseteq FnT(n2)
         /\ \A s \in Seq(FnT(n)) : s \in Seq(FnT(n2))
         /\ \A s \in Seq(0 .. k) : s \in Seq(0 .. k2)
         /\ PhiT(n) \subseteq PhiT(n2)
<1>1. 1 .. n \subseteq 1 .. n2 /\ 0 .. n \subseteq 0 .. n2 /\ 0 .. k \subseteq 0 .. k2
  OBVIOUS
<1>2. HopT(n) \subseteq HopT(n2) /\ LoopT(n) \subseteq LoopT(n2) /\ FnT(n) \subseteq FnT(n2)
      /\ PhiT(n) \subseteq PhiT(n2)
  BY <1>1 DEF HopT, LoopT, FnT, PhiT
<1>3. \A s \in Seq(HopT(n)) : s \in Seq(HopT(n2))
  BY <1>2, SeqMonotonic
<1>4. \A s \in Seq(LoopT(n)) : s \in Seq(LoopT(n2))
  BY <1>2, SeqMonotonic
<1>5. PartT(n) \subseteq PartT(n2)
  BY <1>3, <1>4 DEF PartT
<1>6. \A s \in Seq(PartT(n)) : s \in Seq(PartT(n2))
  BY <1>5, SeqMonotonic
<1>7. FrameT(n, k) \subseteq FrameT(n2, k2)
  BY <1>1, <1>6 DEF FrameT
<1>8. \A s \in Seq(FrameT(n, k)) : s \in Seq(FrameT(n2, k2))
  BY <1>7, SeqMonotonic
<1>9. \A s \in Seq(FnT(n)) : s \in Seq(FnT(n2))
  BY <1>2, SeqMonotonic
<1>10. \A s \in Seq(0 .. k) : s \in Seq(0 .. k2)
  BY <1>1, SeqMonotonic
<1> QED BY <1>2, <1>4, <1>6, <1>7, <1>8, <1>9, <1>10

(* Where a statement is walked there are a function and an insertion block. *)
LEMMA Inside ==
  ASSUME Typed, Context, EmitMain \/ ctl # <<>>
  PROVE  currFn \in Fn /\ Enclosing \in Fn /\ ip \in Block
<1>1. ip # 0 /\ ip \in Block
  BY Sizes DEF Context, Placed, Typed, BlocksTyped, Block
<1>2. Enclosing \in Fn
  <2>1. CASE ctl # <<>>
    BY <2>1, Sizes, OwnIs, EnclosingIs DEF Context
  <2>2. CASE ctl = <<>>
    <3>1. Enclosing = 1 /\ EmitMain
      BY <2>2, EnclosingIs, OwnZero, EmptySeq DEF Base
    <3> QED BY <3>1, Sizes DEF Context, Framed, Base
  <2> QED BY <2>1, <2>2
<1>3. currFn \in Fn
  <2>1. CASE EmitMain
    BY <2>1, Sizes DEF Context, Stacked, Typed, FnsTyped
  <2>2. CASE ~EmitMain
    BY <1>2, <2>2, EnclosingIs DEF Context, Stacked
  <2> QED BY <2>1, <2>2
<1> QED BY <1>1, <1>2, <1>3

(***************************************************************************)
(* What a construct's head creates: n blocks after the first a, each of    *)
(* them inserted by exactly one hop of one part.                           *)
(***************************************************************************)
Within(part, a, n) ==
  /\ part.hops # <<>>
  /\ \A h \in DOMAIN part.hops : /\ part.hops[h].at \in a + 1 .. a + n
                                 /\ part.hops[h].to \subseteq a + 1 .. a + n
  /\ \A j \in DOMAIN part.loop : /\ part.loop[j].cond \in a + 1 .. a + n
                                 /\ part.loop[j].out \in a + 1 .. a + n

Apart(parts) ==
  \A q, r \in DOMAIN parts :
    \A h \in DOMAIN parts[q].hops : \A k \in DOMAIN parts[r].hops :
      parts[q].hops[h].at = parts[r].hops[k].at => q = r /\ h = k

Covers(parts, a, n) ==
  \A b \in a + 1 .. a + n :
    \E q \in DOMAIN parts : \E h \in DOMAIN parts[q].hops : b = parts[q].hops[h].at

Ends(parts) == \A q \in DOMAIN parts : parts[q].in = "after" <=> q = Len(parts)

Plan(parts, a, n) ==
  /\ parts \in Seq(PartT(a + n)) /\ Len(parts) >= 2
  /\ Ends(parts) /\ Apart(parts) /\ Covers(parts, a, n)
  /\ \A q \in DOMAIN parts : Within(parts[q], a, n)

Begins(kind, n, parts, from) ==
  /\ Begin(kind, n, parts, from)
  /\ kind \in Kinds /\ n \in Nat /\ Plan(parts, Len(ir.fn), n)
  /\ EmitMain \/ ctl # <<>>
  /\ kind # "landor" => from = 0
  /\ kind = "landor" =>
       /\ from = ip /\ n = 2
       /\ parts = << Part(<<Hop({New(1), New(2)}, New(1))>>, "expr"),
                     Last(<<Hop({New(2)}, New(2))>>) >>

Beginning == \E kind, n, parts, from : Begins(kind, n, parts, from)

(* one hop, and a part with one or two *)
LEMMA PartIs ==
  ASSUME NEW m \in Nat, NEW to \in SUBSET (1 .. m), NEW at \in 1 .. m,
         NEW to2 \in SUBSET (1 .. m), NEW at2 \in 1 .. m, NEW in \in {"stmts", "expr", "after"},
         NEW cond \in 1 .. m, NEW out \in 1 .. m
  PROVE  /\ Part(<<Hop(to, at)>>, in) \in PartT(m)
         /\ Part(<<Hop(to, at), Hop(to2, at2)>>, in) \in PartT(m)
         /\ Last(<<Hop(to, at)>>) \in PartT(m)
         /\ LoopBody(<<Hop(to, at)>>, cond, out) \in PartT(m)
         /\ LoopBody(<<Hop(to, at), Hop(to2, at2)>>, cond, out) \in PartT(m)
<1>1. Hop(to, at) \in HopT(m) /\ Hop(to2, at2) \in HopT(m)
  BY DEF Hop, HopT
<1>2. <<Hop(to, at)>> \in Seq(HopT(m)) /\ <<Hop(to, at), Hop(to2, at2)>> \in Seq(HopT(m))
  BY <1>1
<1>3. [cond |-> cond, out |-> out] \in LoopT(m)
  BY DEF LoopT
<1>4. <<[cond |-> cond, out |-> out]>> \in Seq(LoopT(m)) /\ <<>> \in Seq(LoopT(m))
  BY <1>3
<1> QED BY <1>2, <1>4 DEF Part, Last, LoopBody, PartT

(* the plan of a construct with two or three parts, spelt out *)
LEMMA PlanOfTwo ==
  ASSUME NEW a \in Nat, NEW n \in Nat, NEW p1 \in PartT(a + n), NEW p2 \in PartT(a + n),
         p1.in # "after", p2.in = "after",
         NEW parts, parts = <<p1, p2>>
  PROVE  parts \in Seq(PartT(a + n)) /\ Len(parts) = 2 /\ DOMAIN parts = {1, 2}
         /\ parts[1] = p1 /\ parts[2] = p2
         /\ Ends(parts)
BY DEF Ends

LEMMA PlanOfThree ==
  ASSUME NEW a \in Nat, NEW n \in Nat, NEW p1 \in PartT(a + n), NEW p2 \in PartT(a + n),
         NEW p3 \in PartT(a + n), p1.in # "after", p2.in # "after", p3.in = "after",
         NEW parts, parts = <<p1, p2, p3>>
  PROVE  parts \in Seq(PartT(a + n)) /\ Len(parts) = 3 /\ DOMAIN parts = {1, 2, 3}
         /\ parts[1] = p1 /\ parts[2] = p2 /\ parts[3] = p3
         /\ Ends(parts)
BY DEF Ends

LEMMA HopsAre ==
  \A t, at, t2, at2 :
    /\ DOMAIN <<Hop(t, at)>> = {1} /\ <<Hop(t, at)>> # <<>> /\ <<Hop(t, at)>>[1].to = t
    /\ <<Hop(t, at)>>[1].at = at
    /\ LET s == <<Hop(t, at), Hop(t2, at2)>> IN
       DOMAIN s = {1, 2} /\ s # <<>> /\ s[1].to = t /\ s[1].at = at /\ s[2].to = t2 /\ s[2].at = at2
    /\ LET l == <<[cond |-> at, out |-> at2]>> IN
       DOMAIN l = {1} /\ l[1].cond = at /\ l[1].out = at2
BY DEF Hop

LEMMA OneHop ==
  \A t, at : /\ DOMAIN <<Hop(t, at)>> = {1} /\ <<Hop(t, at)>> # <<>>
             /\ <<Hop(t, at)>>[1].to = t /\ <<Hop(t, at)>>[1].at = at
BY DEF Hop

LEMMA LoopPlan ==
  ASSUME NEW a \in Nat
  PROVE  Plan(<< LoopBody(<<Hop({a + 1}, a + 1)>>, a + 1, a + 2),
                 Last(<<Hop({a + 1}, a + 2)>>) >>, a, 2)
<1> DEFINE p1 == LoopBody(<<Hop({a + 1}, a + 1)>>, a + 1, a + 2)
           p2 == Last(<<Hop({a + 1}, a + 2)>>)
           parts == <<p1, p2>>
<1>1. p1 \in PartT(a + 2) /\ p2 \in PartT(a + 2)
      /\ p1.in # "after" /\ p2.in = "after"
  <2>1. /\ a + 2 \in Nat /\ {"stmts", "expr"} \subseteq {"stmts", "expr", "after"}
        /\ \A b \in {a + 1, a + 2} : b \in 1 .. a + 2
        /\ \A T \in SUBSET {a + 1, a + 2} : T \in SUBSET (1 .. a + 2)
    OBVIOUS
  <2>2. p1 \in PartT(a + 2)
    BY <2>1, PartIs
  <2>3. p2 \in PartT(a + 2)
    BY <2>1, PartIs
  <2> QED BY <2>2, <2>3 DEF LoopBody, Last, Part
<1>2. /\ p1.hops = <<Hop({a + 1}, a + 1)>> /\ p1.loop = <<[cond |-> a + 1, out |-> a + 2]>>
      /\ p2.hops = <<Hop({a + 1}, a + 2)>> /\ DOMAIN p2.loop = {}
  BY DEF LoopBody, Last, Part
<1> HIDE DEF p1, p2
<1>3. /\ parts \in Seq(PartT(a + 2)) /\ Len(parts) = 2 /\ DOMAIN parts = {1, 2}
      /\ parts[1] = p1 /\ parts[2] = p2
      /\ Ends(parts)
  <2>1. PICK n \in Nat : n = 2
    OBVIOUS
  <2>2. p1 \in PartT(a + n) /\ p2 \in PartT(a + n)
    BY <1>1, <2>1
  <2> HIDE DEF parts
  <2>3. parts = <<p1, p2>>
    BY DEF parts
  <2>4. /\ parts \in Seq(PartT(a + n)) /\ Len(parts) = 2 /\ DOMAIN parts = {1, 2}
        /\ parts[1] = p1 /\ parts[2] = p2 /\ Ends(parts)
    BY <1>1, <2>2, <2>3, PlanOfTwo
  <2> QED BY <2>1, <2>4
<1> HIDE DEF parts
<1>4. \A q \in DOMAIN parts : Within(parts[q], a, 2)
  <2>1. Within(p1, a, 2)
    BY <1>2, HopsAre DEF Within
  <2>2. Within(p2, a, 2)
    BY <1>2, HopsAre DEF Within
  <2> QED BY <1>3, <2>1, <2>2
<1>5. Apart(parts)
  BY <1>2, <1>3, HopsAre DEF Apart
<1>6. Covers(parts, a, 2)
  BY <1>2, <1>3, HopsAre DEF Covers
<1>7. Plan(parts, a, 2)
  BY <1>3, <1>4, <1>5, <1>6 DEF Plan
<1> QED BY <1>7 DEF parts, p1, p2

LEMMA WhilePlan ==
  ASSUME NEW a \in Nat
  PROVE  Plan(<< Part(<<Hop({a + 1}, a + 1)>>, "expr"),
                 LoopBody(<<Hop({a + 2, a + 3}, a + 2)>>, a + 1, a + 3),
                 Last(<<Hop({a + 1}, a + 3)>>) >>, a, 3)
<1> DEFINE p1 == Part(<<Hop({a + 1}, a + 1)>>, "expr")
           p2 == LoopBody(<<Hop({a + 2, a + 3}, a + 2)>>, a + 1, a + 3)
           p3 == Last(<<Hop({a + 1}, a + 3)>>)
           parts == <<p1, p2, p3>>
<1>1. p1 \in PartT(a + 3) /\ p2 \in PartT(a + 3) /\ p3 \in PartT(a + 3)
      /\ p1.in # "after" /\ p2.in # "after" /\ p3.in = "after"
  <2>1. /\ a + 3 \in Nat /\ {"stmts", "expr"} \subseteq {"stmts", "expr", "after"}
        /\ \A b \in {a + 1, a + 2, a + 3} : b \in 1 .. a + 3
        /\ \A T \in SUBSET {a + 1, a + 2, a + 3} : T \in SUBSET (1 .. a + 3)
    OBVIOUS
  <2>2. p1 \in PartT(a + 3)
    BY <2>1, PartIs
  <2>3. p2 \in PartT(a + 3)
    BY <2>1, PartIs, ZenonT(30)
  <2>4. p3 \in PartT(a + 3)
    BY <2>1, PartIs
  <2> QED BY <2>2, <2>3, <2>4 DEF LoopBody, Last, Part
<1>2. /\ p1.hops = <<Hop({a + 1}, a + 1)>> /\ DOMAIN p1.loop = {}
      /\ p2.hops = <<Hop({a + 2, a + 3}, a + 2)>> /\ p2.loop = <<[cond |-> a + 1, out |-> a + 3]>>
      /\ p3.hops = <<Hop({a + 1}, a + 3)>> /\ DOMAIN p3.loop = {}
  BY DEF LoopBody, Last, Part
<1> HIDE DEF p1, p2, p3
<1>3. /\ parts \in Seq(PartT(a + 3)) /\ Len(parts) = 3 /\ DOMAIN parts = {1, 2, 3}
      /\ parts[1] = p1 /\ parts[2] = p2 /\ parts[3] = p3
      /\ Ends(parts)
  BY <1>1, PlanOfThree
<1> HIDE DEF parts
<1>4. \A q \in DOMAIN parts : Within(parts[q], a, 3)
  <2>1. Within(p1, a, 3)
    BY <1>2, HopsAre DEF Within
  <2>2. Within(p2, a, 3)
    BY <1>2, HopsAre DEF Within
  <2>3. Within(p3, a, 3)
    BY <1>2, HopsAre DEF Within
  <2> QED BY <1>3, <2>1, <2>2, <2>3
<1>5. Apart(parts)
  BY <1>2, <1>3, HopsAre DEF Apart
<1>6. Covers(parts, a, 3)
  BY <1>2, <1>3, HopsAre, SMTT(30) DEF Covers
<1>7. Plan(parts, a, 3)
  BY <1>3, <1>4, <1>5, <1>6 DEF Plan
<1> QED BY <1>7 DEF parts, p1, p2, p3

LEMMA ForPlan ==
  ASSUME NEW a \in Nat
  PROVE  Plan(<< LoopBody(<<Hop({a + 1}, a + 1), Hop({a + 2, a + 3}, a + 2)>>, a + 1, a + 3),
                 Last(<<Hop({a + 1}, a + 3)>>) >>, a, 3)
<1> DEFINE p1 == LoopBody(<<Hop({a + 1}, a + 1), Hop({a + 2, a + 3}, a + 2)>>, a + 1, a + 3)
           p2 == Last(<<Hop({a + 1}, a + 3)>>)
           parts == <<p1, p2>>
<1>1. p1 \in PartT(a + 3) /\ p2 \in PartT(a + 3)
      /\ p1.in # "after" /\ p2.in = "after"
  <2>1. /\ a + 3 \in Nat /\ {"stmts", "expr"} \subseteq {"stmts", "expr", "after"}
        /\ \A b \in {a + 1, a + 2, a + 3} : b \in 1 .. a + 3
        /\ \A T \in SUBSET {a + 1, a + 2, a + 3} : T \in SUBSET (1 .. a + 3)
    OBVIOUS
  <2>2. p1 \in PartT(a + 3)
    BY <2>1, PartIs
  <2>3. p2 \in PartT(a + 3)
    BY <2>1, PartIs
  <2> QED BY <2>2, <2>3 DEF LoopBody, Last, Part
<1>2. /\ p1.hops = <<Hop({a + 1}, a + 1), Hop({a + 2, a + 3}, a + 2)>> /\ p1.loop = <<[cond |-> a + 1, out |-> a + 3]>>
      /\ p2.hops = <<Hop({a + 1}, a + 3)>> /\ DOMAIN p2.loop = {}
  BY DEF LoopBody, Last, Part
<1> HIDE DEF p1, p2
<1>3. /\ parts \in Seq(PartT(a + 3)) /\ Len(parts) = 2 /\ DOMAIN parts = {1, 2}
      /\ parts[1] = p1 /\ parts[2] = p2
      /\ Ends(parts)
  <2>1. PICK n \in Nat : n = 3
    OBVIOUS
  <2>2. p1 \in PartT(a + n) /\ p2 \in PartT(a + n)
    BY <1>1, <2>1
  <2> HIDE DEF parts
  <2>3. parts = <<p1, p2>>
    BY DEF parts
  <2>4. /\ parts \in Seq(PartT(a + n)) /\ Len(parts) = 2 /\ DOMAIN parts = {1, 2}
        /\ parts[1] = p1 /\ parts[2] = p2 /\ Ends(parts)
    BY <1>1, <2>2, <2>3, PlanOfTwo, SMTT(30)
  <2> QED BY <2>1, <2>4
<1> HIDE DEF parts
<1>4. \A q \in DOMAIN parts : Within(parts[q], a, 3)
  <2>1. Within(p1, a, 3)
    BY <1>2, HopsAre DEF Within
  <2>2. Within(p2, a, 3)
    BY <1>2, HopsAre DEF Within
  <2> QED BY <1>3, <2>1, <2>2
<1>5. Apart(parts)
  BY <1>2, <1>3, HopsAre DEF Apart
<1>6. Covers(parts, a, 3)
  BY <1>2, <1>3, HopsAre DEF Covers
<1>7. Plan(parts, a, 3)
  BY <1>3, <1>4, <1>5, <1>6 DEF Plan
<1> QED BY <1>7 DEF parts, p1, p2

LEMMA IfePlan ==
  ASSUME NEW a \in Nat
  PROVE  Plan(<< Part(<<Hop({a + 1, a + 3}, a + 1)>>, "stmts"),
                 Part(<<Hop({a + 2}, a + 3)>>, "stmts"),
                 Last(<<Hop({a + 2}, a + 2)>>) >>, a, 3)
<1> DEFINE p1 == Part(<<Hop({a + 1, a + 3}, a + 1)>>, "stmts")
           p2 == Part(<<Hop({a + 2}, a + 3)>>, "stmts")
           p3 == Last(<<Hop({a + 2}, a + 2)>>)
           parts == <<p1, p2, p3>>
<1>1. p1 \in PartT(a + 3) /\ p2 \in PartT(a + 3) /\ p3 \in PartT(a + 3)
      /\ p1.in # "after" /\ p2.in # "after" /\ p3.in = "after"
  <2>1. /\ a + 3 \in Nat /\ {"stmts", "expr"} \subseteq {"stmts", "expr", "after"}
        /\ \A b \in {a + 1, a + 2, a + 3} : b \in 1 .. a + 3
        /\ \A T \in SUBSET {a + 1, a + 2, a + 3} : T \in SUBSET (1 .. a + 3)
    OBVIOUS
  <2>2. p1 \in PartT(a + 3)
    BY <2>1, PartIs
  <2>3. p2 \in PartT(a + 3)
    BY <2>1, PartIs
  <2>4. p3 \in PartT(a + 3)
    BY <2>1, PartIs
  <2> QED BY <2>2, <2>3, <2>4 DEF LoopBody, Last, Part
<1>2. /\ p1.hops = <<Hop({a + 1, a + 3}, a + 1)>> /\ DOMAIN p1.loop = {}
      /\ p2.hops = <<Hop({a + 2}, a + 3)>> /\ DOMAIN p2.loop = {}
      /\ p3.hops = <<Hop({a + 2}, a + 2)>> /\ DOMAIN p3.loop = {}
  BY DEF LoopBody, Last, Part
<1> HIDE DEF p1, p2, p3
<1>3. /\ parts \in Seq(PartT(a + 3)) /\ Len(parts) = 3 /\ DOMAIN parts = {1, 2, 3}
      /\ parts[1] = p1 /\ parts[2] = p2 /\ parts[3] = p3
      /\ Ends(parts)
  BY <1>1, PlanOfThree
<1> HIDE DEF parts
<1>4. \A q \in DOMAIN parts : Within(parts[q], a, 3)
  <2>1. Within(p1, a, 3)
    BY <1>2, HopsAre DEF Within
  <2>2. Within(p2, a, 3)
    BY <1>2, HopsAre DEF Within
  <2>3. Within(p3, a, 3)
    BY <1>2, HopsAre DEF Within
  <2> QED BY <1>3, <2>1, <2>2, <2>3
<1>5. Apart(parts)
  BY <1>2, <1>3, HopsAre DEF Apart
<1>6. Covers(parts, a, 3)
  BY <1>2, <1>3, HopsAre DEF Covers
<1>7. Plan(parts, a, 3)
  BY <1>3, <1>4, <1>5, <1>6 DEF Plan
<1> QED BY <1>7 DEF parts, p1, p2, p3

LEMMA LandOrPlan ==
  ASSUME NEW a \in Nat
  PROVE  Plan(<< Part(<<Hop({a + 1, a + 2}, a + 1)>>, "expr"),
                 Last(<<Hop({a + 2}, a + 2)>>) >>, a, 2)
<1> DEFINE p1 == Part(<<Hop({a + 1, a + 2}, a + 1)>>, "expr")
           p2 == Last(<<Hop({a + 2}, a + 2)>>)
           parts == <<p1, p2>>
<1>1. p1 \in PartT(a + 2) /\ p2 \in PartT(a + 2)
      /\ p1.in # "after" /\ p2.in = "after"
  <2>1. /\ a + 2 \in Nat /\ {"stmts", "expr"} \subseteq {"stmts", "expr", "after"}
        /\ \A b \in {a + 1, a + 2} : b \in 1 .. a + 2
        /\ \A T \in SUBSET {a + 1, a + 2} : T \in SUBSET (1 .. a + 2)
    OBVIOUS
  <2>2. p1 \in PartT(a + 2)
    BY <2>1, PartIs
  <2>3. p2 \in PartT(a + 2)
    BY <2>1, PartIs
  <2> QED BY <2>2, <2>3 DEF LoopBody, Last, Part
<1>2. /\ p1.hops = <<Hop({a + 1, a + 2}, a + 1)>> /\ DOMAIN p1.loop = {}
      /\ p2.hops = <<Hop({a + 2}, a + 2)>> /\ DOMAIN p2.loop = {}
  BY DEF LoopBody, Last, Part
<1> HIDE DEF p1, p2
<1>3. /\ parts \in Seq(PartT(a + 2)) /\ Len(parts) = 2 /\ DOMAIN parts = {1, 2}
      /\ parts[1] = p1 /\ parts[2] = p2
      /\ Ends(parts)
  <2>1. PICK n \in Nat : n = 2
    OBVIOUS
  <2>2. p1 \in PartT(a + n) /\ p2 \in PartT(a + n)
    BY <1>1, <2>1
  <2> HIDE DEF parts
  <2>3. parts = <<p1, p2>>
    BY DEF parts
  <2>4. /\ parts \in Seq(PartT(a + n)) /\ Len(parts) = 2 /\ DOMAIN parts = {1, 2}
        /\ parts[1] = p1 /\ parts[2] = p2 /\ Ends(parts)
    BY <1>1, <2>2, <2>3, PlanOfTwo
  <2> QED BY <2>1, <2>4
<1> HIDE DEF parts
<1>4. \A q \in DOMAIN parts : Within(parts[q], a, 2)
  <2>1. Within(p1, a, 2)
    BY <1>2, HopsAre DEF Within
  <2>2. Within(p2, a, 2)
    BY <1>2, HopsAre DEF Within
  <2> QED BY <1>3, <2>1, <2>2
<1>5. Apart(parts)
  BY <1>2, <1>3, HopsAre DEF Apart
<1>6. Covers(parts, a, 2)
  BY <1>2, <1>3, HopsAre DEF Covers
<1>7. Plan(parts, a, 2)
  BY <1>3, <1>4, <1>5, <1>6 DEF Plan
<1> QED BY <1>7 DEF parts, p1, p2

(* if: cond 1 is tested first; the blocks are the conditions', the bodies' *)
(* and the one behind                                                      *)
IfParts(a, n, bodies, otherwise) ==
  LET condbb(i) == a + i
      bodybb(i) == a + (n + i)
      outbb == a + (n + bodies + 1)
      test(i) == Hop({bodybb(i), condbb(i)}, condbb(i))
  IN  [i \in 1 .. n - 1 |-> Part(<<test(i)>>, "expr")]
      \o << Part(<<test(n), Hop({otherwise}, bodybb(1))>>, "stmts") >>
      \o [i \in 1 .. bodies - 1 |-> Part(<<Hop({outbb}, bodybb(i + 1))>>, "stmts")]
      \o << Last(<<Hop({outbb}, outbb)>>) >>

LEMMA IfPlan ==
  ASSUME NEW a \in Nat, NEW n \in Nat \ {0}, NEW bodies \in {n, n + 1},
         NEW otherwise \in a + 1 .. a + (n + bodies + 1)
  PROVE  Plan(IfParts(a, n, bodies, otherwise), a, n + bodies + 1)
<1> DEFINE m == n + bodies + 1
           out == a + (n + bodies + 1)
           one(i) == Part(<<Hop({a + (n + i), a + i}, a + i)>>, "expr")
           turn == Part(<<Hop({a + (n + n), a + n}, a + n), Hop({otherwise}, a + (n + 1))>>, "stmts")
           next(i) == Part(<<Hop({out}, a + (n + (i + 1)))>>, "stmts")
           last == Last(<<Hop({out}, out)>>)
           A == [i \in 1 .. n - 1 |-> one(i)]
           B == [i \in 1 .. bodies - 1 |-> next(i)]
           parts == A \o <<turn>> \o B \o <<last>>
<1>1. parts = IfParts(a, n, bodies, otherwise)
  BY DEF IfParts
<1>2. /\ n \in Nat /\ bodies \in Nat /\ m \in Nat /\ a + m \in Nat /\ out = a + m
      /\ n - 1 \in Nat /\ bodies - 1 \in Nat
      /\ \A i \in 1 .. n : a + i \in 1 .. a + m /\ a + (n + i) \in 1 .. a + m
      /\ \A i \in 1 .. bodies : a + (n + i) \in 1 .. a + m
      /\ out \in 1 .. a + m /\ otherwise \in 1 .. a + m /\ n \in 1 .. n /\ 1 \in 1 .. n
  OBVIOUS
<1>3. ASSUME NEW i \in 1 .. n PROVE one(i) \in PartT(a + m)
  <2>1. a + i \in 1 .. a + m /\ {a + (n + i), a + i} \in SUBSET (1 .. a + m) /\ a + m \in Nat
        /\ "expr" \in {"stmts", "expr", "after"}
    BY <1>2
  <2> HIDE DEF m
  <2> QED BY <2>1, PartIs
<1>4. turn \in PartT(a + m)
  <2>1. a + n \in 1 .. a + m /\ {a + (n + n), a + n} \in SUBSET (1 .. a + m) /\ a + m \in Nat
        /\ {otherwise} \in SUBSET (1 .. a + m) /\ a + (n + 1) \in 1 .. a + m
        /\ "stmts" \in {"stmts", "expr", "after"}
    BY <1>2
  <2> HIDE DEF m
  <2> QED BY <2>1, PartIs
<1>5. ASSUME NEW i \in 1 .. bodies - 1 PROVE next(i) \in PartT(a + m)
  <2>1. i + 1 \in 1 .. bodies
    BY <1>2
  <2>2. {out} \in SUBSET (1 .. a + m) /\ a + (n + (i + 1)) \in 1 .. a + m /\ a + m \in Nat
        /\ "stmts" \in {"stmts", "expr", "after"}
    BY <1>2, <2>1
  <2> HIDE DEF m, out
  <2> QED BY <2>2, PartIs
<1>6. last \in PartT(a + m)
  <2>1. {out} \in SUBSET (1 .. a + m) /\ out \in 1 .. a + m /\ a + m \in Nat
    BY <1>2
  <2> HIDE DEF m, out
  <2> QED BY <2>1, PartIs
<1>7. A \in Seq(PartT(a + m)) /\ Len(A) = n - 1 /\ \A i \in 1 .. n - 1 : A[i] = one(i)
  <2>1. A \in [1 .. n - 1 -> PartT(a + m)]
    <3>1. \A i \in 1 .. n - 1 : i \in 1 .. n
      BY <1>2
    <3> HIDE DEF m, one
    <3> QED BY <1>3, <3>1
  <2>2. \A i \in 1 .. n - 1 : A[i] = one(i)
    OBVIOUS
  <2> HIDE DEF A
  <2> QED BY <1>2, <2>1, <2>2, FunctionIsSeq
<1>8. B \in Seq(PartT(a + m)) /\ Len(B) = bodies - 1 /\ \A i \in 1 .. bodies - 1 : B[i] = next(i)
  <2>1. B \in [1 .. bodies - 1 -> PartT(a + m)]
    <3> HIDE DEF m, next
    <3> QED BY <1>5
  <2>2. \A i \in 1 .. bodies - 1 : B[i] = next(i)
    OBVIOUS
  <2> HIDE DEF B
  <2> QED BY <1>2, <2>1, <2>2, FunctionIsSeq
<1>9. /\ \A i : one(i).hops = <<Hop({a + (n + i), a + i}, a + i)>> /\ DOMAIN one(i).loop = {}
                /\ one(i).in = "expr"
      /\ turn.hops = <<Hop({a + (n + n), a + n}, a + n), Hop({otherwise}, a + (n + 1))>>
      /\ DOMAIN turn.loop = {} /\ turn.in = "stmts"
      /\ \A i : next(i).hops = <<Hop({out}, a + (n + (i + 1)))>> /\ DOMAIN next(i).loop = {}
                /\ next(i).in = "stmts"
      /\ last.hops = <<Hop({out}, out)>> /\ DOMAIN last.loop = {} /\ last.in = "after"
  BY DEF Part, Last
<1> HIDE DEF one, turn, next, last, A, B
<1>10. /\ parts \in Seq(PartT(a + m)) /\ Len(parts) = n + bodies /\ DOMAIN parts = 1 .. n + bodies
       /\ \A q \in 1 .. n + bodies :
            parts[q] = IF q < n THEN one(q) ELSE IF q = n THEN turn
                       ELSE IF q < n + bodies THEN next(q - n) ELSE last
  <2> DEFINE S == PartT(a + m)
             c1 == A \o <<turn>>
             c2 == c1 \o B
             c3 == c2 \o <<last>>
  <2>1. /\ A \in Seq(S) /\ B \in Seq(S) /\ turn \in S /\ last \in S
        /\ Len(A) = n - 1 /\ Len(B) = bodies - 1
    BY <1>4, <1>6, <1>7, <1>8
  <2>2. /\ <<turn>> \in Seq(S) /\ Len(<<turn>>) = 1 /\ <<turn>>[1] = turn
        /\ <<last>> \in Seq(S) /\ Len(<<last>>) = 1 /\ <<last>>[1] = last
    <3> HIDE DEF S
    <3> QED BY <2>1
  <2> HIDE DEF S
  <2>3. /\ c1 \in Seq(S) /\ Len(c1) = n
        /\ \A i \in 1 .. n : c1[i] = IF i <= n - 1 THEN A[i] ELSE <<turn>>[i - (n - 1)]
    <3>1. /\ c1 \in Seq(S) /\ Len(c1) = Len(A) + Len(<<turn>>)
          /\ \A i \in 1 .. Len(A) + Len(<<turn>>) :
               c1[i] = IF i <= Len(A) THEN A[i] ELSE <<turn>>[i - Len(A)]
      BY <2>1, <2>2, ConcatProperties
    <3>2. Len(A) + Len(<<turn>>) = n
      BY <1>2, <2>1, <2>2
    <3> QED BY <2>1, <3>1, <3>2
  <2> HIDE DEF c1
  <2>4. /\ c2 \in Seq(S) /\ Len(c2) = n + bodies - 1
        /\ \A i \in 1 .. n + bodies - 1 : c2[i] = IF i <= n THEN c1[i] ELSE B[i - n]
    <3>1. /\ c2 \in Seq(S) /\ Len(c2) = Len(c1) + Len(B)
          /\ \A i \in 1 .. Len(c1) + Len(B) :
               c2[i] = IF i <= Len(c1) THEN c1[i] ELSE B[i - Len(c1)]
      BY <2>1, <2>3, ConcatProperties
    <3>2. Len(c1) + Len(B) = n + bodies - 1
      BY <1>2, <2>1, <2>3
    <3> QED BY <2>3, <3>1, <3>2
  <2> HIDE DEF c2
  <2>5. /\ c3 \in Seq(S) /\ Len(c3) = n + bodies
        /\ \A i \in 1 .. n + bodies :
             c3[i] = IF i <= n + bodies - 1 THEN c2[i] ELSE <<last>>[i - (n + bodies - 1)]
    <3>1. /\ c3 \in Seq(S) /\ Len(c3) = Len(c2) + Len(<<last>>)
          /\ \A i \in 1 .. Len(c2) + Len(<<last>>) :
               c3[i] = IF i <= Len(c2) THEN c2[i] ELSE <<last>>[i - Len(c2)]
      BY <2>2, <2>4, ConcatProperties
    <3>2. Len(c2) + Len(<<last>>) = n + bodies
      BY <1>2, <2>2, <2>4
    <3> QED BY <2>4, <3>1, <3>2
  <2>6. parts = c3
    BY DEF c1, c2
  <2> HIDE DEF c3, parts
  <2>7. DOMAIN c3 = 1 .. n + bodies
    BY <2>5, LenProperties
  <2>8. ASSUME NEW q \in 1 .. n + bodies
        PROVE  c3[q] = IF q < n THEN one(q) ELSE IF q = n THEN turn
                       ELSE IF q < n + bodies THEN next(q - n) ELSE last
    <3>1. CASE q < n
      <4>1. q \in 1 .. n - 1 /\ q \in 1 .. n /\ q \in 1 .. n + bodies - 1 /\ q <= n
            /\ q <= n - 1 /\ q <= n + bodies - 1
        BY <1>2, <3>1
      <4> QED BY <1>7, <2>3, <2>4, <2>5, <3>1, <4>1
    <3>2. CASE q = n
      <4>1. q - (n - 1) = 1 /\ q \in 1 .. n /\ q \in 1 .. n + bodies - 1 /\ q <= n
            /\ ~(q <= n - 1) /\ q <= n + bodies - 1 /\ ~(q < n)
        BY <1>2, <3>2
      <4> QED BY <2>2, <2>3, <2>4, <2>5, <3>2, <4>1
    <3>3. CASE q > n /\ q < n + bodies
      <4>1. q - n \in 1 .. bodies - 1 /\ q \in 1 .. n + bodies - 1 /\ ~(q <= n)
            /\ q <= n + bodies - 1 /\ ~(q < n) /\ q # n
        BY <1>2, <3>3
      <4> QED BY <1>8, <2>4, <2>5, <3>3, <4>1
    <3>4. CASE q = n + bodies
      <4>1. q - (n + bodies - 1) = 1 /\ ~(q <= n + bodies - 1) /\ ~(q < n) /\ q # n
            /\ ~(q < n + bodies)
        BY <1>2, <3>4
      <4> QED BY <2>2, <2>5, <3>4, <4>1
    <3> QED BY <1>2, <3>1, <3>2, <3>3, <3>4
  <2> QED BY <2>5, <2>6, <2>7, <2>8 DEF S
<1> HIDE DEF parts
<1>11. ASSUME NEW q \in DOMAIN parts
       PROVE  /\ parts[q].hops # <<>> /\ DOMAIN parts[q].loop = {}
              /\ parts[q].in = "after" <=> q = n + bodies
              /\ DOMAIN parts[q].hops = IF q = n THEN {1, 2} ELSE {1}
              /\ \A h \in DOMAIN parts[q].hops :
                   /\ parts[q].hops[h].at = IF q <= n THEN a + (q + (h - 1)) ELSE a + (q + 1)
                   /\ parts[q].hops[h].to \subseteq a + 1 .. a + m
  <2>1. CASE q < n
    <3>1. parts[q] = one(q) /\ q # n /\ q # n + bodies /\ q <= n /\ q \in Nat
      BY <1>2, <1>10, <2>1
    <3>2. a + (n + q) \in a + 1 .. a + m /\ a + q \in a + 1 .. a + m /\ a + (q + (1 - 1)) = a + q
      BY <1>2, <1>10, <2>1
    <3> HIDE DEF m
    <3>3. DOMAIN parts[q].hops = {1} /\ parts[q].hops # <<>>
          /\ parts[q].hops[1].at = a + q /\ parts[q].hops[1].to = {a + (n + q), a + q}
      <4>1. parts[q].hops = <<Hop({a + (n + q), a + q}, a + q)>>
        BY <1>9, <3>1
      <4> QED BY <4>1, OneHop
    <3>4. DOMAIN parts[q].loop = {} /\ parts[q].in # "after"
      BY <1>9, <3>1
    <3> QED BY <3>1, <3>2, <3>3, <3>4
  <2>2. CASE q = n
    <3>1. parts[q] = turn /\ q # n + bodies /\ q <= n /\ q \in Nat
      BY <1>2, <1>10, <2>2
    <3>2. /\ a + (n + n) \in a + 1 .. a + m /\ a + n \in a + 1 .. a + m
          /\ a + (n + (1 - 1)) = a + n /\ a + (n + (2 - 1)) = a + (n + 1)
          /\ otherwise \in a + 1 .. a + m
      BY <1>2
    <3> HIDE DEF m
    <3>3. DOMAIN parts[q].hops = {1, 2} /\ parts[q].hops # <<>>
          /\ parts[q].hops[1].at = a + n /\ parts[q].hops[1].to = {a + (n + n), a + n}
          /\ parts[q].hops[2].at = a + (n + 1) /\ parts[q].hops[2].to = {otherwise}
      BY <1>9, <3>1, HopsAre
    <3> QED BY <1>9, <2>2, <3>1, <3>2, <3>3
  <2>3. CASE q > n /\ q < n + bodies
    <3>1. parts[q] = next(q - n) /\ q # n /\ q # n + bodies /\ ~(q <= n) /\ q \in Nat
      BY <1>2, <1>10, <2>3
    <3>2. out \in a + 1 .. a + m /\ a + (n + ((q - n) + 1)) = a + (q + 1)
      BY <1>2, <1>10, <2>3
    <3> HIDE DEF m, out
    <3>3. DOMAIN parts[q].hops = {1} /\ parts[q].hops # <<>>
          /\ parts[q].hops[1].at = a + (n + ((q - n) + 1)) /\ parts[q].hops[1].to = {out}
      BY <1>9, <3>1, OneHop
    <3>4. DOMAIN parts[q].loop = {} /\ parts[q].in # "after"
      BY <1>9, <3>1
    <3> QED BY <3>1, <3>2, <3>3, <3>4
  <2>4. CASE q = n + bodies
    <3>1. parts[q] = last /\ q # n /\ ~(q <= n) /\ q \in Nat
      BY <1>2, <1>10, <2>4
    <3>2. out \in a + 1 .. a + m /\ out = a + (q + 1)
      BY <1>2, <2>4
    <3> HIDE DEF m, out
    <3>3. DOMAIN parts[q].hops = {1} /\ parts[q].hops # <<>>
          /\ parts[q].hops[1].at = out /\ parts[q].hops[1].to = {out}
      BY <1>9, <3>1, OneHop
    <3>4. DOMAIN parts[q].loop = {} /\ parts[q].in = "after"
      BY <1>9, <3>1
    <3> QED BY <2>4, <3>1, <3>2, <3>3, <3>4
  <2> QED BY <1>2, <1>10, <2>1, <2>2, <2>3, <2>4
<1>12. Ends(parts)
  BY <1>10, <1>11 DEF Ends
<1>13. \A q \in DOMAIN parts : Within(parts[q], a, m)
  <2> TAKE q \in DOMAIN parts
  <2>1. \A h \in DOMAIN parts[q].hops : parts[q].hops[h].at \in a + 1 .. a + m
    <3> TAKE h \in DOMAIN parts[q].hops
    <3>1. h \in {1, 2} /\ (h = 2 => q = n)
      BY <1>11
    <3>2. q \in 1 .. n + bodies
      BY <1>10
    <3>3. parts[q].hops[h].at = IF q <= n THEN a + (q + (h - 1)) ELSE a + (q + 1)
      BY <1>11
    <3> QED BY <1>2, <3>1, <3>2, <3>3
  <2> HIDE DEF m
  <2> QED BY <1>11, <2>1 DEF Within
<1>14. Apart(parts)
  <2> SUFFICES ASSUME NEW q \in DOMAIN parts, NEW r \in DOMAIN parts,
                      NEW h \in DOMAIN parts[q].hops, NEW k \in DOMAIN parts[r].hops,
                      parts[q].hops[h].at = parts[r].hops[k].at
               PROVE  q = r /\ h = k
    BY DEF Apart
  <2>1. /\ h \in {1, 2} /\ (h = 2 => q = n) /\ k \in {1, 2} /\ (k = 2 => r = n)
        /\ q \in 1 .. n + bodies /\ r \in 1 .. n + bodies
    BY <1>10, <1>11
  <2>2. /\ parts[q].hops[h].at = IF q <= n THEN a + (q + (h - 1)) ELSE a + (q + 1)
        /\ parts[r].hops[k].at = IF r <= n THEN a + (r + (k - 1)) ELSE a + (r + 1)
    BY <1>11
  <2>3. CASE q <= n /\ r <= n
    <3>1. a + (q + (h - 1)) = a + (r + (k - 1))
      BY <2>2, <2>3
    <3> QED BY <1>2, <2>1, <2>3, <3>1
  <2>4. CASE q <= n /\ ~(r <= n)
    <3>1. a + (q + (h - 1)) = a + (r + 1)
      BY <2>2, <2>4
    <3> QED BY <1>2, <2>1, <2>4, <3>1
  <2>5. CASE ~(q <= n) /\ r <= n
    <3>1. a + (q + 1) = a + (r + (k - 1))
      BY <2>2, <2>5
    <3> QED BY <1>2, <2>1, <2>5, <3>1
  <2>6. CASE ~(q <= n) /\ ~(r <= n)
    <3>1. a + (q + 1) = a + (r + 1)
      BY <2>2, <2>6
    <3> QED BY <1>2, <2>1, <2>6, <3>1
  <2> QED BY <2>3, <2>4, <2>5, <2>6
<1>15. Covers(parts, a, m)
  <2> SUFFICES ASSUME NEW b \in a + 1 .. a + m
               PROVE  \E q \in DOMAIN parts : \E h \in DOMAIN parts[q].hops : b = parts[q].hops[h].at
    BY DEF Covers
  <2>1. ASSUME NEW q \in 1 .. n + bodies, NEW h, h \in IF q = n THEN {1, 2} ELSE {1},
               b = IF q <= n THEN a + (q + (h - 1)) ELSE a + (q + 1)
        PROVE  \E r \in DOMAIN parts : \E k \in DOMAIN parts[r].hops : b = parts[r].hops[k].at
    <3>1. q \in DOMAIN parts
      BY <1>10
    <3>2. h \in DOMAIN parts[q].hops
      BY <1>11, <2>1, <3>1
    <3>3. b = parts[q].hops[h].at
      BY <1>11, <2>1, <3>1, <3>2
    <3> QED BY <3>1, <3>2, <3>3
  <2>2. CASE b <= a + n
    <3>1. b - a \in 1 .. n + bodies /\ b - a <= n /\ b = a + ((b - a) + (1 - 1))
      BY <1>2, <2>2
    <3> QED BY <2>1, <3>1
  <2>3. CASE b = a + (n + 1)
    <3>1. n \in 1 .. n + bodies /\ n <= n /\ b = a + (n + (2 - 1))
      BY <1>2, <2>3
    <3> QED BY <2>1, <3>1
  <2>4. CASE b > a + (n + 1)
    <3>1. b - a - 1 \in 1 .. n + bodies /\ ~(b - a - 1 <= n) /\ b = a + ((b - a - 1) + 1)
      BY <1>2, <2>4
    <3> QED BY <2>1, <3>1
  <2> QED BY <1>2, <2>2, <2>3, <2>4
<1>16. Len(parts) >= 2
  BY <1>2, <1>10
<1>17. Plan(parts, a, m)
  <2> HIDE DEF m
  <2> QED BY <1>10, <1>12, <1>13, <1>14, <1>15, <1>16 DEF Plan
<1> QED BY <1>1, <1>17

(* The heads of all constructs have that shape. *)
LEMMA HeadsBegin ==
  ASSUME Typed,
         \/ BeginLoop \/ BeginWhile \/ BeginFor \/ BeginIfe \/ BeginLandOr
         \/ \E n \in 1 .. MaxConds, else \in BOOLEAN : BeginIf(n, else)
  PROVE  Beginning
<1> DEFINE a == Len(ir.fn)
<1>1. a \in Nat
  BY Sizes
<1>2. StatementPlace \/ ExpressionPlace => EmitMain \/ ctl # <<>>
  BY DEF StatementPlace, ExpressionPlace
<1>3. New(1) = a + 1 /\ New(2) = a + 2 /\ New(3) = a + 3
  BY DEF New
<1>4. CASE BeginLoop
  <2>1. Begins("loop", 2, << LoopBody(<<Hop({a + 1}, a + 1)>>, a + 1, a + 2),
                             Last(<<Hop({a + 1}, a + 2)>>) >>, 0)
    BY <1>1, <1>2, <1>3, <1>4, LoopPlan DEF BeginLoop, Begins, Kinds
  <2> QED BY <2>1 DEF Beginning
<1>5. CASE BeginWhile
  <2>1. Begins("while", 3, << Part(<<Hop({a + 1}, a + 1)>>, "expr"),
                 LoopBody(<<Hop({a + 2, a + 3}, a + 2)>>, a + 1, a + 3),
                 Last(<<Hop({a + 1}, a + 3)>>) >>, 0)
    BY <1>1, <1>2, <1>3, <1>5, WhilePlan DEF BeginWhile, Begins, Kinds
  <2> QED BY <2>1 DEF Beginning
<1>6. CASE BeginFor
  <2>1. Begins("for", 3, << LoopBody(<<Hop({a + 1}, a + 1), Hop({a + 2, a + 3}, a + 2)>>, a + 1, a + 3),
                 Last(<<Hop({a + 1}, a + 3)>>) >>, 0)
    BY <1>1, <1>2, <1>3, <1>6, ForPlan DEF BeginFor, Begins, Kinds
  <2> QED BY <2>1 DEF Beginning
<1>7. CASE BeginIfe
  <2>1. Begins("ife", 3, << Part(<<Hop({a + 1, a + 3}, a + 1)>>, "stmts"),
                 Part(<<Hop({a + 2}, a + 3)>>, "stmts"),
                 Last(<<Hop({a + 2}, a + 2)>>) >>, 0)
    BY <1>1, <1>2, <1>3, <1>7, IfePlan DEF BeginIfe, Begins, Kinds
  <2> QED BY <2>1 DEF Beginning
<1>8. CASE BeginLandOr
  <2>1. Begins("landor", 2, << Part(<<Hop({a + 1, a + 2}, a + 1)>>, "expr"),
                 Last(<<Hop({a + 2}, a + 2)>>) >>, ip)
    BY <1>1, <1>2, <1>3, <1>8, LandOrPlan DEF BeginLandOr, Begins, Kinds
  <2> QED BY <2>1 DEF Beginning
<1>9. ASSUME NEW n \in 1 .. MaxConds, NEW else \in BOOLEAN, BeginIf(n, else)
      PROVE  Beginning
  <2>1. PICK bodies : bodies = IF else THEN n + 1 ELSE n
    OBVIOUS
  <2>2. PICK otherwise : otherwise = IF else THEN a + (n + (n + 1)) ELSE a + (n + bodies + 1)
    OBVIOUS
  <2>3. n \in Nat \ {0} /\ bodies \in {n, n + 1} /\ n + bodies + 1 \in Nat
        /\ otherwise \in a + 1 .. a + (n + bodies + 1)
    <3>1. n \in Nat \ {0}
      BY BoundAssumption
    <3>2. CASE else
      <4>1. bodies = n + 1 /\ otherwise = a + (n + (n + 1))
        BY <2>1, <2>2, <3>2
      <4> HIDE DEF a
      <4> QED BY <1>1, <3>1, <4>1
    <3>3. CASE ~else
      <4>1. bodies = n /\ otherwise = a + (n + bodies + 1)
        BY <2>1, <2>2, <3>3
      <4> HIDE DEF a
      <4> QED BY <1>1, <3>1, <4>1
    <3> QED BY <3>2, <3>3
  <2>4. Begin("if", n + bodies + 1, IfParts(a, n, bodies, otherwise), 0) /\ StatementPlace
    BY <1>9, <2>1, <2>2 DEF BeginIf, IfParts, New
  <2>5. Plan(IfParts(a, n, bodies, otherwise), a, n + bodies + 1)
    BY <1>1, <2>3, IfPlan
  <2>6. Begins("if", n + bodies + 1, IfParts(a, n, bodies, otherwise), 0)
    BY <1>2, <2>3, <2>4, <2>5 DEF Begins, Kinds
  <2> QED BY <2>6 DEF Beginning
<1> QED BY <1>4, <1>5, <1>6, <1>7, <1>8, <1>9

(***************************************************************************)
(* Every step keeps the types.                                             *)
(***************************************************************************)
LEMMA StillTyped ==
  ASSUME Typed, NEW n \in Nat, NEW k \in Nat, Len(ir.fn) <= n, Len(fns) <= k
  PROVE  /\ ip \in 0 .. n /\ phis \subseteq PhiT(n) /\ currFn \in 0 .. k
         /\ fnStack \in Seq(0 .. k) /\ fns \in Seq(FnT(n)) /\ labelMap \in [Label -> 0 .. n]
         /\ loops \in Seq(LoopT(n)) /\ ctl \in Seq(FrameT(n, k))
<1>1. Len(ir.fn) \in Nat /\ Len(fns) \in Nat
  BY Sizes
<1>2. \A x \in 0 .. Len(ir.fn) : x \in 0 .. n
  BY <1>1
<1>3. \A x \in 0 .. Len(fns) : x \in 0 .. k
  BY <1>1
<1>4. ip \in 0 .. n /\ currFn \in 0 .. k /\ labelMap \in [Label -> 0 .. n]
  BY <1>2, <1>3 DEF Typed, BlocksTyped, FnsTyped, TablesTyped
<1>5. fnStack \in Seq(0 .. k) /\ fns \in Seq(FnT(n)) /\ phis \subseteq PhiT(n)
  BY <1>1, TypesGrow DEF Typed, BlocksTyped, FnsTyped
<1>6. loops \in Seq(LoopT(n)) /\ ctl \in Seq(FrameT(n, k))
  BY <1>1, TypesGrow DEF Typed, TablesTyped, StackTyped
<1> QED BY <1>4, <1>5, <1>6

(* A step that diverts control: n new blocks, a branch to the targets, and *)
(* the block that what follows goes into.                                  *)
SameFns ==
  /\ Len(fns') = Len(fns)
  /\ \A f \in Fn : /\ fns'[f].entry = fns[f].entry /\ fns'[f].ret = fns[f].ret
                   /\ fns'[f].valued = fns[f].valued /\ fns'[f].final = fns[f].final
                   /\ fns'[f].inner = fns[f].inner

Diverts(n, targets, extra) ==
  /\ n \in Nat /\ Statement
  /\ Divert(NewBlocks(n), targets, extra)
  /\ targets \subseteq 1 .. Len(ir.fn) + n /\ extra \in 1 .. Len(ir.fn) + n
  /\ extra \in Block => ir.fn[extra] = 0
  /\ UNCHANGED <<phis, currFn, fnStack, loops, ctl>>
  /\ SameFns /\ fns' \in Seq(FnT(Len(ir.fn) + n))
  /\ withRet' \in BOOLEAN
  /\ labelMap' \in [Label -> 0 .. Len(ir.fn) + n]

(* A frame is on top, and something of it is left to do. *)
LEMMA NextIs ==
  ASSUME Typed, Context, ctl # <<>>, Top.parts # <<>>
  PROVE  /\ Len(ctl) \in 1 .. Len(ctl) /\ Top \in FrameT(Len(ir.fn), Len(fns))
         /\ Top.kind # "fn" /\ Len(Top.parts) \in Nat \ {0} /\ 1 \in DOMAIN Top.parts
         /\ NextPart = Top.parts[1] /\ NextPart \in PartT(Len(ir.fn))
         /\ Tail(Top.parts) \in Seq(PartT(Len(ir.fn)))
         /\ Len(Tail(Top.parts)) = Len(Top.parts) - 1
         /\ \A q \in DOMAIN Tail(Top.parts) :
              q + 1 \in DOMAIN Top.parts /\ q + 1 # 1 /\ q \in Nat
              /\ Tail(Top.parts)[q] = Top.parts[q + 1]
<1>1. Len(ctl) \in 1 .. Len(ctl) /\ Top \in FrameT(Len(ir.fn), Len(fns))
  BY Sizes DEF Top
<1>2. Top.kind # "fn"
  BY <1>1 DEF Context, Framed, Top
<1>3. Top.parts \in Seq(PartT(Len(ir.fn)))
  BY <1>1 DEF FrameT
<1> DEFINE s == Top.parts
           S == PartT(Len(ir.fn))
<1> HIDE DEF S, s
<1>4. s \in Seq(S) /\ s # <<>>
  BY <1>3 DEF s, S
<1>5. /\ Len(s) \in Nat \ {0} /\ DOMAIN s = 1 .. Len(s) /\ 1 \in DOMAIN s /\ s[1] \in S
      /\ Tail(s) \in Seq(S) /\ Len(Tail(s)) = Len(s) - 1
      /\ \A i \in 1 .. Len(Tail(s)) : Tail(s)[i] = s[i + 1]
  <2>1. Len(s) \in Nat \ {0} /\ DOMAIN s = 1 .. Len(s)
    BY <1>4, EmptySeq, LenProperties
  <2>2. 1 \in DOMAIN s /\ s[1] \in S
    BY <1>4, <2>1, ElementOfSeq
  <2> QED BY <1>4, <2>1, <2>2, HeadTailProperties
<1>6. Head(s) = s[1]
  BY <1>4
<1>7. \A q \in DOMAIN Tail(s) : q + 1 \in DOMAIN s /\ q + 1 # 1 /\ q \in Nat /\ Tail(s)[q] = s[q + 1]
  <2>1. DOMAIN Tail(s) = 1 .. Len(Tail(s))
    BY <1>5, LenProperties
  <2> QED BY <1>5, <2>1
<1> QED BY <1>1, <1>2, <1>5, <1>6, <1>7 DEF s, S, NextPart

LEMMA LandingIs ==
  ASSUME NEW n \in Nat, NEW hops \in Seq(HopT(n)), hops # <<>>
  PROVE  /\ Len(hops) \in Nat \ {0} /\ DOMAIN hops = 1 .. Len(hops) /\ Len(hops) \in DOMAIN hops
         /\ Landing(hops) = hops[Len(hops)].at /\ Landing(hops) \in 1 .. n
         /\ \A i \in DOMAIN hops : hops[i].at \in 1 .. n /\ hops[i].to \in SUBSET (1 .. n)
<1>1. Len(hops) \in Nat \ {0} /\ DOMAIN hops = 1 .. Len(hops)
  BY EmptySeq, LenProperties
<1>2. \A i \in 1 .. Len(hops) : hops[i] \in HopT(n)
  BY ElementOfSeq
<1> QED BY <1>1, <1>2 DEF HopT, Landing

LEMMA JumpTyped ==
  ASSUME Typed, NEW m, Ir(m, Len(fns)), NEW part \in PartT(Len(m.fn)), part.hops # <<>>,
         Len(ir.fn) <= Len(m.fn), Len(ir'.fn) = Len(m.fn),
         ir' = Jump(m, part.hops), ip' = Landing(part.hops),
         UNCHANGED <<phis, labelMap, phase>>, UnchangedFn, nodes' \in Nat,
         loops' = loops \o part.loop
  PROVE  BlocksTyped' /\ FnsTyped' /\ TablesTyped' /\ ip' # 0
<1> DEFINE n == Len(m.fn)
<1>1. n \in Nat /\ Len(fns) \in Nat /\ fns' = fns /\ currFn \in 0 .. Len(fns)
  BY IrFacts, Sizes DEF UnchangedFn, Typed, FnsTyped
<1>2. part.hops \in Seq(HopT(n)) /\ part.loop \in Seq(LoopT(n))
  BY DEF PartT
<1>3. Ir(ir', Len(fns))
  BY <1>1, <1>2, JumpIs
<1>4. ip' \in 1 .. n
  BY <1>1, <1>2, LandingIs
<1>5. /\ phis \subseteq PhiT(n) /\ currFn \in 0 .. Len(fns)
      /\ fnStack \in Seq(0 .. Len(fns)) /\ fns \in Seq(FnT(n)) /\ labelMap \in [Label -> 0 .. n]
      /\ loops \in Seq(LoopT(n))
  BY <1>1, StillTyped
<1>6. loops' \in Seq(LoopT(n))
  BY <1>2, <1>5, ConcatProperties
<1>7. BlocksTyped' /\ ip' # 0
  BY <1>1, <1>3, <1>4, <1>5 DEF BlocksTyped
<1>8. FnsTyped'
  BY <1>1, <1>5 DEF FnsTyped, UnchangedFn, Typed
<1>9. TablesTyped'
  BY <1>1, <1>5, <1>6 DEF TablesTyped
<1> QED BY <1>7, <1>8, <1>9

LEMMA DivertIs ==
  ASSUME Typed, Context, NEW n, NEW targets, NEW extra, Diverts(n, targets, extra)
  PROVE  LET m == NewBlocks(n) IN
         /\ ip \in Block /\ Ir(ir', Len(fns)) /\ Len(ir'.fn) = Len(ir.fn) + n /\ ip' = extra
         /\ \A b \in Blk(ir') : ir'.fn[b] = IF b = extra THEN currFn ELSE m.fn[b]
         /\ \A b \in Blk(ir') : ir'.out[b] = IF b = ip THEN Append(m.out[ip], targets) ELSE m.out[b]
<1> DEFINE m == NewBlocks(n)
           r == Branch(m, ip, targets)
<1>1. ip \in Block /\ currFn \in 0 .. Len(fns)
  <2>1. EmitMain \/ ctl # <<>>
    BY DEF Diverts, Statement, StatementPlace
  <2> QED BY <2>1, Inside DEF Typed, FnsTyped
<1>2. Ir(m, Len(fns)) /\ Len(m.fn) = Len(ir.fn) + n /\ Blk(ir) \subseteq Blk(m)
  BY NewBlocksIs, Sizes DEF Diverts, Typed, BlocksTyped
<1>3. ip \in Blk(m) /\ targets \in SUBSET Blk(m) /\ extra \in Blk(m)
  BY <1>1, <1>2, Sizes DEF Diverts, Blk
<1>4. ir' = Insert(r, extra, currFn) /\ ip' = extra
  BY DEF Diverts, Divert
<1> HIDE DEF m
<1>5. /\ Ir(r, Len(fns)) /\ r.fn = m.fn /\ Blk(r) = Blk(m)
      /\ \A x \in Blk(m) : r.out[x] = IF x = ip THEN Append(m.out[ip], targets) ELSE m.out[x]
  BY <1>2, <1>3, BranchIs
<1> HIDE DEF r
<1>6. /\ Ir(ir', Len(fns)) /\ ir'.out = r.out /\ Blk(ir') = Blk(r)
      /\ \A x \in Blk(r) : ir'.fn[x] = IF x = extra THEN currFn ELSE r.fn[x]
  BY <1>1, <1>3, <1>4, <1>5, InsertIs
<1>7. Len(ir'.fn) = Len(m.fn)
  <2>1. Len(ir'.fn) \in Nat /\ Len(m.fn) \in Nat /\ 1 .. Len(ir'.fn) = 1 .. Len(m.fn)
    BY <1>2, <1>5, <1>6, IrFacts DEF Blk
  <2> QED BY <2>1
<1> QED BY <1>1, <1>2, <1>4, <1>5, <1>6, <1>7 DEF m

LEMMA DivertTyped ==
  ASSUME Typed, Context, NEW n, NEW targets, NEW extra, Diverts(n, targets, extra)
  PROVE  Typed' /\ Context'
<1>1. /\ ip \in Block /\ Ir(ir', Len(fns)) /\ Len(ir'.fn) = Len(ir.fn) + n /\ ip' = extra
  BY DivertIs
<1>2. n \in Nat /\ Len(ir.fn) \in Nat /\ Len(fns) \in Nat /\ Len(ir'.fn) \in Nat
      /\ Len(ir.fn) <= Len(ir'.fn) /\ Len(fns) <= Len(fns) /\ extra \in 1 .. Len(ir'.fn)
  BY <1>1, Sizes DEF Diverts
<1>3. Len(fns') = Len(fns) /\ UNCHANGED <<phis, currFn, fnStack, loops, ctl, phase>>
      /\ nodes' \in Nat
  BY DEF Diverts, SameFns, Statement, Walking, Visit, Typed
<1>4. /\ phis \subseteq PhiT(Len(ir'.fn)) /\ currFn \in 0 .. Len(fns)
      /\ fnStack \in Seq(0 .. Len(fns)) /\ loops \in Seq(LoopT(Len(ir'.fn)))
      /\ ctl \in Seq(FrameT(Len(ir'.fn), Len(fns)))
  BY <1>2, StillTyped
<1>5. BlocksTyped'
  BY <1>1, <1>2, <1>3, <1>4 DEF BlocksTyped
<1>6. FnsTyped' /\ TablesTyped' /\ StackTyped'
  BY <1>1, <1>3, <1>4 DEF FnsTyped, TablesTyped, StackTyped, Diverts
<1>7. Typed'
  BY <1>3, <1>5, <1>6 DEF Typed
<1>8. Framed(ctl', fns') /\ Stacked(ctl', currFn', fnStack') /\ Placed(ip', ctl') /\ Shapes(ctl')
  BY <1>2, <1>1, <1>3 DEF Context, Framed, Stacked, Placed
<1>9. Opened(ctl', fns', phase')
  <2>1. \A f \in Fn : fns'[f].final = fns[f].final
    BY DEF Diverts, SameFns
  <2> QED BY <1>3, <2>1, Sizes DEF Context, Opened, Framed
<1> QED BY <1>7, <1>8, <1>9 DEF Context

(* A stack that differs in what is left to do, and in frames that are not  *)
(* functions.                                                              *)
LEMMA Pushed ==
  ASSUME NEW S, NEW c \in Seq(S), NEW fr \in S
  PROVE  LET d == Append(c, fr) IN
         /\ d \in Seq(S) /\ d # <<>> /\ Len(c) \in Nat /\ Len(d) = Len(c) + 1
         /\ Alike(c, d, Len(c)) /\ d[Len(d)] = fr
         /\ \A i \in 1 .. Len(c) : d[i] = c[i]
         /\ \A i \in 0 .. Len(c) : Own(d, i) = Own(c, i) /\ Depth(d, i) = Depth(c, i)
<1> DEFINE d == Append(c, fr)
<1>1. /\ d \in Seq(S) /\ d # <<>> /\ Len(c) \in Nat /\ Len(d) = Len(c) + 1
      /\ d[Len(d)] = fr /\ \A i \in 1 .. Len(c) : d[i] = c[i]
  BY AppendProperties, LenProperties
<1> HIDE DEF d
<1>2. Alike(c, d, Len(c))
  BY <1>1 DEF Alike
<1>3. \A i \in 0 .. Len(c) : Own(d, i) = Own(c, i) /\ Depth(d, i) = Depth(c, i)
  BY <1>1, <1>2, OwnSame
<1> QED BY <1>1, <1>2, <1>3 DEF d

LEMMA Popped ==
  ASSUME NEW S, NEW c \in Seq(S), c # <<>>
  PROVE  LET d == SubSeq(c, 1, Len(c) - 1) IN
         /\ d \in Seq(S) /\ Len(c) \in Nat \ {0} /\ Len(d) = Len(c) - 1
         /\ Alike(c, d, Len(d)) /\ Len(d) \in Nat /\ (d # <<>> => Len(d) # 0)
         /\ \A i \in 1 .. Len(d) : d[i] = c[i]
         /\ \A i \in 0 .. Len(d) : Own(d, i) = Own(c, i) /\ Depth(d, i) = Depth(c, i)
<1> DEFINE d == SubSeq(c, 1, Len(c) - 1)
<1>1. /\ d \in Seq(S) /\ Len(c) \in Nat \ {0} /\ Len(d) = Len(c) - 1
      /\ \A i \in 1 .. Len(c) - 1 : d[i] = c[i]
  BY OuterFacts
<1> HIDE DEF d
<1>2. Len(d) \in Nat /\ (d # <<>> => Len(d) # 0)
  BY <1>1, EmptySeq
<1>3. Alike(c, d, Len(d))
  BY <1>1 DEF Alike
<1>4. \A i \in 0 .. Len(d) : Own(d, i) = Own(c, i) /\ Depth(d, i) = Depth(c, i)
  BY <1>2, <1>3, OwnSame
<1> QED BY <1>1, <1>2, <1>3, <1>4 DEF d

(* what a construct that begins, goes on, or ends does to the stack *)
LEMMA PushContext ==
  ASSUME Typed, Context, NEW n \in Nat, NEW fr \in FrameT(n, Len(fns)), fr.kind # "fn", Shaped(fr),
         fr.kind = "landor" => fr.from # 0,
         Len(ir.fn) <= n, EmitMain \/ ctl # <<>>, ctl' = Append(ctl, fr), ip' # 0,
         UNCHANGED <<currFn, fnStack, fns, phase>>
  PROVE  Context' /\ ctl' \in Seq(FrameT(n, Len(fns)))
<1>1. Len(fns) \in Nat /\ Len(ctl) \in Nat /\ ctl \in Seq(FrameT(n, Len(fns)))
  BY Sizes, StillTyped
<1>2. /\ ctl' \in Seq(FrameT(n, Len(fns))) /\ ctl' # <<>>
      /\ Len(ctl') = Len(ctl) + 1 /\ ctl'[Len(ctl')] = fr
      /\ \A i \in 1 .. Len(ctl) : ctl'[i] = ctl[i]
      /\ \A i \in 0 .. Len(ctl) : Own(ctl', i) = Own(ctl, i) /\ Depth(ctl', i) = Depth(ctl, i)
  BY <1>1, Pushed
<1>3. \A i \in 1 .. Len(ctl') : ctl'[i].kind = "fn" =>
        i \in 1 .. Len(ctl) /\ ctl'[i] = ctl[i] /\ i - 1 \in 0 .. Len(ctl)
        /\ Own(ctl', i - 1) = Own(ctl, i - 1) /\ Depth(ctl', i) = Depth(ctl, i)
  BY <1>1, <1>2
<1>4. Own(ctl', Len(ctl')) = Own(ctl, Len(ctl)) /\ Depth(ctl', Len(ctl')) = Depth(ctl, Len(ctl))
  <2>1. Len(ctl') \in Nat \ {0} /\ Len(ctl') - 1 = Len(ctl) /\ Len(ctl) \in 0 .. Len(ctl)
    BY <1>1, <1>2
  <2> QED BY <1>2, <2>1, OwnStep, DepthStep
<1>5. Framed(ctl', fns')
  <2>1. ~EmitMain => 1 \in 1 .. Len(ctl) /\ ctl'[1] = ctl[1]
    BY <1>1, <1>2, Sizes
  <2> QED BY <1>3, <2>1 DEF Context, Framed
<1>6. Stacked(ctl', currFn', fnStack')
  BY <1>3, <1>4 DEF Context, Stacked
<1>7. Placed(ip', ctl') /\ Opened(ctl', fns', phase')
  <2>1. \A i \in 1 .. Len(ctl') : i \in 1 .. Len(ctl) \/ i = Len(ctl')
    BY <1>1, <1>2
  <2>2. \A i \in 1 .. Len(ctl') :
          ctl'[i].kind = "landor" \/ (ctl'[i].kind = "fn" /\ (EmitMain \/ i > 1)) => ctl'[i].from # 0
    BY <1>2, <1>3, <2>1 DEF Context, Placed
  <2>3. Opened(ctl', fns', phase')
    BY <1>3 DEF Context, Opened
  <2> QED BY <2>2, <2>3 DEF Placed
<1>8. Shapes(ctl')
  <2>1. \A i \in 1 .. Len(ctl') : i \in 1 .. Len(ctl) \/ i = Len(ctl')
    BY <1>1, <1>2
  <2> QED BY <1>2, <2>1 DEF Context, Shapes
<1> QED BY <1>2, <1>5, <1>6, <1>7, <1>8 DEF Context

(* the frame with all its parts, and the one whose first part is walked *)
LEMMA PlanIs ==
  ASSUME NEW a \in Nat, NEW n \in Nat, NEW parts, Plan(parts, a, n)
  PROVE  /\ Len(parts) \in Nat /\ Len(parts) >= 2 /\ DOMAIN parts = 1 .. Len(parts)
         /\ \A q \in DOMAIN parts : parts[q] \in PartT(a + n) /\ parts[q].hops # <<>>
         /\ 1 \in DOMAIN parts /\ parts[1].in \in {"stmts", "expr"}
         /\ Tail(parts) \in Seq(PartT(a + n)) /\ Len(Tail(parts)) = Len(parts) - 1
         /\ \A fr : fr.parts = Tail(parts) => Shaped(fr)
         /\ \A q \in DOMAIN Tail(parts) :
              q + 1 \in DOMAIN parts /\ q + 1 # 1 /\ q \in Nat /\ Tail(parts)[q] = parts[q + 1]
<1>1. parts \in Seq(PartT(a + n)) /\ Len(parts) >= 2 /\ Ends(parts)
      /\ \A q \in DOMAIN parts : parts[q].hops # <<>>
  BY DEF Plan, Within
<1>2. /\ Len(parts) \in Nat /\ DOMAIN parts = 1 .. Len(parts) /\ parts # <<>>
      /\ \A q \in DOMAIN parts : parts[q] \in PartT(a + n)
  BY <1>1, LenProperties, ElementOfSeq, EmptySeq
<1>3. 1 \in DOMAIN parts /\ 1 # Len(parts)
  BY <1>1, <1>2
<1>4. parts[1].in \in {"stmts", "expr"}
  BY <1>1, <1>2, <1>3 DEF Ends, PartT
<1>5. /\ Tail(parts) \in Seq(PartT(a + n)) /\ Len(Tail(parts)) = Len(parts) - 1
      /\ \A q \in 1 .. Len(Tail(parts)) : Tail(parts)[q] = parts[q + 1]
  BY <1>1, <1>2, HeadTailProperties
<1>6. DOMAIN Tail(parts) = 1 .. Len(Tail(parts))
  BY <1>5, LenProperties
<1>7. \A q \in DOMAIN Tail(parts) :
        q + 1 \in DOMAIN parts /\ q + 1 # 1 /\ q \in Nat /\ Tail(parts)[q] = parts[q + 1]
  BY <1>2, <1>5, <1>6
<1>8. \A fr : fr.parts = Tail(parts) => Shaped(fr)
  <2>1. Tail(parts) # <<>>
    BY <1>1, <1>2, <1>5, EmptySeq
  <2>2. \A q \in DOMAIN Tail(parts) : q + 1 = Len(parts) <=> q = Len(Tail(parts))
    BY <1>2, <1>5, <1>7
  <2> QED BY <1>1, <1>7, <2>1, <2>2 DEF Shaped, Ends
<1> QED BY <1>1, <1>2, <1>3, <1>4, <1>5, <1>7, <1>8

LEMMA BeginsTyped ==
  ASSUME Typed, Context, NEW kind, NEW n, NEW parts, NEW from, Begins(kind, n, parts, from)
  PROVE  Typed' /\ Context'
<1> DEFINE a == Len(ir.fn)
           m == NewBlocks(n)
           fr == Frame(kind, parts[1].in, Tail(parts), from)
<1>1. n \in Nat /\ a \in Nat /\ Plan(parts, a, n) /\ kind \in Kinds /\ Len(fns) \in Nat
      /\ (EmitMain \/ ctl # <<>>) /\ Begin(kind, n, parts, from)
  BY Sizes DEF Begins
<1>2. Ir(m, Len(fns)) /\ Len(m.fn) = a + n
  BY <1>1, NewBlocksIs DEF Typed, BlocksTyped
<1>3. from \in 0 .. a + n
  BY <1>1 DEF Begins, Typed, BlocksTyped
<1>4. /\ parts[1] \in PartT(a + n) /\ parts[1].hops # <<>> /\ parts[1].in \in {"stmts", "expr"}
      /\ Tail(parts) \in Seq(PartT(a + n))
  BY <1>1, PlanIs
<1>5. fr \in FrameT(a + n, Len(fns)) /\ fr.kind # "fn" /\ Shaped(fr)
      /\ (fr.kind = "landor" => fr.from # 0)
  <2>0. kind = "landor" => from # 0
    BY <1>1, Inside, Sizes DEF Begins, Block
  <2>1. (fr.kind = "landor" => fr.from # 0) /\ fr \in FrameT(a + n, Len(fns)) /\ fr.kind # "fn" /\ fr.parts = Tail(parts)
    BY <1>1, <1>3, <1>4, <2>0 DEF Frame, FrameT, Kinds
  <2> HIDE DEF fr
  <2> QED BY <1>1, <2>1, PlanIs
<1>6. /\ ir' = Jump(m, parts[1].hops) /\ ip' = Landing(parts[1].hops)
      /\ loops' = loops \o parts[1].loop /\ ctl' = Append(ctl, fr)
      /\ UNCHANGED <<phis, labelMap, phase>> /\ UnchangedFn /\ phase \in {"walk", "done", "failed"}
      /\ nodes' \in Nat
  BY <1>1 DEF Begin, Walking, Visit, Typed
<1> HIDE DEF m, fr
<1>7. Len(ir'.fn) = a + n
  <2>1. parts[1].hops \in Seq(HopT(Len(m.fn))) /\ currFn \in 0 .. Len(fns)
    BY <1>2, <1>4 DEF PartT, Typed, FnsTyped
  <2>2. Blk(ir') = Blk(m) /\ Ir(ir', Len(fns))
    BY <1>2, <1>6, <2>1, JumpIs
  <2>3. Len(ir'.fn) \in Nat /\ Len(m.fn) \in Nat
    BY <1>2, <2>2, IrFacts
  <2> QED BY <1>2, <2>2, <2>3 DEF Blk
<1>8. BlocksTyped' /\ FnsTyped' /\ TablesTyped' /\ ip' # 0
  <2>1. a <= Len(m.fn) /\ Len(ir'.fn) = Len(m.fn) /\ parts[1] \in PartT(Len(m.fn))
    BY <1>1, <1>2, <1>4, <1>7
  <2> QED BY <1>2, <1>4, <1>6, <2>1, JumpTyped
<1>9. Context' /\ ctl' \in Seq(FrameT(a + n, Len(fns)))
  <2>1. a + n \in Nat /\ Len(ir.fn) <= a + n
    BY <1>1
  <2>2. UNCHANGED <<currFn, fnStack, fns, phase>>
    BY <1>6 DEF UnchangedFn
  <2> HIDE DEF a
  <2> QED BY <1>1, <1>5, <1>6, <1>8, <2>1, <2>2, PushContext
<1>10. StackTyped'
  BY <1>6, <1>7, <1>9 DEF StackTyped, UnchangedFn
<1> QED BY <1>6, <1>8, <1>9, <1>10 DEF Typed

(* the stack in which the top frame, no function's, is replaced or gone *)
LEMMA ReplacedContext ==
  ASSUME Typed, Context, ctl # <<>>, Top.kind # "fn", NEW fr \in FrameT(Len(ir.fn), Len(fns)),
         fr.kind = Top.kind, fr.from = Top.from, Shaped(fr), ctl' = Append(Outer, fr), ip' # 0,
         UNCHANGED <<currFn, fnStack, fns, phase>>
  PROVE  /\ Context' /\ ctl' \in Seq(FrameT(Len(ir.fn), Len(fns)))
         /\ Len(ctl') = Len(ctl) /\ ctl'[Len(ctl)] = fr
         /\ \A i \in 1 .. Len(ctl) - 1 : ctl'[i] = ctl[i]
         /\ \A i \in 0 .. Len(ctl) : Own(ctl', i) = Own(ctl, i) /\ Depth(ctl', i) = Depth(ctl, i)
<1> DEFINE T == FrameT(Len(ir.fn), Len(fns))
<1>1. ctl \in Seq(T) /\ Len(ctl) \in Nat \ {0} /\ Len(fns) \in Nat
  BY Sizes, EmptySeq DEF Typed, StackTyped
<1>2. fr \in T
  OBVIOUS
<1> HIDE DEF T
<1>3. /\ Outer \in Seq(T) /\ Len(Outer) = Len(ctl) - 1
      /\ \A i \in 1 .. Len(Outer) : Outer[i] = ctl[i]
      /\ \A i \in 0 .. Len(Outer) : Own(Outer, i) = Own(ctl, i) /\ Depth(Outer, i) = Depth(ctl, i)
  BY <1>1, Popped DEF Outer
<1>4. /\ ctl' \in Seq(T) /\ ctl' # <<>> /\ Len(ctl') = Len(Outer) + 1 /\ ctl'[Len(ctl')] = fr
      /\ \A i \in 1 .. Len(Outer) : ctl'[i] = Outer[i]
      /\ \A i \in 0 .. Len(Outer) : Own(ctl', i) = Own(Outer, i) /\ Depth(ctl', i) = Depth(Outer, i)
  BY <1>2, <1>3, Pushed
<1>5. /\ Len(ctl') = Len(ctl) /\ ctl'[Len(ctl)] = fr
      /\ \A i \in 1 .. Len(ctl) - 1 : ctl'[i] = ctl[i]
  BY <1>1, <1>3, <1>4
<1>6. \A i \in 0 .. Len(ctl) : Own(ctl', i) = Own(ctl, i) /\ Depth(ctl', i) = Depth(ctl, i)
  <2> TAKE i \in 0 .. Len(ctl)
  <2>1. CASE i < Len(ctl)
    BY <1>1, <1>3, <1>4, <2>1
  <2>2. CASE i = Len(ctl)
    <3>1. i \in Nat \ {0} /\ i - 1 \in 0 .. Len(Outer)
      BY <1>1, <1>3, <2>2
    <3>2. Own(ctl', i - 1) = Own(ctl, i - 1) /\ Depth(ctl', i - 1) = Depth(ctl, i - 1)
      BY <1>3, <1>4, <3>1
    <3>3. ctl'[i].kind # "fn" /\ ctl[i].kind # "fn"
      BY <1>5, <2>2 DEF Top
    <3> QED BY <3>1, <3>2, <3>3, OwnStep, DepthStep
  <2> QED BY <1>1, <2>1, <2>2
<1>7. \A i \in 1 .. Len(ctl') : ctl'[i].kind = "fn" =>
        i \in 1 .. Len(ctl) /\ ctl'[i] = ctl[i] /\ i - 1 \in 0 .. Len(ctl)
  <2> TAKE i \in 1 .. Len(ctl')
  <2>1. i = Len(ctl) => ctl'[i].kind # "fn"
    BY <1>5
  <2> QED BY <1>1, <1>5, <2>1
<1>8. Framed(ctl', fns')
  <2>1. ctl'[1].kind = ctl[1].kind
    <3>1. CASE Len(ctl) = 1
      BY <1>5, <3>1 DEF Top
    <3>2. CASE Len(ctl) # 1
      BY <1>1, <1>5, <3>2
    <3> QED BY <3>1, <3>2
  <2> QED BY <1>6, <1>7, <2>1 DEF Context, Framed
<1>9. Stacked(ctl', currFn', fnStack')
  <2>1. Len(ctl) \in 0 .. Len(ctl)
    BY <1>1
  <2> QED BY <1>5, <1>6, <1>7, <2>1 DEF Context, Stacked
<1>10. Placed(ip', ctl') /\ Opened(ctl', fns', phase')
  <2>1. \A i \in 1 .. Len(ctl') : i \in 1 .. Len(ctl) /\ ctl'[i].kind = ctl[i].kind
                                  /\ ctl'[i].from = ctl[i].from
    <3>1. ctl'[Len(ctl)].kind = ctl[Len(ctl)].kind /\ ctl'[Len(ctl)].from = ctl[Len(ctl)].from
      BY <1>5 DEF Top
    <3> QED BY <1>1, <1>5, <3>1
  <2> QED BY <1>7, <2>1 DEF Context, Placed, Opened
<1>11. Shapes(ctl')
  <2>1. \A i \in 1 .. Len(ctl') : i \in 1 .. Len(ctl) - 1 \/ i = Len(ctl)
    BY <1>1, <1>5
  <2>2. \A i \in 1 .. Len(ctl) - 1 : i \in 1 .. Len(ctl)
    BY <1>1
  <2> QED BY <1>5, <2>1, <2>2 DEF Context, Shapes
<1> QED BY <1>4, <1>5, <1>6, <1>8, <1>9, <1>10, <1>11 DEF Context, T

LEMMA PoppedContext ==
  ASSUME Typed, Context, ctl # <<>>, Top.kind # "fn", ctl' = Outer, ip' # 0,
         UNCHANGED <<currFn, fnStack, fns, phase>>
  PROVE  /\ Context' /\ ctl' \in Seq(FrameT(Len(ir.fn), Len(fns)))
         /\ Len(ctl') = Len(ctl) - 1 /\ Len(ctl) - 1 \in Nat
         /\ \A i \in 1 .. Len(ctl) - 1 : ctl'[i] = ctl[i]
         /\ \A i \in 0 .. Len(ctl) - 1 : Own(ctl', i) = Own(ctl, i) /\ Depth(ctl', i) = Depth(ctl, i)
         /\ Own(ctl, Len(ctl) - 1) = Own(ctl, Len(ctl))
         /\ EmitMain \/ ctl' # <<>>
<1> DEFINE T == FrameT(Len(ir.fn), Len(fns))
<1>1. ctl \in Seq(T) /\ Len(ctl) \in Nat \ {0} /\ Len(fns) \in Nat
  BY Sizes, EmptySeq DEF Typed, StackTyped
<1> HIDE DEF T
<1>2. /\ ctl' \in Seq(T) /\ Len(ctl') = Len(ctl) - 1 /\ (ctl' # <<>> => Len(ctl') # 0)
      /\ \A i \in 1 .. Len(ctl') : ctl'[i] = ctl[i]
      /\ \A i \in 0 .. Len(ctl') : Own(ctl', i) = Own(ctl, i) /\ Depth(ctl', i) = Depth(ctl, i)
  BY <1>1, Popped DEF Outer
<1>3. /\ Own(ctl, Len(ctl)) = Own(ctl, Len(ctl) - 1) /\ Depth(ctl, Len(ctl)) = Depth(ctl, Len(ctl) - 1)
  BY <1>1, OwnStep, DepthStep DEF Top
<1>4. \A i \in 1 .. Len(ctl') : i \in 1 .. Len(ctl) /\ i - 1 \in 0 .. Len(ctl')
  BY <1>1, <1>2
<1>5. Len(ctl') \in 0 .. Len(ctl')
  BY <1>1, <1>2
<1>6. ~EmitMain => Len(ctl) # 1
  BY DEF Context, Framed, Top
<1>7. Framed(ctl', fns')
  <2>1. ctl' # <<>> => 1 \in 1 .. Len(ctl') /\ ctl'[1] = ctl[1]
    BY <1>1, <1>2
  <2> QED BY <1>2, <1>4, <2>1 DEF Context, Framed
<1>8. Stacked(ctl', currFn', fnStack')
  BY <1>2, <1>3, <1>4, <1>5 DEF Context, Stacked
<1>9. Placed(ip', ctl') /\ Opened(ctl', fns', phase') /\ Shapes(ctl')
  BY <1>2, <1>4 DEF Context, Placed, Opened, Shapes
<1>10. EmitMain \/ ctl' # <<>>
  <2>1. ctl' = <<>> => Len(ctl') = 0
    BY EmptySeq
  <2> QED BY <1>1, <1>2, <1>6, <2>1
<1> QED BY <1>1, <1>2, <1>3, <1>7, <1>8, <1>9, <1>10 DEF Context, T

(* the part that is entered, and what remains of its frame *)
LEMMA PartsLeft ==
  ASSUME Typed, Context, Pending
  PROVE  /\ ctl # <<>> /\ Top.parts # <<>> /\ Top.kind # "fn"
         /\ NextPart.hops # <<>> /\ NextPart.hops \in Seq(HopT(Len(ir.fn)))
         /\ NextPart \in PartT(Len(ir.fn))
         /\ NextPart.in = "after" <=> Len(Top.parts) = 1
         /\ NextPart.in # "after" =>
              LET fr == [Top EXCEPT !.in = NextPart.in, !.parts = Tail(@)] IN
              /\ fr \in FrameT(Len(ir.fn), Len(fns)) /\ Shaped(fr) /\ fr.parts = Tail(Top.parts)
              /\ fr.kind = Top.kind /\ fr.fn = Top.fn /\ fr.from = Top.from
<1>1. ctl # <<>> /\ Top.parts # <<>>
  BY DEF Pending
<1>2. /\ Len(ctl) \in 1 .. Len(ctl) /\ Top \in FrameT(Len(ir.fn), Len(fns))
      /\ Top.kind # "fn" /\ Len(Top.parts) \in Nat \ {0} /\ 1 \in DOMAIN Top.parts
      /\ NextPart = Top.parts[1] /\ NextPart \in PartT(Len(ir.fn))
      /\ Tail(Top.parts) \in Seq(PartT(Len(ir.fn)))
      /\ Len(Tail(Top.parts)) = Len(Top.parts) - 1
      /\ \A q \in DOMAIN Tail(Top.parts) :
           q + 1 \in DOMAIN Top.parts /\ q + 1 # 1 /\ q \in Nat
           /\ Tail(Top.parts)[q] = Top.parts[q + 1]
  BY <1>1, NextIs
<1>3. \A q \in DOMAIN Top.parts : /\ Top.parts[q].in = "after" <=> q = Len(Top.parts)
                                  /\ Top.parts[q].hops # <<>>
  BY <1>2 DEF Context, Shapes, Shaped, Top
<1>4. NextPart.hops # <<>> /\ NextPart.hops \in Seq(HopT(Len(ir.fn)))
      /\ (NextPart.in = "after" <=> Len(Top.parts) = 1)
  BY <1>2, <1>3 DEF PartT
<1>5. ASSUME NextPart.in # "after"
      PROVE  LET fr == [Top EXCEPT !.in = NextPart.in, !.parts = Tail(@)] IN
             /\ fr \in FrameT(Len(ir.fn), Len(fns)) /\ Shaped(fr) /\ fr.parts = Tail(Top.parts)
             /\ fr.kind = Top.kind /\ fr.fn = Top.fn /\ fr.from = Top.from
  <2> DEFINE fr == [Top EXCEPT !.in = NextPart.in, !.parts = Tail(@)]
  <2>1. NextPart.in \in {"stmts", "expr"}
    BY <1>2, <1>5 DEF PartT
  <2>2. /\ fr \in FrameT(Len(ir.fn), Len(fns)) /\ fr.parts = Tail(Top.parts)
        /\ fr.kind = Top.kind /\ fr.fn = Top.fn /\ fr.from = Top.from
    BY <1>2, <2>1 DEF FrameT
  <2> HIDE DEF fr
  <2>3. Tail(Top.parts) # <<>>
    <3>1. Len(Tail(Top.parts)) # 0
      BY <1>2, <1>4, <1>5
    <3> QED BY <3>1, EmptySeq
  <2>4. \A q \in DOMAIN Tail(Top.parts) : q + 1 = Len(Top.parts) <=> q = Len(Tail(Top.parts))
    BY <1>2
  <2>5. Shaped(fr)
    BY <1>2, <1>3, <2>2, <2>3, <2>4 DEF Shaped
  <2> QED BY <2>2, <2>5 DEF fr
<1> QED BY <1>1, <1>2, <1>4, <1>5

LEMMA EndPartTyped == ASSUME Typed, Context, EndPart PROVE Typed' /\ Context'
<1> DEFINE fr == [Top EXCEPT !.in = NextPart.in, !.parts = Tail(@)]
<1>1. Pending /\ NextPart.in # "after" /\ ctl' = Append(Outer, fr)
      /\ ir' = Jump(ir, NextPart.hops) /\ ip' = Landing(NextPart.hops)
      /\ loops' = loops \o NextPart.loop
      /\ UNCHANGED <<phis, labelMap, nodes, phase>> /\ UnchangedFn
  BY DEF EndPart
<1>2. /\ ctl # <<>> /\ Top.kind # "fn" /\ NextPart.hops # <<>>
      /\ NextPart.hops \in Seq(HopT(Len(ir.fn))) /\ NextPart \in PartT(Len(ir.fn))
      /\ fr \in FrameT(Len(ir.fn), Len(fns)) /\ Shaped(fr) /\ fr.kind = Top.kind
      /\ fr.from = Top.from
  BY <1>1, PartsLeft
<1> HIDE DEF fr
<1>3. Ir(ir, Len(fns)) /\ Len(ir.fn) \in Nat /\ currFn \in 0 .. Len(fns) /\ nodes \in Nat
      /\ phase \in {"walk", "done", "failed"}
  BY Sizes DEF Typed, BlocksTyped, FnsTyped
<1>4. Len(ir'.fn) = Len(ir.fn)
  <2>1. Blk(ir') = Blk(ir) /\ Ir(ir', Len(fns))
    BY <1>1, <1>2, <1>3, JumpIs
  <2>2. Len(ir'.fn) \in Nat
    BY <2>1, IrFacts
  <2> QED BY <1>3, <2>1, <2>2 DEF Blk
<1>5. BlocksTyped' /\ FnsTyped' /\ TablesTyped' /\ ip' # 0
  <2>1. Len(ir.fn) <= Len(ir.fn) /\ nodes' \in Nat /\ UNCHANGED <<phis, labelMap, phase>>
    BY <1>1, <1>3
  <2> QED BY <1>1, <1>2, <1>3, <1>4, <2>1, JumpTyped
<1>6. Context' /\ ctl' \in Seq(FrameT(Len(ir.fn), Len(fns)))
  BY <1>1, <1>2, <1>5, ReplacedContext DEF UnchangedFn
<1>7. StackTyped'
  BY <1>1, <1>4, <1>6 DEF StackTyped, UnchangedFn
<1> QED BY <1>1, <1>3, <1>5, <1>6, <1>7 DEF Typed

LEMMA EndConstructTyped == ASSUME Typed, Context, EndConstruct PROVE Typed' /\ Context'
<1> DEFINE n == Len(ir.fn)
<1>1. Pending /\ NextPart.in = "after" /\ ctl' = Outer
      /\ ir' = Jump(ir, NextPart.hops) /\ ip' = Landing(NextPart.hops)
      /\ UNCHANGED <<labelMap, nodes, phase>> /\ UnchangedFn
  BY DEF EndConstruct
<1>2. /\ ctl # <<>> /\ Top.kind # "fn" /\ NextPart.hops # <<>>
      /\ NextPart.hops \in Seq(HopT(n)) /\ NextPart \in PartT(n)
  BY <1>1, PartsLeft
<1>3. Ir(ir, Len(fns)) /\ n \in Nat /\ Len(fns) \in Nat /\ currFn \in 0 .. Len(fns) /\ nodes \in Nat
      /\ phase \in {"walk", "done", "failed"}
  BY Sizes DEF Typed, BlocksTyped, FnsTyped
<1>4. Len(ir'.fn) = n /\ Ir(ir', Len(fns))
  <2>1. Blk(ir') = Blk(ir) /\ Ir(ir', Len(fns))
    BY <1>1, <1>2, <1>3, JumpIs
  <2>2. Len(ir'.fn) \in Nat
    BY <2>1, IrFacts
  <2> QED BY <1>3, <2>1, <2>2 DEF Blk
<1>5. ip' \in 1 .. n
  BY <1>1, <1>2, <1>3, LandingIs
<1>6. ip \in 1 .. n /\ (Top.kind = "landor" => Top.from \in 1 .. n)
  <2>1. Len(ctl) \in 1 .. Len(ctl) /\ Top \in FrameT(n, Len(fns)) /\ Top = ctl[Len(ctl)]
    BY <1>2, Sizes DEF Top
  <2>2. Top.from \in 0 .. n /\ (Top.kind = "landor" => Top.from # 0)
    BY <2>1 DEF FrameT, Context, Placed
  <2>3. ip \in Block
    BY <1>2, Inside
  <2> QED BY <1>3, <2>2, <2>3 DEF Block
<1>7. phis' \subseteq PhiT(n)
  <2>1. phis \subseteq PhiT(n)
    BY DEF Typed, BlocksTyped
  <2>2. CASE Top.kind = "landor"
    <3>1. phis' = phis \cup {[at |-> ip', in |-> {Top.from, ip}]}
      BY <2>2 DEF EndConstruct, Incoming
    <3>2. {Top.from, ip} \in SUBSET (1 .. n)
      BY <1>6, <2>2
    <3>3. [at |-> ip', in |-> {Top.from, ip}] \in PhiT(n)
      BY <1>5, <3>2 DEF PhiT
    <3> QED BY <2>1, <3>1, <3>3
  <2>3. CASE Top.kind # "landor"
    BY <2>1, <2>3 DEF EndConstruct
  <2> QED BY <2>2, <2>3
<1>8. loops' \in Seq(LoopT(n))
  <2>1. loops \in Seq(LoopT(n))
    BY DEF Typed, TablesTyped
  <2>2. \A i \in 1 .. Len(loops) - 1 : loops[i] \in LoopT(n)
    BY <2>1, ElementOfSeq, LenProperties
  <2>3. SubSeq(loops, 1, Len(loops) - 1) \in Seq(LoopT(n))
    <3>1. 1 \in Int /\ Len(loops) - 1 \in Int
      BY <2>1, LenProperties
    <3> QED BY <2>2, <3>1, SubSeqProperties
  <2> QED BY <2>1, <2>3 DEF EndConstruct
<1>9. Context' /\ ctl' \in Seq(FrameT(n, Len(fns)))
  <2>1. ip' # 0 /\ UNCHANGED <<currFn, fnStack, fns, phase>>
    BY <1>1, <1>3, <1>5 DEF UnchangedFn
  <2> QED BY <1>1, <1>2, <2>1, PoppedContext
<1>10. BlocksTyped' /\ TablesTyped' /\ StackTyped'
  <2>1. labelMap \in [Label -> 0 .. n] /\ fns' = fns
    BY <1>1 DEF Typed, TablesTyped, UnchangedFn
  <2>2. BlocksTyped'
    BY <1>3, <1>4, <1>5, <1>7, <2>1 DEF BlocksTyped
  <2>3. TablesTyped' /\ StackTyped'
    BY <1>1, <1>4, <1>8, <1>9, <2>1 DEF TablesTyped, StackTyped
  <2> QED BY <2>2, <2>3
<1>11. FnsTyped'
  BY <1>1, <1>4 DEF FnsTyped, UnchangedFn, Typed
<1> QED BY <1>1, <1>3, <1>9, <1>10, <1>11 DEF Typed

(* Depth counts: it grows with the stack. *)
LEMMA DepthGrows ==
  ASSUME NEW c, NEW n \in Nat, NEW i \in 0 .. n
  PROVE  Depth(c, i) \in Nat /\ Depth(c, n) \in Nat /\ Depth(c, i) <= Depth(c, n)
<1>1. IsFiniteSet(1 .. n) /\ FnAt(c, n) \in SUBSET (1 .. n) /\ FnAt(c, i) \in SUBSET FnAt(c, n)
  BY FS_Interval DEF FnAt
<1>2. IsFiniteSet(FnAt(c, n))
  BY <1>1, FS_Subset
<1>3. IsFiniteSet(FnAt(c, i)) /\ Cardinality(FnAt(c, i)) <= Cardinality(FnAt(c, n))
  BY <1>1, <1>2, FS_Subset
<1> QED BY <1>2, <1>3, FS_CardinalityType DEF Depth

LEMMA EnterIs ==
  ASSUME Typed, NEW valued \in Valued, EnterFunction(valued)
  PROVE  LET f == Len(fns) + 1 IN
         /\ Ir(ir', f) /\ Len(ir'.fn) = Len(ir.fn) + 2 /\ Len(ir.fn) \in Nat /\ Len(fns) \in Nat
         /\ Blk(ir) \subseteq Blk(ir') /\ ip' = Len(ir.fn) + 2
         /\ \A b \in Blk(ir') : /\ ir'.fn[b] = IF b = Len(ir.fn) + 2 THEN f
                                               ELSE IF b \in Blk(ir) THEN ir.fn[b] ELSE 0
                                /\ ir'.out[b] = IF b \in Blk(ir) THEN ir.out[b] ELSE <<>>
         /\ Len(fns') = f /\ \A g \in Fn : fns'[g] = fns[g]
         /\ fns'[f] = Function(Len(ir.fn) + 2, Len(ir.fn) + 1, valued)
         /\ fns' \in Seq(FnT(Len(ir.fn) + 2))
<1> DEFINE f == Len(fns) + 1
           m == NewBlocks(2)
           a == Len(ir.fn)
           g == Function(a + 2, a + 1, valued)
<1>1. a \in Nat /\ Len(fns) \in Nat /\ 2 \in Nat /\ Ir(ir, Len(fns)) /\ Ir(ir, f) /\ f \in 0 .. f
      /\ f \in Nat
  <2>1. a \in Nat /\ Len(fns) \in Nat /\ 2 \in Nat /\ Ir(ir, Len(fns))
    BY Sizes DEF Typed, BlocksTyped
  <2>2. f \in Nat /\ Len(fns) <= f /\ f \in 0 .. f
    BY <2>1
  <2>3. ir.fn \in Seq(0 .. f)
    BY <2>1, <2>2, TypesGrow DEF Ir
  <2> QED BY <2>1, <2>2, <2>3 DEF Ir
<1>2. /\ ir' = Insert(m, a + 2, f) /\ ip' = a + 2 /\ fns' = Append(fns, g)
  BY DEF EnterFunction, New
<1> HIDE DEF m, g, f
<1>3. /\ Ir(m, f) /\ Len(m.fn) = a + 2 /\ Blk(ir) \subseteq Blk(m)
      /\ \A b \in Blk(m) : /\ m.fn[b] = IF b \in Blk(ir) THEN ir.fn[b] ELSE 0
                           /\ m.out[b] = IF b \in Blk(ir) THEN ir.out[b] ELSE <<>>
  BY <1>1, NewBlocksIs DEF m
<1>4. a + 2 \in Blk(m)
  BY <1>1, <1>3 DEF Blk
<1>5. /\ Ir(ir', f) /\ ir'.out = m.out /\ Blk(ir') = Blk(m)
      /\ \A x \in Blk(m) : ir'.fn[x] = IF x = a + 2 THEN f ELSE m.fn[x]
  BY <1>1, <1>2, <1>3, <1>4, InsertIs
<1>6. Len(ir'.fn) = a + 2
  <2>1. Len(ir'.fn) \in Nat /\ 1 .. Len(ir'.fn) = 1 .. (a + 2)
    BY <1>3, <1>5, IrFacts DEF Blk
  <2> QED BY <1>1, <2>1
<1>7. g \in FnT(a + 2)
  <2>1. valued \in BOOLEAN
    BY OptionAssumption
  <2>2. a + 1 \in 1 .. a + 2 /\ a + 2 \in 1 .. a + 2
    BY <1>1
  <2> QED BY <2>1, <2>2 DEF g, Function, FnT
<1>8. fns \in Seq(FnT(a + 2))
  <2>1. a <= a + 2 /\ a + 2 \in Nat /\ Len(fns) <= Len(fns)
    BY <1>1
  <2> QED BY <1>1, <2>1, StillTyped
<1>9. /\ fns' \in Seq(FnT(a + 2)) /\ Len(fns') = Len(fns) + 1 /\ fns'[Len(fns) + 1] = g
      /\ \A x \in 1 .. Len(fns) : fns'[x] = fns[x]
  BY <1>2, <1>7, <1>8, AppendProperties
<1> QED BY <1>1, <1>2, <1>3, <1>5, <1>6, <1>9 DEF f, g, Fn

LEMMA EnterTyped ==
  ASSUME Typed, Context, NEW valued \in Valued, EnterFunction(valued)
  PROVE  Typed' /\ Context'
<1> DEFINE f == Len(fns) + 1
           n == Len(ir.fn) + 2
           fr == FnFrame(f, ip)
<1>1. /\ Ir(ir', f) /\ Len(ir'.fn) = n /\ Len(ir.fn) \in Nat /\ Len(fns) \in Nat
      /\ ip' = n /\ Len(fns') = f /\ \A g \in Fn : fns'[g] = fns[g]
      /\ fns'[f] = Function(Len(ir.fn) + 2, Len(ir.fn) + 1, valued)
      /\ fns' \in Seq(FnT(n))
  BY EnterIs
<1>2. /\ currFn' = f /\ ctl' = Append(ctl, fr) /\ fnStack' = Append(fnStack, currFn)
      /\ withRet' = FALSE /\ UNCHANGED <<phis, labelMap, loops, phase>> /\ phase = "walk"
      /\ nodes' \in Nat
  BY DEF EnterFunction, Walking, Visit, Typed
<1>3. n \in Nat /\ f \in Nat /\ f \in 0 .. f /\ n \in 0 .. n /\ n # 0 /\ Len(ir.fn) <= n /\ Len(fns) <= f
  BY <1>1
<1>4. /\ ip \in 0 .. n /\ phis \subseteq PhiT(n) /\ currFn \in 0 .. f
      /\ fnStack \in Seq(0 .. f) /\ labelMap \in [Label -> 0 .. n]
      /\ loops \in Seq(LoopT(n)) /\ ctl \in Seq(FrameT(n, f))
  BY <1>3, StillTyped
<1>5. fr \in FrameT(n, f) /\ fr.kind = "fn" /\ fr.fn = f /\ fr.from = ip /\ fr.parts = <<>>
  <2>1. <<>> \in Seq(PartT(n))
    BY EmptySeq
  <2> QED BY <1>3, <1>4, <2>1 DEF FnFrame, FrameT
<1> HIDE DEF fr
<1>6. /\ ctl' \in Seq(FrameT(n, f)) /\ ctl' # <<>> /\ Len(ctl) \in Nat /\ Len(ctl') = Len(ctl) + 1
      /\ ctl'[Len(ctl')] = fr /\ \A i \in 1 .. Len(ctl) : ctl'[i] = ctl[i]
      /\ \A i \in 0 .. Len(ctl) : Own(ctl', i) = Own(ctl, i) /\ Depth(ctl', i) = Depth(ctl, i)
  <2> DEFINE T == FrameT(n, f)
  <2>1. ctl \in Seq(T) /\ fr \in T
    BY <1>4, <1>5
  <2> HIDE DEF T
  <2>2. /\ Append(ctl, fr) \in Seq(T) /\ Append(ctl, fr) # <<>> /\ Len(ctl) \in Nat
        /\ Len(Append(ctl, fr)) = Len(ctl) + 1 /\ Append(ctl, fr)[Len(Append(ctl, fr))] = fr
        /\ \A i \in 1 .. Len(ctl) : Append(ctl, fr)[i] = ctl[i]
        /\ \A i \in 0 .. Len(ctl) : /\ Own(Append(ctl, fr), i) = Own(ctl, i)
                                    /\ Depth(Append(ctl, fr), i) = Depth(ctl, i)
    BY <2>1, Pushed
  <2> QED BY <1>2, <2>2 DEF T
<1>7. Own(ctl', Len(ctl')) = f /\ Depth(ctl', Len(ctl')) = Depth(ctl, Len(ctl)) + 1
      /\ Own(ctl', Len(ctl') - 1) = Own(ctl, Len(ctl)) /\ Depth(ctl, Len(ctl)) \in Nat
  <2>1. Len(ctl') \in Nat \ {0} /\ Len(ctl') - 1 = Len(ctl) /\ Len(ctl) \in 0 .. Len(ctl)
    BY <1>6
  <2> QED BY <1>5, <1>6, <2>1, OwnStep, DepthStep
<1>8. /\ fnStack' \in Seq(0 .. f) /\ Len(fnStack) \in Nat /\ Len(fnStack') = Len(fnStack) + 1
      /\ fnStack'[Len(fnStack) + 1] = currFn
      /\ \A j \in 1 .. Len(fnStack) : fnStack'[j] = fnStack[j]
  BY <1>2, <1>4, Sizes, AppendProperties
<1>9. Typed'
  <2>1. BlocksTyped'
    BY <1>1, <1>2, <1>3, <1>4 DEF BlocksTyped
  <2>2. FnsTyped' /\ TablesTyped' /\ StackTyped'
    BY <1>1, <1>2, <1>3, <1>4, <1>6, <1>8 DEF FnsTyped, TablesTyped, StackTyped
  <2> QED BY <1>2, <2>1, <2>2 DEF Typed
<1>10. \A i \in 1 .. Len(ctl') : (i \in 1 .. Len(ctl) /\ i - 1 \in 0 .. Len(ctl)) \/ i = Len(ctl')
  BY <1>6
<1>11. Framed(ctl', fns')
  <2>1. Own(ctl, Len(ctl)) \in 0 .. Len(fns)
    BY <1>1, <1>6, OwnGrows DEF Context
  <2>2. ASSUME NEW i \in 1 .. Len(ctl'), ctl'[i].kind = "fn"
        PROVE  ctl'[i].fn \in 1 .. Len(fns') /\ Own(ctl', i - 1) < ctl'[i].fn /\ ctl'[i].parts = <<>>
    <3>1. CASE i \in 1 .. Len(ctl) /\ i - 1 \in 0 .. Len(ctl)
      <4>1. ctl'[i] = ctl[i] /\ Own(ctl', i - 1) = Own(ctl, i - 1)
        BY <1>6, <3>1
      <4>2. ctl[i].fn \in 1 .. Len(fns) /\ Own(ctl, i - 1) < ctl[i].fn /\ ctl[i].parts = <<>>
        BY <2>2, <3>1, <4>1 DEF Context, Framed
      <4> QED BY <1>1, <4>1, <4>2
    <3>2. CASE i = Len(ctl')
      BY <1>1, <1>3, <1>5, <1>6, <1>7, <2>1, <3>2
    <3> QED BY <1>10, <3>1, <3>2
  <2>3. ctl'[1].kind = "fn" \/ EmitMain
    <3>1. CASE ctl = <<>>
      <4>1. Len(ctl') = 1
        BY <1>6, <3>1, EmptySeq
      <4> QED BY <1>5, <1>6, <4>1
    <3>2. CASE ctl # <<>>
      BY <1>6, <3>2, Sizes DEF Context, Framed
    <3> QED BY <3>1, <3>2
  <2>4. Base <= Len(fns')
    BY <1>1 DEF Context, Framed, Base
  <2> QED BY <2>2, <2>3, <2>4 DEF Framed
<1>12. Stacked(ctl', currFn', fnStack')
  <2>1. CASE EmitMain
    BY <1>2, <1>3, <1>1, <2>1 DEF Stacked
  <2>2. CASE ~EmitMain
    <3>1. /\ currFn = Own(ctl, Len(ctl)) /\ Len(fnStack) = Depth(ctl, Len(ctl))
          /\ \A i \in 1 .. Len(ctl) :
               ctl[i].kind = "fn" => fnStack[Depth(ctl, i)] = Own(ctl, i - 1)
      BY <2>2 DEF Context, Stacked
    <3>2. ASSUME NEW i \in 1 .. Len(ctl'), ctl'[i].kind = "fn"
          PROVE  fnStack'[Depth(ctl', i)] = Own(ctl', i - 1)
      <4>1. CASE i \in 1 .. Len(ctl) /\ i - 1 \in 0 .. Len(ctl)
        <5>1. /\ ctl[i].kind = "fn" /\ Depth(ctl', i) = Depth(ctl, i)
              /\ Own(ctl', i - 1) = Own(ctl, i - 1) /\ i \in 0 .. Len(ctl) /\ i \in Nat \ {0}
          BY <1>6, <3>2, <4>1
        <5>2. Depth(ctl, i) = Depth(ctl, i - 1) + 1 /\ Depth(ctl, i - 1) \in Nat
          BY <5>1, DepthStep
        <5>3. Depth(ctl, i) <= Len(fnStack)
          BY <1>6, <3>1, <5>1, DepthGrows
        <5>4. Depth(ctl, i) \in 1 .. Len(fnStack)
          BY <1>8, <5>2, <5>3
        <5> QED BY <1>8, <3>1, <4>1, <5>1, <5>4
      <4>2. CASE i = Len(ctl')
        BY <1>7, <1>8, <3>1, <4>2
      <4> QED BY <1>10, <4>1, <4>2
    <3>3. currFn' = Own(ctl', Len(ctl')) /\ Len(fnStack') = Depth(ctl', Len(ctl'))
      BY <1>2, <1>7, <1>8, <3>1
    <3> QED BY <2>2, <3>2, <3>3 DEF Stacked
  <2> QED BY <2>1, <2>2
<1>13. Placed(ip', ctl')
  <2>1. ASSUME NEW i \in 1 .. Len(ctl'),
               ctl'[i].kind = "landor" \/ (ctl'[i].kind = "fn" /\ (EmitMain \/ i > 1))
        PROVE  ctl'[i].from # 0
    <3>1. CASE i \in 1 .. Len(ctl)
      BY <1>6, <2>1, <3>1 DEF Context, Placed
    <3>2. CASE i = Len(ctl')
      <4>1. EmitMain \/ Len(ctl) # 0
        BY <1>5, <1>6, <2>1, <3>2
      <4>2. EmitMain \/ ctl # <<>>
        BY <4>1, EmptySeq
      <4>3. ip # 0
        BY <4>2 DEF Context, Placed
      <4> QED BY <1>5, <1>6, <3>2, <4>3
    <3> QED BY <1>10, <3>1, <3>2
  <2> QED BY <1>1, <1>3, <2>1 DEF Placed
<1>14. Opened(ctl', fns', phase')
  <2>1. ASSUME NEW i \in 1 .. Len(ctl'), ctl'[i].kind = "fn"
        PROVE  fns'[ctl'[i].fn].final = "open"
    <3>1. CASE i \in 1 .. Len(ctl)
      <4>1. ctl'[i] = ctl[i] /\ ctl[i].fn \in Fn /\ fns[ctl[i].fn].final = "open"
        BY <1>2, <1>6, <2>1, <3>1 DEF Context, Framed, Opened, Fn
      <4> QED BY <1>1, <4>1
    <3>2. CASE i = Len(ctl')
      BY <1>1, <1>5, <1>6, <3>2 DEF Function
    <3> QED BY <1>10, <3>1, <3>2
  <2> QED BY <2>1 DEF Opened
<1>15. Shapes(ctl')
  BY <1>5, <1>6, <1>10 DEF Context, Shapes, Shaped
<1> QED BY <1>9, <1>11, <1>12, <1>13, <1>14, <1>15 DEF Context

(* The return block is inserted, and returns. *)
LEMMA FinishIs ==
  ASSUME Typed, NEW f \in Fn, ip \in Block
  PROVE  LET m == Finish(f)
             ret == fns[f].ret
         IN  /\ Ir(m, Len(fns)) /\ Len(m.fn) = Len(ir.fn) /\ Blk(m) = Blk(ir) /\ ret \in Blk(ir)
             /\ \A b \in Blk(ir) : /\ m.fn[b] = IF b = ret THEN f ELSE ir.fn[b]
                                   /\ b # ip /\ b # ret => m.out[b] = ir.out[b]
             /\ ip # ret => /\ m.out[ip] = Append(ir.out[ip], {ret})
                            /\ m.out[ret] = Append(ir.out[ret], {})
<1> DEFINE ret == fns[f].ret
           m1 == Branch(ir, ip, {ret})
           m2 == Insert(m1, ret, f)
           m == Branch(m2, ret, {})
<1>1. Ir(ir, Len(fns)) /\ Len(ir.fn) \in Nat /\ ip \in Blk(ir) /\ ret \in Blk(ir) /\ f \in 0 .. Len(fns)
  BY Sizes DEF Typed, BlocksTyped, FnT, Blk, Fn
<1> HIDE DEF ret
<1>2. /\ Ir(m1, Len(fns)) /\ m1.fn = ir.fn /\ Blk(m1) = Blk(ir)
      /\ \A x \in Blk(ir) : m1.out[x] = IF x = ip THEN Append(ir.out[ip], {ret}) ELSE ir.out[x]
  BY <1>1, BranchIs
<1> HIDE DEF m1
<1>3. /\ Ir(m2, Len(fns)) /\ m2.out = m1.out /\ Blk(m2) = Blk(ir)
      /\ \A x \in Blk(ir) : m2.fn[x] = IF x = ret THEN f ELSE ir.fn[x]
  BY <1>1, <1>2, InsertIs
<1> HIDE DEF m2
<1>4. /\ Ir(m, Len(fns)) /\ m.fn = m2.fn /\ Blk(m) = Blk(ir)
      /\ \A x \in Blk(ir) : m.out[x] = IF x = ret THEN Append(m2.out[ret], {}) ELSE m2.out[x]
  BY <1>1, <1>3, BranchIs
<1>5. Finish(f) = m
  BY DEF Finish, m2, m1, ret
<1> HIDE DEF m
<1>6. Len(m.fn) = Len(ir.fn)
  <2>1. Len(m.fn) \in Nat /\ 1 .. Len(m.fn) = 1 .. Len(ir.fn)
    BY <1>4, IrFacts DEF Blk
  <2> QED BY <1>1, <2>1
<1>7. \A b \in Blk(ir) : /\ m.fn[b] = IF b = ret THEN f ELSE ir.fn[b]
                         /\ b # ip /\ b # ret => m.out[b] = ir.out[b]
  BY <1>2, <1>3, <1>4
<1>8. ip # ret => /\ m.out[ip] = Append(ir.out[ip], {ret})
                  /\ m.out[ret] = Append(ir.out[ret], {})
  BY <1>1, <1>2, <1>3, <1>4
<1> QED BY <1>1, <1>4, <1>5, <1>6, <1>7, <1>8 DEF ret

(* The functions around the one that ends are other functions. *)
LEMMA OthersAround ==
  ASSUME Typed, Context, ctl # <<>>, Top.kind = "fn"
  PROVE  /\ \A i \in 1 .. Len(ctl) - 1 : ctl[i].kind = "fn" => ctl[i].fn \in Fn /\ ctl[i].fn # Top.fn
         /\ Own(ctl, Len(ctl) - 1) \in 0 .. Len(fns) /\ Own(ctl, Len(ctl) - 1) # Top.fn
         /\ Own(ctl, Len(ctl)) = Top.fn /\ Top.fn \in Fn
<1>1. /\ Len(fns) \in Nat /\ Len(ctl) \in Nat \ {0} /\ Len(ctl) \in 1 .. Len(ctl) /\ Fn = 1 .. Len(fns)
  BY Sizes
<1>2. Top.fn \in Fn /\ Own(ctl, Len(ctl) - 1) < Top.fn /\ Own(ctl, Len(ctl)) = Top.fn
  <2>1. Top.fn \in Fn /\ Own(ctl, Len(ctl) - 1) < Top.fn
    BY <1>1 DEF Context, Framed, Top
  <2>2. Own(ctl, Len(ctl)) = Top.fn
    BY <1>1, OwnStep DEF Top
  <2> QED BY <2>1, <2>2
<1>3. Own(ctl, Len(ctl) - 1) \in 0 .. Len(fns)
  <2>1. Len(ctl) - 1 \in 0 .. Len(ctl) /\ Len(ctl) \in Len(ctl) - 1 .. Len(ctl)
    BY <1>1
  <2> QED BY <1>1, <2>1, OwnGrows DEF Context
<1>4. ASSUME NEW i \in 1 .. Len(ctl) - 1, ctl[i].kind = "fn"
      PROVE  ctl[i].fn \in Fn /\ ctl[i].fn # Top.fn
  <2>1. i \in 1 .. Len(ctl) /\ i \in 0 .. Len(ctl) /\ Len(ctl) - 1 \in i .. Len(ctl)
    BY <1>1
  <2>2. Own(ctl, i) = ctl[i].fn /\ Own(ctl, i) \in 1 .. Len(fns)
    BY <1>1, <1>4, <2>1, OwnIs DEF Context
  <2>3. Own(ctl, i) <= Own(ctl, Len(ctl) - 1)
    BY <1>1, <2>1, OwnGrows DEF Context
  <2> QED BY <1>1, <1>2, <1>3, <2>2, <2>3
<1> QED BY <1>1, <1>2, <1>3, <1>4

LEMMA FinishedIs ==
  ASSUME Typed, Context, ctl # <<>>, Top.kind = "fn",
         NEW final \in {"open", "void", "slot", "default", "rejected"}
  PROVE  LET F == Finished(Top.fn, final) IN
         /\ F \in Seq(FnT(Len(ir.fn))) /\ Len(F) = Len(fns) /\ Top.fn \in Fn
         /\ \A g \in Fn : /\ F[g].entry = fns[g].entry /\ F[g].ret = fns[g].ret
                          /\ F[g].valued = fns[g].valued /\ F[g].returns = fns[g].returns
                          /\ F[g].defs = fns[g].defs /\ F[g].uses = fns[g].uses
                          /\ F[g].final = IF g = Top.fn THEN final ELSE fns[g].final
                          /\ fns[g].inner => F[g].inner
         /\ FnAt(ctl, Len(ctl) - 1) # {} => F[Own(ctl, Len(ctl) - 1)].inner
<1> DEFINE n == Len(ir.fn)
           k == Len(fns)
           F == Finished(Top.fn, final)
           Around(g) == \E i \in FnFrames : ctl[i].fn = g /\ i < Len(ctl) /\
                          \A j \in FnFrames : j <= i \/ j = Len(ctl)
<1>1. /\ n \in Nat /\ k \in Nat /\ Len(ctl) \in Nat \ {0} /\ Len(ctl) \in 1 .. Len(ctl)
      /\ Fn = 1 .. k /\ \A g \in Fn : fns[g] \in FnT(n)
  BY Sizes
<1>2. Top.fn \in Fn /\ Own(ctl, Len(ctl) - 1) < Top.fn
  BY <1>1 DEF Context, Framed, Top
<1>3. \A g \in Fn : F[g] = IF g = Top.fn THEN [fns[g] EXCEPT !.final = final]
                           ELSE IF Around(g) THEN [fns[g] EXCEPT !.inner = TRUE] ELSE fns[g]
  <2> TAKE g \in Fn
  <2>1. F[g] = CASE g = Top.fn -> [fns[g] EXCEPT !.final = final]
                 [] Around(g) -> [fns[g] EXCEPT !.inner = TRUE]
                 [] OTHER -> fns[g]
    BY DEF Finished
  <2>2. ~Around(Top.fn)
    <3>1. \A i \in 1 .. Len(ctl) - 1 : ctl[i].kind = "fn" => ctl[i].fn # Top.fn
      BY OthersAround
    <3>2. \A i \in FnFrames : i < Len(ctl) => i \in 1 .. Len(ctl) - 1 /\ ctl[i].kind = "fn"
      BY <1>1 DEF FnFrames
    <3> QED BY <3>1, <3>2
  <2> HIDE DEF F, Around
  <2>3. CASE g = Top.fn
    BY <2>1, <2>2, <2>3
  <2>4. CASE g # Top.fn /\ Around(g)
    BY <2>1, <2>4
  <2>5. CASE g # Top.fn /\ ~Around(g)
    BY <2>1, <2>5
  <2> QED BY <2>3, <2>4, <2>5
<1>4. F \in [1 .. k -> FnT(n)]
  <2>1. F = [g \in 1 .. k |-> F[g]]
    BY <1>1 DEF Finished
  <2>2. \A g \in Fn : F[g] \in FnT(n)
    <3> TAKE g \in Fn
    <3>1. fns[g] \in FnT(n)
      BY <1>1
    <3>2. F[g] = IF g = Top.fn THEN [fns[g] EXCEPT !.final = final]
                 ELSE IF Around(g) THEN [fns[g] EXCEPT !.inner = TRUE] ELSE fns[g]
      BY <1>3
    <3> HIDE DEF F, Around
    <3> QED BY <3>1, <3>2 DEF FnT
  <2> HIDE DEF F
  <2> QED BY <1>1, <2>1, <2>2
<1>5. FnAt(ctl, Len(ctl) - 1) # {} => F[Own(ctl, Len(ctl) - 1)].inner
  <2> SUFFICES ASSUME FnAt(ctl, Len(ctl) - 1) # {} PROVE F[Own(ctl, Len(ctl) - 1)].inner
    OBVIOUS
  <2> DEFINE A == FnAt(ctl, Len(ctl) - 1)
  <2>1. PICK x \in A : \A y \in A : y <= x
    <3>1. A \in SUBSET (1 .. Len(ctl) - 1) /\ Len(ctl) - 1 \in Nat
      BY <1>1 DEF FnAt
    <3> HIDE DEF A
    <3> QED BY <3>1, Greatest DEF A
  <2>2. (CHOOSE j \in A : \A y \in A : y <= j) = x
    <3>1. \A j \in A : (\A y \in A : y <= j) => j = x
      BY <2>1 DEF FnAt
    <3> HIDE DEF A
    <3> QED BY <2>1, <3>1
  <2>3. Own(ctl, Len(ctl) - 1) = ctl[x].fn
    BY <2>2 DEF Own
  <2>4. x \in 1 .. Len(ctl) - 1 /\ ctl[x].kind = "fn" /\ x \in FnFrames /\ x < Len(ctl)
    BY <1>1, <2>1 DEF FnAt, FnFrames
  <2>5. \A j \in FnFrames : j <= x \/ j = Len(ctl)
    <3> TAKE j \in FnFrames
    <3>1. j \in 1 .. Len(ctl) /\ ctl[j].kind = "fn"
      BY DEF FnFrames
    <3>2. CASE j = Len(ctl)
      BY <3>2
    <3>3. CASE j # Len(ctl)
      <4>1. j \in A
        BY <1>1, <3>1, <3>3 DEF FnAt
      <4> QED BY <2>1, <4>1
    <3> QED BY <3>2, <3>3
  <2>6. ctl[x].fn \in Fn
    BY <1>1, <2>4 DEF Context, Framed
  <2>7. Around(ctl[x].fn)
    BY <2>4, <2>5
  <2>8. ctl[x].fn # Top.fn
    BY <1>1, <1>2, <2>3, <2>6
  <2>9. F[ctl[x].fn] = [fns[ctl[x].fn] EXCEPT !.inner = TRUE]
    BY <1>3, <2>6, <2>7, <2>8
  <2> QED BY <1>1, <2>3, <2>6, <2>9 DEF FnT
<1>6. \A g \in Fn : /\ F[g].entry = fns[g].entry /\ F[g].ret = fns[g].ret
                    /\ F[g].valued = fns[g].valued /\ F[g].returns = fns[g].returns
                    /\ F[g].defs = fns[g].defs /\ F[g].uses = fns[g].uses
                    /\ F[g].final = IF g = Top.fn THEN final ELSE fns[g].final
                    /\ fns[g].inner => F[g].inner
  <2> TAKE g \in Fn
  <2>1. fns[g] \in FnT(n)
    BY <1>1
  <2>2. F[g] = IF g = Top.fn THEN [fns[g] EXCEPT !.final = final]
               ELSE IF Around(g) THEN [fns[g] EXCEPT !.inner = TRUE] ELSE fns[g]
    BY <1>3
  <2> HIDE DEF F, Around
  <2> QED BY <2>1, <2>2 DEF FnT
<1> HIDE DEF F
<1>7. F \in Seq(FnT(n)) /\ Len(F) = k
  <2> DEFINE S == FnT(n)
  <2>1. F \in [1 .. k -> S]
    BY <1>4
  <2> HIDE DEF S
  <2>2. F \in Seq(S) /\ Len(F) = k
    BY <1>1, <2>1, FunctionIsSeq
  <2> QED BY <2>2 DEF S
<1> QED BY <1>2, <1>5, <1>6, <1>7 DEF F

LEMMA LeaveTyped == ASSUME Typed, Context, LeaveFunction PROVE Typed' /\ Context'
<1> DEFINE n == Len(ir.fn)
           k == Len(fns)
           T == FrameT(n, k)
<1>1. /\ phase = "walk" /\ ctl # <<>> /\ Top.kind = "fn" /\ ir' = Finish(Top.fn) /\ ctl' = Outer
      /\ fns' = Finished(Top.fn, FinalReturn(Top.fn)) /\ ip' = RestoredBlock
      /\ UNCHANGED <<phis, withRet, labelMap, loops, nodes, phase>>
  BY DEF LeaveFunction, Walking
<1>2. /\ n \in Nat /\ k \in Nat /\ Len(ctl) \in Nat \ {0} /\ Len(ctl) \in 1 .. Len(ctl) /\ Fn = 1 .. k
      /\ Block = 1 .. n /\ Len(ctl) - 1 \in Nat
  BY <1>1, Sizes DEF Blk
<1>3. /\ ip \in Block /\ Top.fn \in Fn /\ Own(ctl, Len(ctl) - 1) \in 0 .. k
      /\ \A i \in 1 .. Len(ctl) - 1 : ctl[i].kind = "fn" => ctl[i].fn \in Fn /\ ctl[i].fn # Top.fn
  BY <1>1, Inside, OthersAround
<1>4. Ir(ir', k) /\ Len(ir'.fn) = n
  BY <1>1, <1>3, FinishIs
<1>5. FinalReturn(Top.fn) \in {"open", "void", "slot", "default", "rejected"}
  BY DEF FinalReturn
<1>6. /\ fns' \in Seq(FnT(n)) /\ Len(fns') = k
      /\ \A g \in Fn : g # Top.fn => fns'[g].final = fns[g].final
  BY <1>1, <1>5, FinishedIs
<1>7. /\ ctl' \in Seq(T) /\ Len(ctl') = Len(ctl) - 1 /\ (ctl' # <<>> => Len(ctl') # 0)
      /\ \A i \in 1 .. Len(ctl') : ctl'[i] = ctl[i]
      /\ \A i \in 0 .. Len(ctl') : Own(ctl', i) = Own(ctl, i) /\ Depth(ctl', i) = Depth(ctl, i)
  <2>1. ctl \in Seq(T)
    BY DEF Typed, StackTyped
  <2> HIDE DEF T
  <2> QED BY <1>1, <2>1, Popped DEF Outer
<1>8. ip' \in 0 .. n /\ (EmitMain \/ ctl' # <<>> => ip' # 0)
  <2>1. CASE EmitMain
    BY <1>1, <1>2, <1>3, <2>1 DEF RestoredBlock
  <2>2. CASE ~EmitMain
    <3>1. ip' = Top.from /\ Top.from \in 0 .. n
      BY <1>1, <1>2, <2>2, Sizes DEF RestoredBlock, Top, FrameT
    <3>2. ctl' # <<>> => Len(ctl) > 1
      BY <1>2, <1>7
    <3>3. Len(ctl) > 1 => Top.from # 0
      BY <1>1, <1>2 DEF Context, Placed, Top
    <3> QED BY <2>2, <3>1, <3>2, <3>3
  <2> QED BY <2>1, <2>2
<1>9. \A i \in 1 .. Len(ctl') : i \in 1 .. Len(ctl) /\ i - 1 \in 0 .. Len(ctl') /\ i \in 1 .. Len(ctl) - 1
                                /\ i \in 0 .. Len(ctl')
  BY <1>2, <1>7
<1>10. /\ Stacked(ctl', currFn', fnStack')
       /\ currFn' \in 0 .. k /\ fnStack' \in Seq(0 .. k)
  <2>1. CASE EmitMain
    <3>1. currFn' = 1 /\ fnStack' = fnStack /\ 1 \in 0 .. k
      BY <1>2, <2>1 DEF LeaveFunction, Context, Framed, Base
    <3> QED BY <2>1, <3>1 DEF Stacked, Typed, FnsTyped
  <2>2. CASE ~EmitMain
    <3> DEFINE D == Depth(ctl, Len(ctl) - 1)
    <3>1. /\ Len(fnStack) = Depth(ctl, Len(ctl))
          /\ \A i \in 1 .. Len(ctl) : ctl[i].kind = "fn" => fnStack[Depth(ctl, i)] = Own(ctl, i - 1)
      BY <2>2 DEF Context, Stacked
    <3>2. D \in Nat /\ Depth(ctl, Len(ctl)) = D + 1
      BY <1>1, <1>2, DepthStep DEF Top
    <3>3. currFn' = fnStack[Len(fnStack)] /\ fnStack' = SubSeq(fnStack, 1, Len(fnStack) - 1)
      BY <2>2 DEF LeaveFunction
    <3>4. currFn' = Own(ctl, Len(ctl) - 1)
      BY <1>1, <1>2, <3>1, <3>3 DEF Top
    <3>5. /\ fnStack' \in Seq(0 .. k) /\ Len(fnStack') = D
          /\ \A j \in 1 .. D : fnStack'[j] = fnStack[j]
      <4>1. fnStack \in Seq(0 .. k) /\ Len(fnStack) = D + 1
        BY <3>1, <3>2 DEF Typed, FnsTyped
      <4>2. fnStack # <<>>
        BY <3>2, <4>1, EmptySeq
      <4> HIDE DEF D
      <4>3. /\ SubSeq(fnStack, 1, Len(fnStack) - 1) \in Seq(0 .. k)
            /\ Len(SubSeq(fnStack, 1, Len(fnStack) - 1)) = Len(fnStack) - 1
            /\ \A i \in 1 .. Len(fnStack) - 1 : SubSeq(fnStack, 1, Len(fnStack) - 1)[i] = fnStack[i]
        BY <4>1, <4>2, OuterFacts
      <4> QED BY <3>2, <3>3, <4>1, <4>3
    <3>6. ASSUME NEW i \in 1 .. Len(ctl'), ctl'[i].kind = "fn"
          PROVE  fnStack'[Depth(ctl', i)] = Own(ctl', i - 1)
      <4>1. /\ ctl[i].kind = "fn" /\ Depth(ctl', i) = Depth(ctl, i) /\ Own(ctl', i - 1) = Own(ctl, i - 1)
        BY <1>7, <1>9, <3>6
      <4>2. Depth(ctl, i) \in Nat /\ Depth(ctl, i) <= D /\ Depth(ctl, i) # 0
        <5>1. i \in 0 .. Len(ctl) - 1 /\ i \in Nat \ {0}
          BY <1>2, <1>9
        <5>2. Depth(ctl, i) = Depth(ctl, i - 1) + 1 /\ Depth(ctl, i - 1) \in Nat
          BY <4>1, <5>1, DepthStep
        <5> QED BY <1>2, <5>1, <5>2, DepthGrows
      <4>3. Depth(ctl, i) \in 1 .. D
        BY <3>2, <4>2
      <4> QED BY <1>9, <3>1, <3>5, <4>1, <4>3
    <3>7. Own(ctl', Len(ctl')) = Own(ctl, Len(ctl) - 1) /\ Depth(ctl', Len(ctl')) = D
      <4>1. Len(ctl') = Len(ctl) - 1 /\ Len(ctl') \in 0 .. Len(ctl')
        BY <1>2, <1>7
      <4> QED BY <1>7, <4>1
    <3>8. Stacked(ctl', currFn', fnStack')
      BY <2>2, <3>4, <3>5, <3>6, <3>7 DEF Stacked
    <3> QED BY <1>3, <3>4, <3>5, <3>8
  <2> QED BY <2>1, <2>2
<1>11. Framed(ctl', fns')
  <2>1. ctl' # <<>> => 1 \in 1 .. Len(ctl') /\ ctl'[1] = ctl[1]
    BY <1>2, <1>7
  <2> QED BY <1>1, <1>6, <1>7, <1>9, <2>1 DEF Context, Framed
<1>12. Placed(ip', ctl') /\ Shapes(ctl')
  BY <1>7, <1>8, <1>9 DEF Context, Placed, Shapes
<1>13. Opened(ctl', fns', phase')
  <2> SUFFICES ASSUME NEW i \in 1 .. Len(ctl'), ctl'[i].kind = "fn"
               PROVE  /\ fns'[ctl'[i].fn].final \in {"open", "rejected"}
                      /\ phase' = "walk" => fns'[ctl'[i].fn].final = "open"
    BY DEF Opened
  <2>1. /\ i \in 1 .. Len(ctl) /\ i \in 1 .. Len(ctl) - 1
        /\ ctl'[i] = ctl[i] /\ ctl[i].kind = "fn"
    BY <1>7, <1>9
  <2>2. fns'[ctl[i].fn].final = fns[ctl[i].fn].final
    BY <1>3, <1>6, <2>1
  <2>3. /\ fns[ctl[i].fn].final \in {"open", "rejected"}
        /\ phase = "walk" => fns[ctl[i].fn].final = "open"
    BY <2>1 DEF Context, Opened
  <2> QED BY <1>1, <2>1, <2>2, <2>3
<1>14. BlocksTyped' /\ TablesTyped' /\ StackTyped' /\ FnsTyped'
  <2>1. BlocksTyped'
    BY <1>1, <1>4, <1>6, <1>8 DEF Typed, BlocksTyped
  <2>2. TablesTyped' /\ StackTyped' /\ FnsTyped'
    BY <1>1, <1>4, <1>6, <1>7, <1>10 DEF Typed, TablesTyped, StackTyped, FnsTyped
  <2> QED BY <2>1, <2>2
<1> QED BY <1>1, <1>10, <1>11, <1>12, <1>13, <1>14 DEF Typed, Context

(* one function's record changes *)
LEMMA FnUpdate ==
  ASSUME Typed, NEW n \in Nat, Len(ir.fn) <= n, NEW f \in Fn, NEW g \in FnT(n)
  PROVE  LET F == [fns EXCEPT ![f] = g] IN
         /\ F \in Seq(FnT(n)) /\ Len(F) = Len(fns)
         /\ \A h \in Fn : F[h] = IF h = f THEN g ELSE fns[h]
<1> DEFINE S == FnT(n)
<1>1. fns \in Seq(S) /\ Fn = 1 .. Len(fns) /\ g \in S
  BY Sizes, StillTyped
<1> HIDE DEF S
<1>2. LET F == [fns EXCEPT ![f] = g] IN
      /\ F \in Seq(S) /\ Len(F) = Len(fns)
      /\ \A h \in 1 .. Len(fns) : F[h] = IF h = f THEN g ELSE fns[h]
  BY <1>1, ExceptSeq
<1> QED BY <1>1, <1>2 DEF S

LEMMA FinalUpdate ==
  ASSUME Typed, NEW f \in Fn, NEW v \in {"open", "void", "slot", "default", "rejected"}
  PROVE  LET F == [fns EXCEPT ![f].final = v] IN
         /\ F \in Seq(FnT(Len(ir.fn))) /\ Len(F) = Len(fns)
         /\ \A h \in Fn : F[h] = IF h = f THEN [fns[f] EXCEPT !.final = v] ELSE fns[h]
<1> DEFINE g == [fns[f] EXCEPT !.final = v]
<1>1. fns[f] \in FnT(Len(ir.fn)) /\ Len(ir.fn) \in Nat /\ Len(ir.fn) <= Len(ir.fn)
  BY Sizes
<1>2. g \in FnT(Len(ir.fn))
  BY <1>1 DEF FnT
<1>3. [fns EXCEPT ![f].final = v] = [fns EXCEPT ![f] = g]
  OBVIOUS
<1> HIDE DEF g
<1>4. LET F == [fns EXCEPT ![f] = g] IN
      /\ F \in Seq(FnT(Len(ir.fn))) /\ Len(F) = Len(fns)
      /\ \A h \in Fn : F[h] = IF h = f THEN g ELSE fns[h]
  BY <1>1, <1>2, FnUpdate
<1> QED BY <1>3, <1>4 DEF g

LEMMA RejectTyped == ASSUME Typed, Context, RejectFunction PROVE Typed' /\ Context'
<1>1. /\ ctl # <<>> /\ Top.kind = "fn" /\ phase' = "failed"
      /\ fns' = [fns EXCEPT ![Top.fn].final = "rejected"]
      /\ UNCHANGED <<ir, phis, ip, currFn, fnStack, withRet, labelMap, loops, ctl, nodes>>
  BY DEF RejectFunction
<1>2. Top.fn \in Fn
  BY <1>1, OthersAround
<1>3. /\ fns' \in Seq(FnT(Len(ir.fn))) /\ Len(fns') = Len(fns)
      /\ \A h \in Fn : fns'[h] = IF h = Top.fn THEN [fns[Top.fn] EXCEPT !.final = "rejected"] ELSE fns[h]
  BY <1>1, <1>2, FinalUpdate
<1>4. \A h \in Fn : fns'[h].final \in {"rejected", fns[h].final}
  <2> TAKE h \in Fn
  <2>1. fns[h] \in FnT(Len(ir.fn))
    BY Sizes
  <2> QED BY <1>3, <2>1 DEF FnT
<1>5. Opened(ctl', fns', phase')
  BY <1>1, <1>4, Sizes DEF Context, Opened, Framed
<1>6. Framed(ctl', fns') /\ Stacked(ctl', currFn', fnStack') /\ Placed(ip', ctl') /\ Shapes(ctl')
  BY <1>1, <1>3 DEF Context, Framed, Stacked, Placed, Shapes
<1>7. BlocksTyped' /\ TablesTyped' /\ StackTyped' /\ FnsTyped'
  BY <1>1, <1>3 DEF Typed, BlocksTyped, TablesTyped, StackTyped, FnsTyped
<1> QED BY <1>1, <1>5, <1>6, <1>7 DEF Typed, Context

LEMMA EndUnitTyped == ASSUME Typed, Context, EndUnit PROVE Typed' /\ Context'
<1>1. /\ ctl = <<>> /\ phase' = "done"
      /\ ir' = (IF EmitMain THEN Finish(1) ELSE ir)
      /\ fns' = (IF EmitMain THEN [fns EXCEPT ![1].final = "slot"] ELSE fns)
      /\ UNCHANGED <<phis, ip, currFn, fnStack, withRet, labelMap, loops, ctl, nodes>>
  BY DEF EndUnit
<1>2. Ir(ir', Len(fns)) /\ Len(ir'.fn) = Len(ir.fn)
  <2>1. CASE EmitMain
    <3>1. 1 \in Fn /\ ip \in Block
      BY <2>1, Inside, Sizes DEF Context, Framed, Base
    <3> QED BY <1>1, <2>1, <3>1, FinishIs
  <2>2. CASE ~EmitMain
    BY <1>1, <2>2 DEF Typed, BlocksTyped
  <2> QED BY <2>1, <2>2
<1>3. fns' \in Seq(FnT(Len(ir.fn))) /\ Len(fns') = Len(fns)
  <2>1. CASE EmitMain
    <3>1. 1 \in Fn
      BY <2>1, Sizes DEF Context, Framed, Base
    <3> QED BY <1>1, <2>1, <3>1, FinalUpdate
  <2>2. CASE ~EmitMain
    BY <1>1, <2>2 DEF Typed, FnsTyped
  <2> QED BY <2>1, <2>2
<1>4. Len(ctl') = 0
  BY <1>1, EmptySeq
<1>5. Context'
  BY <1>1, <1>3, <1>4 DEF Context, Framed, Stacked, Placed, Opened, Shapes
<1>6. BlocksTyped' /\ TablesTyped' /\ StackTyped' /\ FnsTyped'
  BY <1>1, <1>2, <1>3 DEF Typed, BlocksTyped, TablesTyped, StackTyped, FnsTyped
<1> QED BY <1>1, <1>5, <1>6 DEF Typed

(***************************************************************************)
(* break, continue, return, goto and a label divert control.               *)
(***************************************************************************)
Diverting == Break \/ Continue \/ Return \/ \E l \in Label : Goto(l) \/ DefineLabel(l)

LEMMA LoopOnTop ==
  ASSUME Typed, loops # <<>>
  PROVE  InnermostLoop \in LoopT(Len(ir.fn))
<1>1. Len(loops) \in 1 .. Len(loops) /\ loops \in Seq(LoopT(Len(ir.fn)))
  <2>1. loops \in Seq(LoopT(Len(ir.fn)))
    BY DEF Typed, TablesTyped
  <2>2. Len(loops) \in Nat \ {0}
    BY <2>1, EmptySeq
  <2> QED BY <2>1, <2>2
<1> QED BY <1>1, ElementOfSeq DEF InnermostLoop

LEMMA BreakDiverts ==
  ASSUME Typed, Context, Break \/ Continue
  PROVE  \E t \in {InnermostLoop.out, InnermostLoop.cond} : Diverts(1, {t}, New(1))
<1>1. Statement /\ loops # <<>>
  BY DEF Break, Continue, InLoop
<1>2. Len(ir.fn) \in Nat /\ InnermostLoop \in LoopT(Len(ir.fn))
  BY <1>1, Sizes, LoopOnTop
<1>3. /\ New(1) = Len(ir.fn) + 1 /\ New(1) \in 1 .. Len(ir.fn) + 1 /\ New(1) \notin Block
      /\ {InnermostLoop.out} \subseteq 1 .. Len(ir.fn) + 1
      /\ {InnermostLoop.cond} \subseteq 1 .. Len(ir.fn) + 1
  BY <1>2 DEF LoopT, New, Block
<1>4. /\ withRet \in BOOLEAN /\ labelMap \in [Label -> 0 .. Len(ir.fn) + 1]
      /\ fns \in Seq(FnT(Len(ir.fn) + 1))
  BY <1>2, Sizes, StillTyped DEF Typed, FnsTyped
<1>5. Break => Diverts(1, {InnermostLoop.out}, New(1))
  BY <1>1, <1>3, <1>4 DEF Break, Diverts, SameFns, UnchangedFn
<1>6. Continue => Diverts(1, {InnermostLoop.cond}, New(1))
  BY <1>1, <1>3, <1>4 DEF Continue, Diverts, SameFns, UnchangedFn
<1> QED BY <1>5, <1>6

LEMMA ReturnDiverts ==
  ASSUME Typed, Context, Return
  PROVE  /\ Diverts(1, {fns[currFn].ret}, New(1)) /\ currFn \in Fn /\ Enclosing \in Fn
         /\ \A h \in Fn : fns'[h] = IF h = Enclosing THEN [fns[h] EXCEPT !.returns = TRUE] ELSE fns[h]
<1> DEFINE n == Len(ir.fn) + 1
           g == [fns[Enclosing] EXCEPT !.returns = TRUE]
<1>1. Statement /\ (EmitMain \/ ctl # <<>>)
  BY DEF Return, Statement, StatementPlace
<1>2. /\ currFn \in Fn /\ Enclosing \in Fn /\ Len(ir.fn) \in Nat /\ Len(fns) \in Nat
      /\ fns[currFn] \in FnT(Len(ir.fn)) /\ fns[Enclosing] \in FnT(Len(ir.fn))
      /\ Len(ir.fn) <= n /\ n \in Nat
  BY <1>1, Inside, Sizes
<1>3. /\ New(1) = n /\ New(1) \in 1 .. n /\ New(1) \notin Block
      /\ {fns[currFn].ret} \subseteq 1 .. n
  BY <1>2 DEF FnT, New, Block
<1>4. withRet' = TRUE /\ labelMap \in [Label -> 0 .. n] /\ labelMap' = labelMap
  BY <1>2, StillTyped DEF Return
<1>5. g \in FnT(n)
  <2>1. g \in FnT(Len(ir.fn))
    BY <1>2 DEF FnT
  <2> QED BY <1>2, <2>1, TypesGrow
<1>6. fns' = [fns EXCEPT ![Enclosing] = g]
  BY DEF Return
<1> HIDE DEF g, n
<1>7. /\ fns' \in Seq(FnT(n)) /\ Len(fns') = Len(fns)
      /\ \A h \in Fn : fns'[h] = IF h = Enclosing THEN g ELSE fns[h]
  BY <1>2, <1>5, <1>6, FnUpdate
<1>8. \A h \in Fn : fns'[h] = IF h = Enclosing THEN [fns[h] EXCEPT !.returns = TRUE] ELSE fns[h]
  BY <1>7 DEF g
<1>9. SameFns
  <2>1. \A h \in Fn : /\ fns'[h].entry = fns[h].entry /\ fns'[h].ret = fns[h].ret
                      /\ fns'[h].valued = fns[h].valued /\ fns'[h].final = fns[h].final
                      /\ fns'[h].inner = fns[h].inner
    <3> TAKE h \in Fn
    <3>1. fns[h] \in FnT(Len(ir.fn))
      BY Sizes
    <3> QED BY <1>8, <3>1 DEF FnT
  <2> QED BY <1>7, <2>1 DEF SameFns
<1> QED BY <1>1, <1>2, <1>3, <1>4, <1>7, <1>8, <1>9 DEF Return, Diverts, n

LEMMA GotoDiverts ==
  ASSUME Typed, Context, NEW l \in Label, Goto(l)
  PROVE  LET b == IF labelMap[l] # 0 THEN labelMap[l] ELSE New(1)
             n == IF labelMap[l] # 0 THEN 1 ELSE 2
         IN  /\ Diverts(n, {b}, New(n)) /\ labelMap' = [labelMap EXCEPT ![l] = b]
             /\ Enclosing \in Fn
             /\ \A h \in Fn : fns'[h] = IF h = Enclosing THEN [fns[h] EXCEPT !.uses = @ \cup {l}] ELSE fns[h]
<1> DEFINE b == IF labelMap[l] # 0 THEN labelMap[l] ELSE New(1)
           n == IF labelMap[l] # 0 THEN 1 ELSE 2
           m == Len(ir.fn) + n
           g == [fns[Enclosing] EXCEPT !.uses = @ \cup {l}]
<1>1. Statement /\ (EmitMain \/ ctl # <<>>) /\ Divert(NewBlocks(n), {b}, New(n))
      /\ labelMap' = [labelMap EXCEPT ![l] = b] /\ fns' = [fns EXCEPT ![Enclosing] = g]
      /\ UNCHANGED <<phis, currFn, fnStack, withRet, loops, ctl>>
  BY DEF Goto, Statement, StatementPlace
<1>2. /\ Enclosing \in Fn /\ Len(ir.fn) \in Nat /\ Len(fns) \in Nat
      /\ fns[Enclosing] \in FnT(Len(ir.fn)) /\ labelMap \in [Label -> 0 .. Len(ir.fn)]
      /\ withRet \in BOOLEAN
  BY <1>1, Inside, Sizes DEF Typed, TablesTyped, FnsTyped
<1>3. /\ n \in Nat /\ m \in Nat /\ Len(ir.fn) <= m /\ New(n) = m /\ New(n) \in 1 .. m
      /\ New(n) \notin Block /\ b \in 1 .. m
  <2>1. CASE labelMap[l] # 0
    <3>1. n = 1 /\ b = labelMap[l] /\ labelMap[l] \in 0 .. Len(ir.fn)
      BY <1>2, <2>1
    <3> HIDE DEF n, b
    <3> QED BY <1>2, <2>1, <3>1 DEF New, Block
  <2>2. CASE labelMap[l] = 0
    <3>1. n = 2 /\ b = New(1)
      BY <2>2
    <3> HIDE DEF n, b
    <3> QED BY <1>2, <3>1 DEF New, Block
  <2> QED BY <2>1, <2>2
<1>4. g \in FnT(m)
  <2>1. g \in FnT(Len(ir.fn))
    BY <1>2 DEF FnT
  <2> HIDE DEF g, m
  <2> QED BY <1>2, <1>3, <2>1, TypesGrow
<1> HIDE DEF g, m, n, b
<1>5. /\ fns' \in Seq(FnT(m)) /\ Len(fns') = Len(fns)
      /\ \A h \in Fn : fns'[h] = IF h = Enclosing THEN g ELSE fns[h]
  BY <1>1, <1>2, <1>3, <1>4, FnUpdate
<1>6. \A h \in Fn : fns'[h] = IF h = Enclosing THEN [fns[h] EXCEPT !.uses = @ \cup {l}] ELSE fns[h]
  BY <1>5 DEF g
<1>7. SameFns
  <2>1. \A h \in Fn : /\ fns'[h].entry = fns[h].entry /\ fns'[h].ret = fns[h].ret
                      /\ fns'[h].valued = fns[h].valued /\ fns'[h].final = fns[h].final
                      /\ fns'[h].inner = fns[h].inner
    <3> TAKE h \in Fn
    <3>1. fns[h] \in FnT(Len(ir.fn))
      BY Sizes
    <3> QED BY <1>6, <3>1 DEF FnT
  <2> QED BY <1>5, <2>1 DEF SameFns
<1>8. labelMap' \in [Label -> 0 .. m]
  BY <1>1, <1>2, <1>3
<1>9. Diverts(n, {b}, New(n))
  BY <1>1, <1>2, <1>3, <1>5, <1>7, <1>8 DEF Diverts, m
<1> QED BY <1>1, <1>2, <1>6, <1>9 DEF n, b

LEMMA LabelDiverts ==
  ASSUME Typed, Context, NEW l \in Label, DefineLabel(l)
  PROVE  LET b == IF labelMap[l] # 0 THEN labelMap[l] ELSE New(1)
             n == IF labelMap[l] # 0 THEN 0 ELSE 1
         IN  /\ Diverts(n, {b}, b) /\ labelMap' = [labelMap EXCEPT ![l] = b]
             /\ Enclosing \in Fn
             /\ \A h \in Fn : fns'[h] = IF h = Enclosing THEN [fns[h] EXCEPT !.defs = @ \cup {l}] ELSE fns[h]
<1> DEFINE b == IF labelMap[l] # 0 THEN labelMap[l] ELSE New(1)
           n == IF labelMap[l] # 0 THEN 0 ELSE 1
           m == Len(ir.fn) + n
           g == [fns[Enclosing] EXCEPT !.defs = @ \cup {l}]
<1>1. Statement /\ (EmitMain \/ ctl # <<>>) /\ Divert(NewBlocks(n), {b}, b)
      /\ labelMap' = [labelMap EXCEPT ![l] = b] /\ fns' = [fns EXCEPT ![Enclosing] = g]
      /\ UNCHANGED <<phis, currFn, fnStack, withRet, loops, ctl>>
      /\ (b \in Block => ir.fn[b] = 0)
  BY DEF DefineLabel, Statement, StatementPlace
<1>2. /\ Enclosing \in Fn /\ Len(ir.fn) \in Nat /\ Len(fns) \in Nat
      /\ fns[Enclosing] \in FnT(Len(ir.fn)) /\ labelMap \in [Label -> 0 .. Len(ir.fn)]
      /\ withRet \in BOOLEAN
  BY <1>1, Inside, Sizes DEF Typed, TablesTyped, FnsTyped
<1>3. n \in Nat /\ m \in Nat /\ Len(ir.fn) <= m /\ b \in 1 .. m
  <2>1. CASE labelMap[l] # 0
    <3>1. n = 0 /\ b = labelMap[l] /\ labelMap[l] \in 0 .. Len(ir.fn)
      BY <1>2, <2>1
    <3> HIDE DEF n, b
    <3> QED BY <1>2, <2>1, <3>1
  <2>2. CASE labelMap[l] = 0
    <3>1. n = 1 /\ b = New(1)
      BY <2>2
    <3> HIDE DEF n, b
    <3> QED BY <1>2, <3>1 DEF New
  <2> QED BY <2>1, <2>2
<1>4. g \in FnT(m)
  <2>1. g \in FnT(Len(ir.fn))
    BY <1>2 DEF FnT
  <2> HIDE DEF g, m
  <2> QED BY <1>2, <1>3, <2>1, TypesGrow
<1> HIDE DEF g, m, n, b
<1>5. /\ fns' \in Seq(FnT(m)) /\ Len(fns') = Len(fns)
      /\ \A h \in Fn : fns'[h] = IF h = Enclosing THEN g ELSE fns[h]
  BY <1>1, <1>2, <1>3, <1>4, FnUpdate
<1>6. \A h \in Fn : fns'[h] = IF h = Enclosing THEN [fns[h] EXCEPT !.defs = @ \cup {l}] ELSE fns[h]
  BY <1>5 DEF g
<1>7. SameFns
  <2>1. \A h \in Fn : /\ fns'[h].entry = fns[h].entry /\ fns'[h].ret = fns[h].ret
                      /\ fns'[h].valued = fns[h].valued /\ fns'[h].final = fns[h].final
                      /\ fns'[h].inner = fns[h].inner
    <3> TAKE h \in Fn
    <3>1. fns[h] \in FnT(Len(ir.fn))
      BY Sizes
    <3> QED BY <1>6, <3>1 DEF FnT
  <2> QED BY <1>5, <2>1 DEF SameFns
<1>8. labelMap' \in [Label -> 0 .. m]
  BY <1>1, <1>2, <1>3
<1>9. Diverts(n, {b}, b)
  BY <1>1, <1>2, <1>3, <1>5, <1>7, <1>8 DEF Diverts, m
<1> QED BY <1>1, <1>2, <1>6, <1>9 DEF n, b

LEMMA DivertingTyped ==
  ASSUME Typed, Context, Diverting
  PROVE  Typed' /\ Context' /\ \E n, targets, extra : Diverts(n, targets, extra)
<1>1. \E n, targets, extra : Diverts(n, targets, extra)
  <2>1. CASE Break \/ Continue
    <3>1. PICK t \in {InnermostLoop.out, InnermostLoop.cond} : Diverts(1, {t}, New(1))
      BY <2>1, BreakDiverts
    <3> QED BY <3>1
  <2>2. CASE Return
    <3>1. Diverts(1, {fns[currFn].ret}, New(1))
      BY <2>2, ReturnDiverts
    <3> QED BY <3>1
  <2>3. ASSUME NEW l \in Label, Goto(l) PROVE \E n, targets, extra : Diverts(n, targets, extra)
    <3>1. \E b, n : Diverts(n, {b}, New(n))
      BY <2>3, GotoDiverts
    <3> QED BY <3>1
  <2>4. ASSUME NEW l \in Label, DefineLabel(l) PROVE \E n, targets, extra : Diverts(n, targets, extra)
    <3>1. \E b, n : Diverts(n, {b}, b)
      BY <2>4, LabelDiverts
    <3> QED BY <3>1
  <2> QED BY <2>1, <2>2, <2>3, <2>4 DEF Diverting
<1>2. PICK n, targets, extra : Diverts(n, targets, extra)
  BY <1>1
<1> QED BY <1>1, <1>2, DivertTyped

(***************************************************************************)
(* The types, whatever the constants.                                      *)
(***************************************************************************)
LEMMA TypedInit == Init => Typed /\ Context
<1> SUFFICES ASSUME Init PROVE Typed /\ Context
  OBVIOUS
<1>1. ctl = <<>> /\ Len(ctl) = 0 /\ ctl \in Seq(FrameT(Len(ir.fn), Len(fns)))
      /\ loops = <<>> /\ loops \in Seq(LoopT(Len(ir.fn))) /\ fnStack = <<>>
      /\ fnStack \in Seq(0 .. Len(fns))
  BY EmptySeq DEF Init
<1>2. CASE EmitMain
  <2>1. ir = [fn |-> <<1, 0>>, out |-> << <<>>, <<>> >>] /\ fns = <<Function(1, 2, TRUE)>>
        /\ ip = 1 /\ currFn = 1 /\ phis = {} /\ withRet = FALSE /\ labelMap = [l \in Label |-> 0]
        /\ nodes = 0 /\ phase = "walk"
    BY <1>2 DEF Init
  <2>2. Len(ir.fn) = 2 /\ Len(fns) = 1 /\ Blk(ir) = 1 .. 2
    BY <2>1 DEF Blk
  <2>3. Ir(ir, 1)
    <3>1. <<1, 0>> \in Seq(0 .. 1) /\ ir.fn = <<1, 0>>
      BY <2>1
    <3>2. << <<>>, <<>> >> \in Seq(Seq(SUBSET (1 .. 2)))
      <4>1. <<>> \in Seq(SUBSET (1 .. 2))
        BY EmptySeq
      <4> DEFINE S == Seq(SUBSET (1 .. 2))
      <4> HIDE DEF S
      <4>2. \A x \in S : <<x, x>> \in Seq(S)
        OBVIOUS
      <4> QED BY <4>1, <4>2 DEF S
    <3>3. Len(ir.out) = 2
      BY <2>1
    <3> QED BY <2>1, <2>2, <3>1, <3>2, <3>3 DEF Ir
  <2>4. fns \in Seq(FnT(2))
    <3>1. Function(1, 2, TRUE) \in FnT(2)
      BY DEF Function, FnT
    <3> DEFINE S == FnT(2)
    <3> HIDE DEF S
    <3>2. \A x \in S : <<x>> \in Seq(S)
      OBVIOUS
    <3> QED BY <2>1, <3>1, <3>2 DEF S
  <2>5. Typed
    <3>1. BlocksTyped
      BY <2>1, <2>2, <2>3 DEF BlocksTyped
    <3>0. withRet \in BOOLEAN
      BY <2>1
    <3>2. FnsTyped
      <4>1. currFn \in 0 .. Len(fns)
        <5>1. Len(fns) \in Nat /\ (currFn = Len(fns))
          BY <2>1, <2>2
        <5> QED BY <5>1
      <4>2. fns \in Seq(FnT(Len(ir.fn)))
        BY <2>2, <2>4
      <4> QED BY <1>1, <3>0, <4>1, <4>2 DEF FnsTyped
    <3>3. TablesTyped /\ StackTyped
      BY <1>1, <2>1, <2>2 DEF TablesTyped, StackTyped
    <3> QED BY <2>1, <3>1, <3>2, <3>3 DEF Typed
  <2>6. Context
    BY <1>1, <1>2, <2>1, <2>2 DEF Context, Framed, Stacked, Placed, Opened, Shapes, Base
  <2> QED BY <2>5, <2>6
<1>3. CASE ~EmitMain
  <2>1. ir = [fn |-> <<>>, out |-> <<>>] /\ fns = <<>>
        /\ ip = 0 /\ currFn = 0 /\ phis = {} /\ withRet = FALSE /\ labelMap = [l \in Label |-> 0]
        /\ nodes = 0 /\ phase = "walk"
    BY <1>3 DEF Init
  <2>2. Len(ir.fn) = 0 /\ Len(fns) = 0
    BY <2>1, EmptySeq
  <2>3. Ir(ir, 0)
    <3>1. <<>> \in Seq(0 .. 0) /\ <<>> \in Seq(Seq(SUBSET Blk(ir)))
      BY EmptySeq
    <3> QED BY <2>1, <3>1 DEF Ir
  <2>4. fns \in Seq(FnT(0))
    BY <2>1, EmptySeq
  <2>5. Typed
    <3>1. BlocksTyped
      BY <2>1, <2>2, <2>3 DEF BlocksTyped
    <3>0. withRet \in BOOLEAN
      BY <2>1
    <3>2. FnsTyped
      <4>1. currFn \in 0 .. Len(fns)
        <5>1. Len(fns) \in Nat /\ (currFn = Len(fns))
          BY <2>1, <2>2
        <5> QED BY <5>1
      <4>2. fns \in Seq(FnT(Len(ir.fn)))
        BY <2>2, <2>4
      <4> QED BY <1>1, <3>0, <4>1, <4>2 DEF FnsTyped
    <3>3. TablesTyped /\ StackTyped
      BY <1>1, <2>1, <2>2 DEF TablesTyped, StackTyped
    <3> QED BY <2>1, <3>1, <3>2, <3>3 DEF Typed
  <2>6. Own(ctl, Len(ctl)) = 0 /\ Depth(ctl, Len(ctl)) = 0
    BY <1>1, <1>3, OwnZero DEF Base
  <2>7. Context
    BY <1>1, <1>3, <2>1, <2>2, <2>6 DEF Context, Framed, Stacked, Placed, Opened, Shapes, Base
  <2> QED BY <2>5, <2>7
<1> QED BY <1>2, <1>3

LEMMA TypedStutters == Typed /\ Context /\ UNCHANGED vars => Typed' /\ Context'
<1> SUFFICES ASSUME Typed, Context, UNCHANGED vars PROVE Typed' /\ Context'
  OBVIOUS
<1>1. UNCHANGED <<ir, phis, ip, currFn, fnStack, withRet, labelMap, loops, fns, ctl, nodes, phase>>
  BY DEF vars
<1> QED BY <1>1 DEF Typed, Context, BlocksTyped, FnsTyped, TablesTyped, StackTyped

LEMMA StepKinds ==
  ASSUME Typed, Next
  PROVE  \/ Diverting \/ Beginning \/ EndPart \/ EndConstruct
         \/ \E valued \in Valued : EnterFunction(valued)
         \/ LeaveFunction \/ RejectFunction \/ EndUnit
<1>1. (\/ BeginLoop \/ BeginWhile \/ BeginFor \/ BeginIfe \/ BeginLandOr
       \/ \E n \in 1 .. MaxConds, else \in BOOLEAN : BeginIf(n, else)) => Beginning
  BY HeadsBegin
<1> QED BY <1>1 DEF Next, Structure, Diverting

LEMMA TypedStep ==
  ASSUME Typed, Context, [Next]_vars
  PROVE  Typed' /\ Context'
<1>1. CASE Diverting
  BY <1>1, DivertingTyped
<1>2. CASE Beginning
  BY <1>2, BeginsTyped DEF Beginning
<1>3. CASE EndPart
  BY <1>3, EndPartTyped
<1>4. CASE EndConstruct
  BY <1>4, EndConstructTyped
<1>5. ASSUME NEW valued \in Valued, EnterFunction(valued) PROVE Typed' /\ Context'
  BY <1>5, EnterTyped
<1>6. CASE LeaveFunction
  BY <1>6, LeaveTyped
<1>7. CASE RejectFunction
  BY <1>7, RejectTyped
<1>8. CASE EndUnit
  BY <1>8, EndUnitTyped
<1>9. CASE UNCHANGED vars
  BY <1>9, TypedStutters
<1> QED BY <1>1, <1>2, <1>3, <1>4, <1>5, <1>6, <1>7, <1>8, <1>9, StepKinds

(* Every block, function, frame and table entry the walk keeps names blocks *)
(* and functions that exist; no lookup in fns, fnStack or loops falls out   *)
(* of bounds (IR_generator.cpp: curr_fn_stack.back(), g_loop_controls).     *)
THEOREM TypeCorrect == Spec => []TypeOK
<1>1. Init => Typed /\ Context
  BY TypedInit
<1>2. Typed /\ Context /\ [Next]_vars => (Typed /\ Context)'
  BY TypedStep
<1>3. Typed /\ Context => TypeOK
  BY TypedIs
<1> QED BY <1>1, <1>2, <1>3, PTL DEF Spec

(***************************************************************************)
(* g_with_ret_value is of the function being walked, as long as it has no  *)
(* function inside it.                                                     *)
(***************************************************************************)
FlagOfFunction ==
  LET f == Own(ctl, Len(ctl)) IN
  phase = "walk" /\ f # Base /\ ~fns[f].inner => (withRet <=> fns[f].returns)

RightlyFinished(f) ==
  fns[f].valued /\ ~fns[f].inner /\ (EmitMain => f # 1) =>
    /\ fns[f].final = "slot" => fns[f].returns
    /\ fns[f].final \in {"rejected", "default"} => ~fns[f].returns

Flagged == FlagOfFunction /\ \A f \in Fn : RightlyFinished(f)

(* A step that keeps the flag, and what the functions contain. *)
SameFlags ==
  /\ Own(ctl', Len(ctl')) = Own(ctl, Len(ctl)) /\ Len(fns') = Len(fns)
  /\ UNCHANGED <<withRet, phase>>
  /\ \A f \in Fn : /\ fns'[f].inner = fns[f].inner /\ fns'[f].valued = fns[f].valued
                   /\ fns'[f].final = fns[f].final /\ fns'[f].returns = fns[f].returns

LEMMA OwnRange ==
  ASSUME Typed, Context
  PROVE  /\ Own(ctl, Len(ctl)) \in 0 .. Len(fns) /\ Own(ctl, Len(ctl)) >= Base
         /\ Base \in {0, 1} /\ (EmitMain => Base = 1) /\ (~EmitMain => Base = 0)
         /\ Own(ctl, Len(ctl)) # Base =>
              Own(ctl, Len(ctl)) \in Fn /\ (EmitMain => Own(ctl, Len(ctl)) # 1)
         /\ ctl # <<>> /\ Top.kind = "fn" => Top.fn # Base
<1>1. Len(ctl) \in Nat /\ Len(fns) \in Nat /\ 0 \in 0 .. Len(ctl) /\ Len(ctl) \in 0 .. Len(ctl)
      /\ Framed(ctl, fns) /\ Fn = 1 .. Len(fns)
  BY Sizes DEF Context
<1>2. /\ Own(ctl, 0) <= Own(ctl, Len(ctl)) /\ Own(ctl, Len(ctl)) \in 0 .. Len(fns)
      /\ Own(ctl, 0) = Base
  BY <1>1, OwnGrows, OwnZero
<1>3. Base \in {0, 1} /\ (EmitMain => Base = 1) /\ (~EmitMain => Base = 0)
  BY DEF Base
<1>4. ASSUME ctl # <<>>, Top.kind = "fn" PROVE Top.fn # Base
  <2>1. Len(ctl) \in 1 .. Len(ctl) /\ Len(ctl) - 1 \in 0 .. Len(ctl)
    BY <1>1, <1>4, Sizes
  <2>2. Own(ctl, Len(ctl) - 1) < Top.fn /\ Top.fn \in 1 .. Len(fns)
    BY <1>1, <1>4, <2>1 DEF Framed, Top
  <2>3. Own(ctl, 0) <= Own(ctl, Len(ctl) - 1) /\ Own(ctl, Len(ctl) - 1) \in 0 .. Len(fns)
    BY <1>1, <2>1, OwnGrows
  <2> QED BY <1>2, <1>3, <2>2, <2>3
<1> QED BY <1>1, <1>2, <1>3, <1>4

LEMMA FlagsStay == ASSUME Typed, Context, Flagged, SameFlags PROVE Flagged'
<1>1. Own(ctl, Len(ctl)) # Base => Own(ctl, Len(ctl)) \in Fn
  BY OwnRange
<1>2. Fn' = Fn
  BY DEF SameFlags, Fn
<1>3. FlagOfFunction'
  BY <1>1 DEF Flagged, FlagOfFunction, SameFlags
<1>4. \A f \in Fn : RightlyFinished(f)'
  BY DEF Flagged, RightlyFinished, SameFlags
<1> QED BY <1>2, <1>3, <1>4 DEF Flagged

LEMMA OwnOfConstruct ==
  ASSUME Typed, Context, Beginning \/ EndPart \/ EndConstruct
  PROVE  Own(ctl', Len(ctl')) = Own(ctl, Len(ctl))
<1>1. ASSUME Beginning PROVE Own(ctl', Len(ctl')) = Own(ctl, Len(ctl))
  <2>1. PICK kind, n, parts, from : Begins(kind, n, parts, from)
    BY <1>1 DEF Beginning
  <2> DEFINE fr == Frame(kind, parts[1].in, Tail(parts), from)
  <2>2. ctl' = Append(ctl, fr) /\ fr.kind # "fn"
    BY <2>1 DEF Begins, Begin, Frame, Kinds
  <2>3. ctl' \in Seq(FrameT(Len(ir'.fn), Len(fns')))
    BY <2>1, BeginsTyped DEF Typed, StackTyped
  <2> HIDE DEF fr
  <2> DEFINE S == {ctl[i] : i \in 1 .. Len(ctl)} \cup {fr}
  <2>4. ctl \in Seq(S) /\ fr \in S
    <3>1. ctl \in [1 .. Len(ctl) -> S] /\ Len(ctl) \in Nat
      <4>1. DOMAIN ctl = 1 .. Len(ctl) /\ ctl = [i \in DOMAIN ctl |-> ctl[i]] /\ Len(ctl) \in Nat
        BY LenProperties DEF Typed, StackTyped
      <4> QED BY <4>1
    <3> HIDE DEF S
    <3>2. ctl \in Seq(S)
      BY <3>1, FunctionIsSeq
    <3> QED BY <3>2 DEF S
  <2> HIDE DEF S
  <2>5. /\ Len(ctl) \in Nat /\ Len(ctl') = Len(ctl) + 1 /\ ctl'[Len(ctl')] = fr
        /\ \A i \in 0 .. Len(ctl) : Own(ctl', i) = Own(ctl, i)
    BY <2>2, <2>4, Pushed
  <2>6. Len(ctl') \in Nat \ {0} /\ Len(ctl') - 1 = Len(ctl) /\ Len(ctl) \in 0 .. Len(ctl)
    BY <2>5
  <2> QED BY <2>2, <2>5, <2>6, OwnStep
<1>2. ASSUME EndPart PROVE Own(ctl', Len(ctl')) = Own(ctl, Len(ctl))
  <2> DEFINE fr == [Top EXCEPT !.in = NextPart.in, !.parts = Tail(@)]
  <2>1. Pending /\ NextPart.in # "after" /\ ctl' = Append(Outer, fr) /\ ip' = Landing(NextPart.hops)
        /\ UNCHANGED <<currFn, fnStack, fns, phase>>
    BY <1>2 DEF EndPart, UnchangedFn
  <2>2. /\ ctl # <<>> /\ Top.kind # "fn" /\ NextPart.hops # <<>>
        /\ NextPart.hops \in Seq(HopT(Len(ir.fn)))
        /\ fr \in FrameT(Len(ir.fn), Len(fns)) /\ Shaped(fr) /\ fr.kind = Top.kind
        /\ fr.from = Top.from
    BY <2>1, PartsLeft
  <2> HIDE DEF fr
  <2>3. ip' # 0 /\ Len(ctl) \in 0 .. Len(ctl)
    <3>1. Len(ir.fn) \in Nat /\ Len(ctl) \in Nat
      BY Sizes
    <3> QED BY <2>1, <2>2, <3>1, LandingIs, SMTT(30)
  <2> QED BY <2>1, <2>2, <2>3, ReplacedContext
<1>3. ASSUME EndConstruct PROVE Own(ctl', Len(ctl')) = Own(ctl, Len(ctl))
  <2>1. Pending /\ ctl' = Outer /\ ip' = Landing(NextPart.hops)
        /\ UNCHANGED <<currFn, fnStack, fns, phase>>
    BY <1>3 DEF EndConstruct, UnchangedFn
  <2>2. /\ ctl # <<>> /\ Top.kind # "fn" /\ NextPart.hops # <<>>
        /\ NextPart.hops \in Seq(HopT(Len(ir.fn)))
    BY <2>1, PartsLeft
  <2>3. ip' # 0
    <3>1. Len(ir.fn) \in Nat /\ Len(ctl) \in Nat
      BY Sizes
    <3> QED BY <2>1, <2>2, <3>1, LandingIs
  <2>4. /\ Len(ctl') = Len(ctl) - 1 /\ Len(ctl) - 1 \in Nat
        /\ \A i \in 0 .. Len(ctl) - 1 : Own(ctl', i) = Own(ctl, i)
        /\ Own(ctl, Len(ctl) - 1) = Own(ctl, Len(ctl))
    BY <2>1, <2>2, <2>3, PoppedContext
  <2> QED BY <2>4
<1> QED BY <1>1, <1>2, <1>3

LEMMA OwnEntered ==
  ASSUME Typed, Context, NEW valued \in Valued, EnterFunction(valued)
  PROVE  Own(ctl', Len(ctl')) = Len(fns) + 1
<1> DEFINE fr == FnFrame(Len(fns) + 1, ip)
<1>1. ctl' = Append(ctl, fr) /\ fr.kind = "fn" /\ fr.fn = Len(fns) + 1
  BY DEF EnterFunction, FnFrame
<1> HIDE DEF fr
<1>2. Len(ctl) \in Nat /\ Len(ctl') = Len(ctl) + 1 /\ ctl'[Len(ctl')] = fr
  BY <1>1, AppendProperties, LenProperties DEF Typed, StackTyped
<1>3. Len(ctl') \in Nat \ {0}
  BY <1>2
<1> QED BY <1>1, <1>2, <1>3, OwnStep

LEMMA OwnLeft ==
  ASSUME Typed, Context, LeaveFunction
  PROVE  /\ Own(ctl', Len(ctl')) = Own(ctl, Len(ctl) - 1)
         /\ Own(ctl', Len(ctl')) # Base => FnAt(ctl, Len(ctl) - 1) # {}
<1>1. ctl # <<>> /\ ctl' = Outer
  BY DEF LeaveFunction
<1> DEFINE T == FrameT(Len(ir.fn), Len(fns))
<1>2. ctl \in Seq(T)
  BY DEF Typed, StackTyped
<1> HIDE DEF T
<1>3. Len(ctl') = Len(ctl) - 1 /\ Len(ctl') \in Nat
      /\ \A i \in 0 .. Len(ctl') : Own(ctl', i) = Own(ctl, i)
  BY <1>1, <1>2, Popped DEF Outer
<1>4. Own(ctl', Len(ctl')) = Own(ctl, Len(ctl) - 1)
  BY <1>3
<1>5. FnAt(ctl, Len(ctl) - 1) = {} => Own(ctl, Len(ctl) - 1) = Base
  BY DEF Own
<1> QED BY <1>4, <1>5

LEMMA FlaggedDivert == ASSUME Typed, Context, Flagged, Diverting PROVE Flagged'
<1>1. PICK n, targets, extra : Diverts(n, targets, extra)
  BY DivertingTyped
<1>2. /\ UNCHANGED <<ctl, phase>> /\ phase = "walk" /\ (EmitMain \/ ctl # <<>>) /\ SameFns
      /\ Own(ctl', Len(ctl')) = Own(ctl, Len(ctl)) /\ Fn' = Fn
  BY <1>1 DEF Diverts, Statement, StatementPlace, Walking, SameFns, Fn
<1>3. CASE Return
  <2>1. /\ Enclosing \in Fn /\ withRet' = TRUE
        /\ \A h \in Fn : fns'[h] = IF h = Enclosing THEN [fns[h] EXCEPT !.returns = TRUE] ELSE fns[h]
    BY <1>3, ReturnDiverts DEF Return
  <2>2. \A h \in Fn : fns[h] \in FnT(Len(ir.fn))
    BY Sizes
  <2>3. fns'[Enclosing].returns = TRUE /\ \A h \in Fn : h # Enclosing => fns'[h] = fns[h]
    BY <2>1, <2>2 DEF FnT
  <2>4. FlagOfFunction'
    BY <1>2, <2>1, <2>3, EnclosingIs DEF FlagOfFunction
  <2>5. ASSUME NEW f \in Fn PROVE RightlyFinished(f)'
    <3>1. CASE f # Enclosing
      BY <2>3, <3>1 DEF Flagged, RightlyFinished
    <3>2. CASE f = Enclosing /\ Enclosing # Base
      <4>1. fns[Enclosing].final = "open"
        <5> DEFINE A == FnAt(ctl, Len(ctl))
        <5>1. A # {} /\ Len(ctl) \in Nat
          BY <3>2, EnclosingIs, Sizes DEF Own
        <5>2. PICK x \in A : \A y \in A : y <= x
          <6>1. A \in SUBSET (1 .. Len(ctl))
            BY DEF FnAt
          <6> HIDE DEF A
          <6> QED BY <5>1, <6>1, Greatest
        <5>3. (CHOOSE j \in A : \A y \in A : y <= j) = x
          <6>1. \A j \in A : (\A y \in A : y <= j) => j = x
            BY <5>2 DEF FnAt
          <6> HIDE DEF A
          <6> QED BY <5>2, <6>1
        <5>4. Enclosing = ctl[x].fn
          BY <5>1, <5>3, EnclosingIs DEF Own
        <5>5. x \in 1 .. Len(ctl) /\ ctl[x].kind = "fn"
          BY <5>2 DEF FnAt
        <5> QED BY <1>2, <5>4, <5>5 DEF Context, Opened
      <4>2. fns'[f].final = "open"
        BY <1>2, <3>2, <4>1 DEF SameFns
      <4> QED BY <4>2 DEF RightlyFinished
    <3>3. CASE f = Enclosing /\ Enclosing = Base
      <4>1. EmitMain /\ f = 1
        BY <2>1, <3>3, Sizes DEF Base
      <4> QED BY <4>1 DEF RightlyFinished
    <3> QED BY <3>1, <3>2, <3>3
  <2> QED BY <1>2, <2>4, <2>5 DEF Flagged
<1>4. CASE ~Return
  <2>1. withRet' = withRet /\ \A f \in Fn : fns'[f].returns = fns[f].returns
    <3>1. \A f \in Fn : fns[f] \in FnT(Len(ir.fn))
      BY Sizes
    <3>2. CASE Break \/ Continue
      BY <3>2 DEF Break, Continue, UnchangedFn
    <3>3. ASSUME NEW l \in Label, Goto(l) PROVE withRet' = withRet /\ \A f \in Fn : fns'[f].returns = fns[f].returns
      <4>1. \A h \in Fn : fns'[h] = IF h = Enclosing THEN [fns[h] EXCEPT !.uses = @ \cup {l}] ELSE fns[h]
        BY <3>3, GotoDiverts
      <4> QED BY <3>1, <3>3, <4>1 DEF Goto, FnT
    <3>4. ASSUME NEW l \in Label, DefineLabel(l) PROVE withRet' = withRet /\ \A f \in Fn : fns'[f].returns = fns[f].returns
      <4>1. \A h \in Fn : fns'[h] = IF h = Enclosing THEN [fns[h] EXCEPT !.defs = @ \cup {l}] ELSE fns[h]
        BY <3>4, LabelDiverts
      <4> QED BY <3>1, <3>4, <4>1 DEF DefineLabel, FnT
    <3> QED BY <1>4, <3>2, <3>3, <3>4 DEF Diverting
  <2>2. SameFlags
    BY <1>2, <2>1 DEF SameFlags, SameFns
  <2> QED BY <2>2, FlagsStay
<1> QED BY <1>3, <1>4

LEMMA FlaggedEnter ==
  ASSUME Typed, Context, Flagged, NEW valued \in Valued, EnterFunction(valued)
  PROVE  Flagged'
<1> DEFINE f == Len(fns) + 1
<1>1. /\ Len(fns) \in Nat /\ Len(fns') = f /\ \A g \in Fn : fns'[g] = fns[g]
      /\ fns'[f] = Function(Len(ir.fn) + 2, Len(ir.fn) + 1, valued)
  BY EnterIs
<1>2. Own(ctl', Len(ctl')) = f /\ withRet' = FALSE
  BY OwnEntered DEF EnterFunction
<1>3. fns'[f].returns = FALSE /\ fns'[f].final = "open"
  BY <1>1 DEF Function
<1> HIDE DEF f
<1>4. FlagOfFunction'
  BY <1>2, <1>3 DEF FlagOfFunction
<1>5. \A g \in Fn' : g \in Fn \/ g = f
  BY <1>1 DEF Fn, f
<1>6. \A g \in Fn' : RightlyFinished(g)'
  <2> TAKE g \in Fn'
  <2>1. CASE g \in Fn
    BY <1>1, <2>1 DEF Flagged, RightlyFinished
  <2>2. CASE g = f
    BY <1>3, <2>2 DEF RightlyFinished
  <2> QED BY <1>5, <2>1, <2>2
<1> QED BY <1>4, <1>6 DEF Flagged

(* what the final return makes of the flag *)
LEMMA FinalIsRight ==
  ASSUME Typed, Context, Flagged, ctl # <<>>, Top.kind = "fn", phase = "walk",
         fns[Top.fn].valued, ~fns[Top.fn].inner
  PROVE  /\ FinalReturn(Top.fn) = "slot" => fns[Top.fn].returns
         /\ FinalReturn(Top.fn) \in {"rejected", "default"} => ~fns[Top.fn].returns
<1>1. Own(ctl, Len(ctl)) = Top.fn /\ Top.fn # Base
  BY OthersAround, OwnRange
<1>2. withRet <=> fns[Top.fn].returns
  BY <1>1 DEF Flagged, FlagOfFunction
<1>3. FinalReturn(Top.fn) = "slot" => withRet
  BY DEF FinalReturn
<1>4. FinalReturn(Top.fn) \in {"rejected", "default"} => ~withRet
  BY DEF FinalReturn
<1> QED BY <1>2, <1>3, <1>4

LEMMA FlaggedLeave == ASSUME Typed, Context, Flagged, LeaveFunction PROVE Flagged'
<1> DEFINE v == FinalReturn(Top.fn)
<1>1. /\ ctl # <<>> /\ Top.kind = "fn" /\ phase = "walk" /\ UNCHANGED <<withRet, phase>>
      /\ fns' = Finished(Top.fn, v)
  BY DEF LeaveFunction, Walking
<1>2. v \in {"open", "void", "slot", "default", "rejected"}
  BY DEF FinalReturn
<1> HIDE DEF v
<1>3. /\ Len(fns') = Len(fns) /\ Top.fn \in Fn
      /\ \A g \in Fn : /\ fns'[g].valued = fns[g].valued /\ fns'[g].returns = fns[g].returns
                       /\ fns'[g].final = IF g = Top.fn THEN v ELSE fns[g].final
                       /\ fns[g].inner => fns'[g].inner
      /\ FnAt(ctl, Len(ctl) - 1) # {} => fns'[Own(ctl, Len(ctl) - 1)].inner
  BY <1>1, <1>2, FinishedIs
<1>4. FlagOfFunction'
  BY <1>3, OwnLeft DEF FlagOfFunction
<1>5. ASSUME NEW g \in Fn PROVE RightlyFinished(g)'
  <2>1. CASE g = Top.fn
    <3>1. fns[g].valued /\ ~fns[g].inner => /\ v = "slot" => fns[g].returns
                                            /\ v \in {"rejected", "default"} => ~fns[g].returns
      BY <1>1, <2>1, FinalIsRight DEF v
    <3> QED BY <1>3, <2>1, <3>1 DEF RightlyFinished
  <2>2. CASE g # Top.fn
    BY <1>3, <2>2 DEF Flagged, RightlyFinished
  <2> QED BY <2>1, <2>2
<1>6. Fn' = Fn
  BY <1>3 DEF Fn
<1> QED BY <1>4, <1>5, <1>6 DEF Flagged

LEMMA FlaggedReject == ASSUME Typed, Context, Flagged, RejectFunction PROVE Flagged'
<1>1. /\ ctl # <<>> /\ Top.kind = "fn" /\ phase = "walk" /\ phase' = "failed"
      /\ fns' = [fns EXCEPT ![Top.fn].final = "rejected"] /\ FinalReturn(Top.fn) = "rejected"
  BY DEF RejectFunction
<1>2. Top.fn \in Fn /\ \A g \in Fn : fns[g] \in FnT(Len(ir.fn))
  BY <1>1, OthersAround, Sizes
<1>3. /\ Len(fns') = Len(fns)
      /\ \A h \in Fn : fns'[h] = IF h = Top.fn THEN [fns[Top.fn] EXCEPT !.final = "rejected"] ELSE fns[h]
  BY <1>1, <1>2, FinalUpdate
<1>4. \A g \in Fn : /\ fns'[g].valued = fns[g].valued /\ fns'[g].returns = fns[g].returns
                    /\ fns'[g].inner = fns[g].inner
                    /\ fns'[g].final = IF g = Top.fn THEN "rejected" ELSE fns[g].final
  BY <1>2, <1>3 DEF FnT
<1>5. ASSUME NEW g \in Fn PROVE RightlyFinished(g)'
  <2>1. CASE g = Top.fn
    <3>1. fns[g].valued /\ ~fns[g].inner => ~fns[g].returns
      BY <1>1, <2>1, FinalIsRight
    <3> QED BY <1>4, <2>1, <3>1 DEF RightlyFinished
  <2>2. CASE g # Top.fn
    BY <1>4, <2>2 DEF Flagged, RightlyFinished
  <2> QED BY <2>1, <2>2
<1>6. FlagOfFunction' /\ Fn' = Fn
  BY <1>1, <1>3 DEF FlagOfFunction, Fn
<1> QED BY <1>5, <1>6 DEF Flagged

LEMMA FlaggedEnd == ASSUME Typed, Context, Flagged, EndUnit PROVE Flagged'
<1>1. phase' = "done" /\ fns' = IF EmitMain THEN [fns EXCEPT ![1].final = "slot"] ELSE fns
  BY DEF EndUnit
<1>2. CASE EmitMain
  <2>1. 1 \in Fn
    BY <1>2, Sizes DEF Context, Framed, Base
  <2>2. /\ Len(fns') = Len(fns)
        /\ \A h \in Fn : fns'[h] = IF h = 1 THEN [fns[1] EXCEPT !.final = "slot"] ELSE fns[h]
    BY <1>1, <1>2, <2>1, FinalUpdate
  <2>3. FlagOfFunction' /\ Fn' = Fn
    BY <1>1, <2>2 DEF FlagOfFunction, Fn
  <2>4. \A g \in Fn : RightlyFinished(g)'
    BY <1>2, <2>2 DEF Flagged, RightlyFinished
  <2> QED BY <2>3, <2>4 DEF Flagged
<1>3. CASE ~EmitMain
  BY <1>1, <1>3 DEF Flagged, FlagOfFunction, RightlyFinished, Fn
<1> QED BY <1>2, <1>3

LEMMA FlaggedStep ==
  ASSUME Typed, Context, Flagged, [Next]_vars
  PROVE  Flagged'
<1>1. CASE Diverting
  BY <1>1, FlaggedDivert
<1>2. CASE Beginning \/ EndPart \/ EndConstruct
  <2>1. UNCHANGED <<withRet, fns, phase>>
    BY <1>2 DEF Beginning, Begins, Begin, EndPart, EndConstruct, UnchangedFn, Walking
  <2>2. SameFlags
    BY <1>2, <2>1, OwnOfConstruct DEF SameFlags
  <2> QED BY <2>2, FlagsStay
<1>3. ASSUME NEW valued \in Valued, EnterFunction(valued) PROVE Flagged'
  BY <1>3, FlaggedEnter
<1>4. CASE LeaveFunction
  BY <1>4, FlaggedLeave
<1>5. CASE RejectFunction
  BY <1>5, FlaggedReject
<1>6. CASE EndUnit
  BY <1>6, FlaggedEnd
<1>7. CASE UNCHANGED vars
  BY <1>7 DEF vars, Flagged, FlagOfFunction, RightlyFinished, Fn
<1> QED BY <1>1, <1>2, <1>3, <1>4, <1>5, <1>6, <1>7, StepKinds

(* A function with a value and no function inside it returns its slot       *)
(* exactly if its body has a return; generate_final_return                 *)
(* (IR_generator.cpp:4558) is right to trust g_with_ret_value there, with  *)
(* -main and without.                                                      *)
THEOREM PlainReturns == Spec => []PlainFunctionReturnsOwnValue
<1>1. Init => Typed /\ Context /\ Flagged
  <2>1. Init => Flagged
    <3> SUFFICES ASSUME Init PROVE Flagged
      OBVIOUS
    <3>1. ctl = <<>> /\ Len(ctl) = 0 /\ Own(ctl, Len(ctl)) = Base
      BY EmptySeq, OwnZero DEF Init
    <3>2. \A f \in Fn : EmitMain /\ f = 1
      <4>1. CASE EmitMain
        <5>1. fns = <<Function(1, 2, TRUE)>>
          BY <4>1 DEF Init
        <5>2. Len(fns) = 1
          BY <5>1
        <5> QED BY <4>1, <5>2 DEF Fn
      <4>2. CASE ~EmitMain
        BY <4>2, EmptySeq DEF Init, Fn
      <4> QED BY <4>1, <4>2
    <3> QED BY <3>1, <3>2 DEF Flagged, FlagOfFunction, RightlyFinished
  <2> QED BY <2>1, TypedInit
<1>2. Typed /\ Context /\ Flagged /\ [Next]_vars => (Typed /\ Context /\ Flagged)'
  BY TypedStep, FlaggedStep
<1>3. Flagged => PlainFunctionReturnsOwnValue
  BY DEF Flagged, RightlyFinished, PlainFunctionReturnsOwnValue
<1> QED BY <1>1, <1>2, <1>3, PTL DEF Spec

(***************************************************************************)
(* Steps on the blocks: those of A are inserted into function f, those of  *)
(* X get the terminator with targets T.                                    *)
(***************************************************************************)
Grows(m, m2, A, f, X, T) ==
  /\ Blk(m) \subseteq Blk(m2) /\ A \subseteq Blk(m2) /\ X \subseteq Blk(m2) /\ f # 0
  /\ \A b \in Blk(m2) : m2.fn[b] = IF b \in A THEN f ELSE IF b \in Blk(m) THEN m.fn[b] ELSE 0
  /\ \A b \in A : b \in Blk(m) => m.fn[b] = 0
  /\ \A b \in X : m2.fn[b] # 0 /\ m2.out[b] = <<T[b]>>
  /\ \A b \in Blk(m2) \ X : m2.out[b] = IF b \in Blk(m) THEN m.out[b] ELSE <<>>

LEMMA StraightGrows ==
  ASSUME NEW m, NEW m2, NEW A, NEW f, NEW X, NEW T, Grows(m, m2, A, f, X, T),
         NEW live, NEW live2, Straight(m, live), live \subseteq Blk(m),
         \A b \in Blk(m2) : b \in live2 <=> (b \in live \/ b \in A) /\ b \notin X
  PROVE  Straight(m2, live2)
<1> SUFFICES ASSUME NEW b \in Blk(m2)
             PROVE  /\ m2.fn[b] = 0 \/ b \in live2 => m2.out[b] = <<>>
                    /\ m2.fn[b] # 0 /\ b \notin live2 => Len(m2.out[b]) = 1
  BY DEF Straight
<1>1. b \in Blk(m) => /\ m.fn[b] = 0 \/ b \in live => m.out[b] = <<>>
                      /\ m.fn[b] # 0 /\ b \notin live => Len(m.out[b]) = 1
  BY DEF Straight
<1>2. CASE b \in X
  <2>1. m2.fn[b] # 0 /\ m2.out[b] = <<T[b]>> /\ b \notin live2
    BY <1>2 DEF Grows
  <2>2. Len(<<T[b]>>) = 1
    OBVIOUS
  <2> QED BY <2>1, <2>2
<1>3. CASE b \notin X
  <2>1. m2.out[b] = IF b \in Blk(m) THEN m.out[b] ELSE <<>>
    BY <1>3 DEF Grows
  <2>2. m2.fn[b] = IF b \in A THEN f ELSE IF b \in Blk(m) THEN m.fn[b] ELSE 0
    BY DEF Grows
  <2>3. b \in A => f # 0 /\ (b \in Blk(m) => m.fn[b] = 0)
    BY DEF Grows
  <2>4. b \in live2 <=> (b \in live \/ b \in A)
    BY <1>3
  <2> QED BY <1>1, <2>1, <2>2, <2>3, <2>4
<1> QED BY <1>2, <1>3

LEMMA InBodyGrows ==
  ASSUME NEW m, NEW m2, NEW A, NEW f, NEW X, NEW T, Grows(m, m2, A, f, X, T),
         NEW b, NEW g, InBody(m, b, g), g # 0
  PROVE  InBody(m2, b, g)
BY DEF Grows, InBody

LEMMA HeldGrows ==
  ASSUME NEW m, NEW m2, NEW A, NEW f, NEW X, NEW T, Grows(m, m2, A, f, X, T),
         NEW K, NEW K2, NEW b, NEW t, Held(m, K, b, t), b \notin A, K2[b] = K[b]
  PROVE  Held(m2, K2, b, t)
BY DEF Grows, Held

(* where the insertion point is, and the ones to return to *)
LEMMA LiveFacts ==
  ASSUME ~EmitMain, NEW m, NEW p, NEW c, NEW F, Len(c) \in Nat, Len(F) \in Nat, Framed(c, F),
         Saved(m, p, c), Straight(m, Live(p, c))
  PROVE  /\ \A b \in SavedBlocks(c) : b \in Blk(m) /\ m.fn[b] # 0
         /\ c # <<>> /\ Len(c) # 0 =>
              /\ p \in Blk(m) /\ m.fn[p] = Own(c, Len(c)) /\ Own(c, Len(c)) \in 1 .. Len(F)
              /\ m.out[p] = <<>> /\ p \notin SavedBlocks(c)
         /\ Live(p, c) \subseteq Blk(m)
<1>1. ASSUME NEW i \in 2 .. Len(c), c[i].kind = "fn"
      PROVE  /\ c[i].from \in Blk(m) /\ m.fn[c[i].from] = Own(c, i - 1) /\ Own(c, i - 1) # 0
             /\ Own(c, i - 1) < Own(c, Len(c))
  <2>1. i \in 1 .. Len(c) /\ i - 1 \in 1 .. Len(c) /\ Len(c) \in i .. Len(c)
    OBVIOUS
  <2>2. Own(c, i - 1) \in 1 .. Len(F) /\ Own(c, i - 1) < Own(c, Len(c))
    BY <1>1, <2>1, OwnIs
  <2> QED BY <1>1, <2>2 DEF Saved, InBody
<1>2. \A b \in SavedBlocks(c) : b \in Blk(m) /\ m.fn[b] # 0
  BY <1>1 DEF SavedBlocks
<1>3. ASSUME c # <<>>, Len(c) # 0
      PROVE  /\ p \in Blk(m) /\ m.fn[p] = Own(c, Len(c)) /\ Own(c, Len(c)) \in 1 .. Len(F)
             /\ m.out[p] = <<>> /\ p \notin SavedBlocks(c)
  <2>1. p \in Blk(m) /\ m.fn[p] = Own(c, Len(c)) /\ p \in Live(p, c)
    BY <1>3 DEF Saved, InBody, Live
  <2>2. Own(c, Len(c)) \in 1 .. Len(F)
    BY <1>3, OwnIs
  <2>3. p \notin SavedBlocks(c)
    BY <1>1, <2>1, <2>2 DEF SavedBlocks
  <2> QED BY <2>1, <2>2, <2>3 DEF Straight
<1>4. Live(p, c) \subseteq Blk(m)
  <2>1. c # <<>> => p \in Blk(m)
    BY DEF Saved, InBody
  <2> QED BY <1>2, <2>1 DEF Live
<1> QED BY <1>2, <1>3, <1>4

(***************************************************************************)
(* A diversion of control.                                                 *)
(***************************************************************************)
LEMMA DivertGrows ==
  ASSUME ~EmitMain, Typed, Context, NEW n, NEW targets, NEW extra, Diverts(n, targets, extra),
         Saved(ir, ip, ctl), Straight(ir, Live(ip, ctl)), NEW T, T[ip] = targets
  PROVE  /\ Grows(ir, ir', {extra}, currFn, {ip}, T) /\ ip' = extra
         /\ ip \in Blk(ir) /\ ir.fn[ip] = currFn /\ currFn = Own(ctl, Len(ctl)) /\ currFn # 0
         /\ Len(ctl) \in Nat /\ ctl # <<>> /\ extra # ip /\ ip \notin SavedBlocks(ctl)
         /\ Len(ir'.fn) = Len(ir.fn) + n
<1> DEFINE m == NewBlocks(n)
<1>1. ctl # <<>> /\ Len(ctl) \in Nat /\ Len(ctl) # 0 /\ Len(fns) \in Nat /\ n \in Nat
      /\ Len(ir.fn) \in Nat
  BY Sizes DEF Diverts, Statement, StatementPlace
<1>2. /\ ip \in Blk(ir) /\ ir.fn[ip] = Own(ctl, Len(ctl)) /\ Own(ctl, Len(ctl)) \in 1 .. Len(fns)
      /\ ir.out[ip] = <<>> /\ ip \notin SavedBlocks(ctl)
  BY <1>1, LiveFacts DEF Context
<1>3. currFn = Own(ctl, Len(ctl)) /\ currFn # 0
  BY <1>2 DEF Context, Stacked
<1>4. /\ Len(ir'.fn) = Len(ir.fn) + n /\ ip' = extra
      /\ \A b \in Blk(ir') : ir'.fn[b] = IF b = extra THEN currFn ELSE m.fn[b]
      /\ \A b \in Blk(ir') : ir'.out[b] = IF b = ip THEN Append(m.out[ip], targets) ELSE m.out[b]
  BY DivertIs
<1>5. /\ Len(m.fn) = Len(ir.fn) + n /\ Blk(ir) \subseteq Blk(m)
      /\ \A b \in Blk(m) : /\ m.fn[b] = IF b \in Blk(ir) THEN ir.fn[b] ELSE 0
                           /\ m.out[b] = IF b \in Blk(ir) THEN ir.out[b] ELSE <<>>
  BY <1>1, NewBlocksIs DEF Typed, BlocksTyped
<1> HIDE DEF m
<1>6. Blk(m) = Blk(ir')
  BY <1>4, <1>5 DEF Blk
<1>7. extra \in Blk(ir') /\ (extra \in Blk(ir) => ir.fn[extra] = 0) /\ extra # ip
  <2>1. extra \in 1 .. Len(ir.fn) + n /\ (extra \in Blk(ir) => ir.fn[extra] = 0)
    BY DEF Diverts, Block, Blk
  <2> QED BY <1>2, <1>3, <1>4, <2>1 DEF Blk
<1>8. ir'.out[ip] = <<targets>>
  <2>1. ip \in Blk(ir') /\ m.out[ip] = <<>>
    BY <1>2, <1>5, <1>6
  <2>2. Append(<<>>, targets) = <<targets>>
    OBVIOUS
  <2> QED BY <1>4, <2>1, <2>2
<1>9. /\ \A b \in Blk(ir') : ir'.fn[b] = IF b \in {extra} THEN currFn
                                         ELSE IF b \in Blk(ir) THEN ir.fn[b] ELSE 0
      /\ \A b \in Blk(ir') \ {ip} : ir'.out[b] = IF b \in Blk(ir) THEN ir.out[b] ELSE <<>>
  BY <1>4, <1>5, <1>6
<1>10. ir'.fn[ip] # 0
  BY <1>2, <1>3, <1>5, <1>6, <1>7, <1>9
<1>11. Grows(ir, ir', {extra}, currFn, {ip}, T)
  BY <1>2, <1>3, <1>5, <1>6, <1>7, <1>8, <1>9, <1>10 DEF Grows
<1> QED BY <1>1, <1>2, <1>3, <1>4, <1>7, <1>11

LEMMA DivertCore ==
  ASSUME ~EmitMain, Typed, Context, NEW n, NEW targets, NEW extra, Diverts(n, targets, extra),
         NEW K, Core(ir, ip, ctl, fns, labelMap, K),
         extra \in Blk(ir) => K[extra] = ForLabel,
         \A l \in Label : labelMap'[l] \in {labelMap[l]} \/ labelMap'[l] \in Blk(ir') \ Blk(ir),
         NEW K2, K2 = [b \in Blk(ir') |-> IF b \in Blk(ir) THEN K[b] ELSE ForLabel]
  PROVE  Core(ir', ip', ctl', fns', labelMap', K2)
<1>1. /\ K \in [Blk(ir) -> Nat] /\ Saved(ir, ip, ctl) /\ Straight(ir, Live(ip, ctl))
      /\ Frames(ir, ctl, K) /\ Returns(ir, fns, K) /\ Labels(ir, labelMap, K)
  BY DEF Core
<1>0. PICK T : T[ip] = targets
  <2>1. [b \in {ip} |-> targets][ip] = targets
    OBVIOUS
  <2> QED BY <2>1
<1>2. /\ Grows(ir, ir', {extra}, currFn, {ip}, T) /\ ip' = extra
      /\ ip \in Blk(ir) /\ ir.fn[ip] = currFn /\ currFn = Own(ctl, Len(ctl)) /\ currFn # 0
      /\ Len(ctl) \in Nat /\ ctl # <<>> /\ extra # ip /\ ip \notin SavedBlocks(ctl)
  <2>1. Diverts(n, targets, extra) /\ Saved(ir, ip, ctl) /\ Straight(ir, Live(ip, ctl))
    BY <1>1
  <2>2. Grows(ir, ir', {extra}, currFn, {ip}, T)
    BY <1>0, <2>1, DivertGrows
  <2>3. ip' = extra
    BY <1>0, <2>1, DivertGrows
  <2>4. ip \in Blk(ir) /\ ir.fn[ip] = currFn /\ currFn = Own(ctl, Len(ctl)) /\ currFn # 0
    BY <1>0, <2>1, DivertGrows
  <2>5. Len(ctl) \in Nat
    BY <1>0, <2>1, DivertGrows
  <2>6. ctl # <<>> /\ extra # ip
    BY <1>0, <2>1, DivertGrows
  <2>7. ip \notin SavedBlocks(ctl)
    BY <1>0, <2>1, DivertGrows
  <2> QED BY <2>2, <2>3, <2>4, <2>5, <2>6, <2>7
<1>3. ctl' = ctl /\ Len(fns') = Len(fns) /\ Len(ctl) # 0
      /\ \A f \in Fn : fns'[f].ret = fns[f].ret /\ fns'[f].final = fns[f].final
  BY <1>2, Sizes DEF Diverts, SameFns
<1>4. K2 \in [Blk(ir') -> Nat]
  BY <1>1 DEF ForLabel
<1>5. \A b, t : Held(ir, K, b, t) /\ (b = extra => t # ForLabel) => b # extra /\ Held(ir', K2, b, t)
  <2> SUFFICES ASSUME NEW b, NEW t, Held(ir, K, b, t), b = extra => t # ForLabel
               PROVE  b # extra /\ Held(ir', K2, b, t)
    OBVIOUS
  <2>1. b \in Blk(ir) /\ K[b] = t /\ b \in Blk(ir')
    BY <1>2 DEF Held, Grows
  <2>2. b # extra /\ K2[b] = K[b]
    BY <2>1
  <2> QED BY <1>2, <2>2, HeldGrows
<1>6. Saved(ir', ip', ctl')
  <2>1. ASSUME NEW i \in 2 .. Len(ctl), ctl[i].kind = "fn" PROVE InBody(ir', ctl[i].from, Own(ctl, i - 1))
    <3>1. InBody(ir, ctl[i].from, Own(ctl, i - 1))
      BY <1>1, <2>1 DEF Saved
    <3>2. i - 1 \in 1 .. Len(ctl)
      BY <1>2
    <3>3. Own(ctl, i - 1) # 0
      BY <1>2, <3>2, OwnIs, Sizes DEF Context
    <3> QED BY <1>2, <3>1, <3>3, InBodyGrows
  <2>2. InBody(ir', extra, Own(ctl, Len(ctl)))
    BY <1>2 DEF Grows, InBody
  <2> QED BY <1>2, <1>3, <2>1, <2>2 DEF Saved
<1>7. Straight(ir', Live(ip', ctl'))
  <2>1. Live(ip, ctl) \subseteq Blk(ir)
    BY <1>1, <1>2, Sizes, LiveFacts DEF Context
  <2>2. Live(ip, ctl) = SavedBlocks(ctl) \cup {ip} /\ Live(ip', ctl') = SavedBlocks(ctl) \cup {extra}
    BY <1>2, <1>3 DEF Live
  <2>3. \A b \in Blk(ir') : b \in Live(ip', ctl') <=> (b \in Live(ip, ctl) \/ b \in {extra}) /\ b \notin {ip}
    BY <1>2, <2>2
  <2> QED BY <1>1, <1>2, <2>1, <2>3, StraightGrows
<1>8. Frames(ir', ctl', K2)
  <2>1. \A i \in 1 .. Len(ctl) : ForFrame(i) # ForLabel
    BY DEF ForFrame, ForLabel
  <2> QED BY <1>1, <1>3, <1>5, <2>1 DEF Frames, Reserved
<1>9. Returns(ir', fns', K2)
  <2>1. Unfinished(fns') = Unfinished(fns)
    BY <1>3, Sizes DEF Unfinished
  <2>2. \A f \in Unfinished(fns) : f \in Fn
    BY Sizes DEF Unfinished
  <2>3. ForReturn # ForLabel
    BY DEF ForReturn, ForLabel
  <2> QED BY <1>1, <1>3, <1>5, <2>1, <2>2, <2>3 DEF Returns
<1>10. Labels(ir', labelMap', K2)
  <2> SUFFICES ASSUME NEW l \in Label, labelMap'[l] # 0, ir'.fn[labelMap'[l]] = 0
               PROVE  K2[labelMap'[l]] = ForLabel
    BY DEF Labels
  <2>1. CASE labelMap'[l] \in Blk(ir') \ Blk(ir)
    BY <2>1
  <2>2. CASE labelMap'[l] = labelMap[l]
    <3>1. labelMap[l] \in Blk(ir)
      <4>1. labelMap[l] \in 0 .. Len(ir.fn) /\ labelMap[l] # 0 /\ Len(ir.fn) \in Nat
        BY <2>2, Sizes DEF Typed, TablesTyped
      <4> QED BY <4>1 DEF Blk
    <3>2. ir.fn[labelMap[l]] = 0
      BY <1>2, <2>2, <3>1 DEF Grows
    <3> QED BY <1>1, <1>2, <2>2, <3>1, <3>2 DEF Labels, Grows
  <2> QED BY <2>1, <2>2
<1> QED BY <1>4, <1>6, <1>7, <1>8, <1>9, <1>10 DEF Core

(* the purposes of the blocks, after a diversion *)
LabelUse(K) == [b \in Blk(ir') |-> IF b \in Blk(ir) THEN K[b] ELSE ForLabel]

LEMMA DivertingCore ==
  ASSUME ~EmitMain, Typed, Context, Diverting, NEW K, Core(ir, ip, ctl, fns, labelMap, K)
  PROVE  Core(ir', ip', ctl', fns', labelMap', LabelUse(K))
<1> DEFINE K2 == LabelUse(K)
<1>1. K2 = [b \in Blk(ir') |-> IF b \in Blk(ir) THEN K[b] ELSE ForLabel]
  BY DEF LabelUse
<1> HIDE DEF K2
<1>2. Len(ir.fn) \in Nat /\ labelMap \in [Label -> 0 .. Len(ir.fn)]
  BY Sizes DEF Typed, TablesTyped
<1>3. New(1) \notin Blk(ir) /\ New(2) \notin Blk(ir)
  BY <1>2 DEF New, Blk
<1>4. CASE Break \/ Continue
  <2>1. PICK t \in {InnermostLoop.out, InnermostLoop.cond} : Diverts(1, {t}, New(1))
    BY <1>4, BreakDiverts
  <2>2. labelMap' = labelMap
    BY <1>4 DEF Break, Continue
  <2>3. \A l \in Label : labelMap'[l] \in {labelMap[l]} \/ labelMap'[l] \in Blk(ir') \ Blk(ir)
    BY <2>2
  <2>4. Core(ir', ip', ctl', fns', labelMap', K2)
    BY <1>1, <1>3, <2>1, <2>3, DivertCore
  <2> QED BY <2>4 DEF K2
<1>5. CASE Return
  <2>1. Diverts(1, {fns[currFn].ret}, New(1))
    BY <1>5, ReturnDiverts
  <2>2. labelMap' = labelMap
    BY <1>5 DEF Return
  <2>3. \A l \in Label : labelMap'[l] \in {labelMap[l]} \/ labelMap'[l] \in Blk(ir') \ Blk(ir)
    BY <2>2
  <2>4. Core(ir', ip', ctl', fns', labelMap', K2)
    BY <1>1, <1>3, <2>1, <2>3, DivertCore
  <2> QED BY <2>4 DEF K2
<1>6. ASSUME NEW l \in Label, Goto(l) PROVE Core(ir', ip', ctl', fns', labelMap', LabelUse(K))
  <2>1. PICK b : b = IF labelMap[l] # 0 THEN labelMap[l] ELSE New(1)
    OBVIOUS
  <2>2. PICK n : n = IF labelMap[l] # 0 THEN 1 ELSE 2
    OBVIOUS
  <2>3. Diverts(n, {b}, New(n)) /\ labelMap' = [labelMap EXCEPT ![l] = b]
    BY <1>6, <2>1, <2>2, GotoDiverts
  <2>4. b # labelMap[l] => b \in Blk(ir') \ Blk(ir)
    <3>1. Len(ir'.fn) = Len(ir.fn) + n
      BY <2>3, DivertIs
    <3>2. b # labelMap[l] => n = 2 /\ b = New(1)
      BY <2>1, <2>2
    <3> QED BY <1>2, <3>1, <3>2 DEF Blk, New
  <2>5. \A k \in Label : labelMap'[k] \in {labelMap[k]} \/ labelMap'[k] \in Blk(ir') \ Blk(ir)
    BY <1>2, <2>3, <2>4
  <2>6. New(n) \notin Blk(ir)
    BY <1>3, <2>2
  <2>7. Core(ir', ip', ctl', fns', labelMap', K2)
    BY <1>1, <2>3, <2>5, <2>6, DivertCore
  <2> QED BY <2>7 DEF K2
<1>7. ASSUME NEW l \in Label, DefineLabel(l) PROVE Core(ir', ip', ctl', fns', labelMap', LabelUse(K))
  <2>1. PICK b : b = IF labelMap[l] # 0 THEN labelMap[l] ELSE New(1)
    OBVIOUS
  <2>2. PICK n : n = IF labelMap[l] # 0 THEN 0 ELSE 1
    OBVIOUS
  <2>3. Diverts(n, {b}, b) /\ labelMap' = [labelMap EXCEPT ![l] = b]
    BY <1>7, <2>1, <2>2, LabelDiverts
  <2>4. b # labelMap[l] => b \in Blk(ir') \ Blk(ir)
    <3>1. Len(ir'.fn) = Len(ir.fn) + n
      BY <2>3, DivertIs
    <3>2. b # labelMap[l] => n = 1 /\ b = New(1)
      BY <2>1, <2>2
    <3> QED BY <1>2, <3>1, <3>2 DEF Blk, New
  <2>5. \A k \in Label : labelMap'[k] \in {labelMap[k]} \/ labelMap'[k] \in Blk(ir') \ Blk(ir)
    BY <1>2, <2>3, <2>4
  <2>6. b \in Blk(ir) => K[b] = ForLabel
    <3>1. b \in Blk(ir) => ir.fn[b] = 0
      BY <2>3 DEF Diverts, Block, Blk
    <3>2. b \in Blk(ir) => b = labelMap[l] /\ b # 0
      BY <1>2, <1>3, <2>1 DEF Blk
    <3> QED BY <3>1, <3>2 DEF Core, Labels
  <2>7. Core(ir', ip', ctl', fns', labelMap', K2)
    BY <1>1, <2>3, <2>5, <2>6, DivertCore
  <2> QED BY <2>7 DEF K2
<1> QED BY <1>4, <1>5, <1>6, <1>7 DEF Diverting, K2

(***************************************************************************)
(* A function is entered.                                                  *)
(***************************************************************************)
EnteredUse(K) ==
  [b \in Blk(ir') |-> IF b \in Blk(ir) THEN K[b] ELSE ForReturn]

LEMMA EnterStack ==
  ASSUME Typed, Context, NEW valued \in Valued, EnterFunction(valued)
  PROVE  /\ Len(ctl) \in Nat /\ Len(ctl') = Len(ctl) + 1 /\ ctl' # <<>>
         /\ ctl'[Len(ctl')] = FnFrame(Len(fns) + 1, ip)
         /\ \A i \in 1 .. Len(ctl) : ctl'[i] = ctl[i]
         /\ \A i \in 0 .. Len(ctl) : Own(ctl', i) = Own(ctl, i)
         /\ Own(ctl', Len(ctl')) = Len(fns) + 1
         /\ SavedBlocks(ctl') = SavedBlocks(ctl) \cup (IF ctl = <<>> THEN {} ELSE {ip})
<1> DEFINE fr == FnFrame(Len(fns) + 1, ip)
<1>1. ctl' = Append(ctl, fr) /\ fr.kind = "fn" /\ fr.from = ip
  BY DEF EnterFunction, FnFrame
<1> HIDE DEF fr
<1> DEFINE S == {ctl[i] : i \in 1 .. Len(ctl)} \cup {fr}
<1>2. ctl \in Seq(S) /\ fr \in S
  <2>1. ctl \in [1 .. Len(ctl) -> S] /\ Len(ctl) \in Nat
    <3>1. DOMAIN ctl = 1 .. Len(ctl) /\ ctl = [i \in DOMAIN ctl |-> ctl[i]] /\ Len(ctl) \in Nat
      BY LenProperties DEF Typed, StackTyped
    <3> QED BY <3>1
  <2> HIDE DEF S
  <2>2. ctl \in Seq(S)
    BY <2>1, FunctionIsSeq
  <2> QED BY <2>2 DEF S
<1> HIDE DEF S
<1>3. /\ Len(ctl) \in Nat /\ Len(ctl') = Len(ctl) + 1 /\ ctl'[Len(ctl')] = fr /\ ctl' # <<>>
      /\ \A i \in 1 .. Len(ctl) : ctl'[i] = ctl[i]
      /\ \A i \in 0 .. Len(ctl) : Own(ctl', i) = Own(ctl, i)
  BY <1>1, <1>2, Pushed
<1>4. Own(ctl', Len(ctl')) = Len(fns) + 1
  BY OwnEntered
<1>5. SavedBlocks(ctl') = SavedBlocks(ctl) \cup (IF ctl = <<>> THEN {} ELSE {ip})
  <2>1. CASE ctl = <<>>
    <3>1. Len(ctl) = 0 /\ Len(ctl') = 1
      BY <1>3, <2>1, EmptySeq
    <3> QED BY <2>1, <3>1 DEF SavedBlocks
  <2>2. CASE ctl # <<>>
    <3>1. Len(ctl) # 0
      BY <2>2, Sizes
    <3>2. \A i \in 2 .. Len(ctl) : i \in 2 .. Len(ctl') /\ ctl'[i] = ctl[i]
      BY <1>3
    <3>3. \A i \in 2 .. Len(ctl') : i \in 2 .. Len(ctl) \/ i = Len(ctl')
      BY <1>3
    <3>4. Len(ctl') \in 2 .. Len(ctl')
      BY <1>3, <3>1
    <3>5. \A b : b \in SavedBlocks(ctl') <=> b \in SavedBlocks(ctl) \/ b = ip
      <4> TAKE b
      <4>1. b \in SavedBlocks(ctl) => b \in SavedBlocks(ctl')
        BY <3>2 DEF SavedBlocks
      <4>2. ip \in SavedBlocks(ctl')
        BY <1>1, <1>3, <3>4 DEF SavedBlocks
      <4>3. b \in SavedBlocks(ctl') => b \in SavedBlocks(ctl) \/ b = ip
        <5> SUFFICES ASSUME NEW i \in 2 .. Len(ctl'), ctl'[i].kind = "fn", b = ctl'[i].from
                     PROVE  b \in SavedBlocks(ctl) \/ b = ip
          BY DEF SavedBlocks
        <5>1. CASE i \in 2 .. Len(ctl)
          <6>1. ctl'[i] = ctl[i]
            BY <3>2, <5>1
          <6> QED BY <5>1, <6>1 DEF SavedBlocks
        <5>2. CASE i = Len(ctl')
          BY <1>1, <1>3, <5>2
        <5> QED BY <3>3, <5>1, <5>2
      <4> QED BY <4>1, <4>2, <4>3
    <3> QED BY <2>2, <3>5
  <2> QED BY <2>1, <2>2
<1> QED BY <1>3, <1>4, <1>5 DEF fr

LEMMA EnterGrows ==
  ASSUME Typed, Context, NEW valued \in Valued, EnterFunction(valued), NEW T
  PROVE  Grows(ir, ir', {Len(ir.fn) + 2}, Len(fns) + 1, {}, T)
<1>1. LET f == Len(fns) + 1 IN
      /\ Ir(ir', f) /\ Len(ir'.fn) = Len(ir.fn) + 2 /\ Len(ir.fn) \in Nat /\ Len(fns) \in Nat
      /\ Blk(ir) \subseteq Blk(ir')
      /\ \A b \in Blk(ir') : /\ ir'.fn[b] = IF b = Len(ir.fn) + 2 THEN f
                                            ELSE IF b \in Blk(ir) THEN ir.fn[b] ELSE 0
                             /\ ir'.out[b] = IF b \in Blk(ir) THEN ir.out[b] ELSE <<>>
  BY EnterIs
<1>2. Len(ir.fn) + 2 \in Blk(ir') /\ Len(ir.fn) + 2 \notin Blk(ir) /\ Len(fns) + 1 # 0
  BY <1>1 DEF Blk
<1> QED BY <1>1, <1>2 DEF Grows

LEMMA EnterCore ==
  ASSUME ~EmitMain, Typed, Context, NEW valued \in Valued, EnterFunction(valued),
         NEW K, Core(ir, ip, ctl, fns, labelMap, K)
  PROVE  Core(ir', ip', ctl', fns', labelMap', EnteredUse(K))
<1> DEFINE K2 == EnteredUse(K)
           a == Len(ir.fn)
           f == Len(fns) + 1
<1>1. K2 = [b \in Blk(ir') |-> IF b \in Blk(ir) THEN K[b] ELSE ForReturn]
  BY DEF EnteredUse
<1> HIDE DEF K2
<1>2. /\ K \in [Blk(ir) -> Nat] /\ Saved(ir, ip, ctl) /\ Straight(ir, Live(ip, ctl))
      /\ Frames(ir, ctl, K) /\ Returns(ir, fns, K) /\ Labels(ir, labelMap, K)
  BY DEF Core
<1>3. PICK T : Grows(ir, ir', {a + 2}, f, {}, T)
  BY EnterGrows
<1>4. /\ Len(ctl) \in Nat /\ Len(ctl') = Len(ctl) + 1 /\ ctl' # <<>>
      /\ ctl'[Len(ctl')] = FnFrame(f, ip)
      /\ \A i \in 1 .. Len(ctl) : ctl'[i] = ctl[i]
      /\ \A i \in 0 .. Len(ctl) : Own(ctl', i) = Own(ctl, i)
      /\ Own(ctl', Len(ctl')) = f
      /\ SavedBlocks(ctl') = SavedBlocks(ctl) \cup (IF ctl = <<>> THEN {} ELSE {ip})
  BY EnterStack
<1>5. /\ Len(ir'.fn) = a + 2 /\ a \in Nat /\ Len(fns) \in Nat /\ ip' = a + 2
      /\ Len(fns') = f /\ \A g \in Fn : fns'[g] = fns[g]
      /\ fns'[f] = Function(a + 2, a + 1, valued) /\ labelMap' = labelMap
      /\ labelMap \in [Label -> 0 .. a]
  BY EnterIs DEF EnterFunction, Typed, TablesTyped
<1>6. a + 1 \in Blk(ir') /\ a + 2 \in Blk(ir') /\ a + 1 \notin Blk(ir) /\ a + 2 \notin Blk(ir)
      /\ a + 1 # a + 2 /\ (\A b \in 0 .. a : b # 0 => b \in Blk(ir))
  BY <1>5 DEF Blk
<1>7. K2 \in [Blk(ir') -> Nat]
  BY <1>1, <1>2 DEF ForReturn
<1>8. \A b, t : Held(ir, K, b, t) => b \in Blk(ir) /\ Held(ir', K2, b, t)
  <2> SUFFICES ASSUME NEW b, NEW t, Held(ir, K, b, t)
               PROVE  b \in Blk(ir) /\ Held(ir', K2, b, t)
    OBVIOUS
  <2>1. b \in Blk(ir) /\ b \notin {a + 2} /\ b \in Blk(ir')
    BY <1>3, <1>6 DEF Held, Grows
  <2>2. K2[b] = K[b]
    BY <1>1, <2>1
  <2> QED BY <1>3, <2>1, <2>2, HeldGrows
<1>9. Saved(ir', ip', ctl')
  <2>1. ASSUME NEW i \in 2 .. Len(ctl'), ctl'[i].kind = "fn"
        PROVE  InBody(ir', ctl'[i].from, Own(ctl', i - 1))
    <3>1. i - 1 \in 1 .. Len(ctl) /\ i - 1 \in 0 .. Len(ctl)
      BY <1>4
    <3>2. Own(ctl', i - 1) = Own(ctl, i - 1) /\ Own(ctl, i - 1) # 0
      <4>1. Own(ctl, i - 1) \in 1 .. Len(fns)
        BY <1>4, <1>5, <3>1, OwnIs DEF Context
      <4> QED BY <1>4, <3>1, <4>1
    <3>3. InBody(ir, ctl'[i].from, Own(ctl, i - 1))
      <4>1. CASE i \in 2 .. Len(ctl)
        <5>1. ctl'[i] = ctl[i]
          BY <1>4, <4>1
        <5> QED BY <1>2, <2>1, <4>1, <5>1 DEF Saved
      <4>2. CASE i = Len(ctl')
        <5>1. ctl # <<>> /\ i - 1 = Len(ctl) /\ ctl'[i].from = ip
          BY <1>4, <3>1, <4>2, EmptySeq DEF FnFrame
        <5> QED BY <1>2, <5>1 DEF Saved
      <4> QED BY <1>4, <4>1, <4>2
    <3> QED BY <1>3, <3>2, <3>3, InBodyGrows
  <2>2. InBody(ir', ip', Own(ctl', Len(ctl')))
    BY <1>3, <1>4, <1>5, <1>6 DEF Grows, InBody
  <2> QED BY <2>1, <2>2 DEF Saved
<1>10. Straight(ir', Live(ip', ctl'))
  <2>1. Live(ip, ctl) \subseteq Blk(ir)
    BY <1>2, <1>4, <1>5, LiveFacts DEF Context
  <2>2. Live(ip', ctl') = Live(ip, ctl) \cup {a + 2}
    BY <1>4, <1>5 DEF Live
  <2>3. \A b \in Blk(ir') : b \in Live(ip', ctl') <=> (b \in Live(ip, ctl) \/ b \in {a + 2}) /\ b \notin {}
    BY <2>2
  <2> QED BY <1>2, <1>3, <2>1, <2>3, StraightGrows
<1>11. Frames(ir', ctl', K2)
  <2> SUFFICES ASSUME NEW i \in 1 .. Len(ctl')
               PROVE  Distinct(ctl'[i]) /\ Reserved(ir', K2, ctl'[i], i)
    BY DEF Frames
  <2>1. CASE i \in 1 .. Len(ctl)
    BY <1>2, <1>4, <1>8, <2>1 DEF Frames, Reserved
  <2>2. CASE i = Len(ctl')
    <3>1. ctl'[i].parts = <<>> /\ DOMAIN <<>> = {}
      BY <1>4, <2>2 DEF FnFrame
    <3> QED BY <3>1 DEF Distinct, Reserved
  <2> QED BY <1>4, <2>1, <2>2
<1>12. Returns(ir', fns', K2)
  <2>1. \A g \in Unfinished(fns') : g \in Unfinished(fns) \/ g = f
    BY <1>5 DEF Unfinished, Fn
  <2>2. \A g \in Unfinished(fns) : fns'[g].ret = fns[g].ret
    BY <1>5 DEF Unfinished, Fn
  <2>3. fns'[f].ret = a + 1
    BY <1>5 DEF Function
  <2>4. Held(ir', K2, a + 1, ForReturn)
    BY <1>1, <1>3, <1>6 DEF Grows, Held
  <2>5. \A g \in Unfinished(fns) : fns[g].ret \in Blk(ir) /\ Held(ir', K2, fns[g].ret, ForReturn)
    BY <1>2, <1>8 DEF Returns
  <2>6. \A g \in Unfinished(fns') : Held(ir', K2, fns'[g].ret, ForReturn)
    BY <2>1, <2>2, <2>3, <2>4, <2>5
  <2>7. ASSUME NEW g \in Unfinished(fns'), NEW h \in Unfinished(fns'), fns'[g].ret = fns'[h].ret
        PROVE  g = h
    <3>1. CASE g \in Unfinished(fns) /\ h \in Unfinished(fns)
      BY <1>2, <2>2, <2>7, <3>1 DEF Returns
    <3>2. CASE g = f /\ h \in Unfinished(fns)
      BY <1>6, <2>2, <2>3, <2>5, <2>7, <3>2
    <3>3. CASE h = f /\ g \in Unfinished(fns)
      BY <1>6, <2>2, <2>3, <2>5, <2>7, <3>3
    <3> QED BY <2>1, <3>1, <3>2, <3>3
  <2> QED BY <2>6, <2>7 DEF Returns
<1>13. Labels(ir', labelMap', K2)
  <2> SUFFICES ASSUME NEW l \in Label, labelMap[l] # 0, ir'.fn[labelMap[l]] = 0
               PROVE  K2[labelMap[l]] = ForLabel
    BY <1>5 DEF Labels
  <2>1. labelMap[l] \in Blk(ir) /\ labelMap[l] \in Blk(ir')
    BY <1>3, <1>5, <1>6 DEF Grows
  <2>2. ir.fn[labelMap[l]] = 0
    BY <1>3, <1>6, <2>1 DEF Grows
  <2> QED BY <1>1, <1>2, <2>1, <2>2 DEF Labels
<1> QED BY <1>7, <1>9, <1>10, <1>11, <1>12, <1>13 DEF Core, K2

(***************************************************************************)
(* A function is left.                                                     *)
(***************************************************************************)
LEMMA LeaveStack ==
  ASSUME Typed, Context, LeaveFunction
  PROVE  /\ ctl # <<>> /\ Top.kind = "fn" /\ Len(ctl) \in Nat \ {0} /\ Len(ctl') = Len(ctl) - 1
         /\ Len(ctl) \in 1 .. Len(ctl) /\ Top = ctl[Len(ctl)] /\ Top.fn \in Fn
         /\ Own(ctl, Len(ctl)) = Top.fn
         /\ \A i \in 1 .. Len(ctl') : ctl'[i] = ctl[i]
         /\ \A i \in 0 .. Len(ctl') : Own(ctl', i) = Own(ctl, i)
         /\ ctl' # <<>> <=> Len(ctl') # 0
         /\ SavedBlocks(ctl) = SavedBlocks(ctl') \cup (IF ctl' = <<>> THEN {} ELSE {Top.from})
<1>1. ctl # <<>> /\ Top.kind = "fn" /\ ctl' = Outer
  BY DEF LeaveFunction
<1>2. Len(ctl) \in Nat \ {0} /\ Len(ctl) \in 1 .. Len(ctl) /\ Top = ctl[Len(ctl)]
  BY <1>1, Sizes DEF Top
<1>3. Top.fn \in Fn /\ Own(ctl, Len(ctl)) = Top.fn
  BY <1>1, OthersAround
<1> DEFINE S == FrameT(Len(ir.fn), Len(fns))
<1>4. ctl \in Seq(S)
  BY DEF Typed, StackTyped
<1> HIDE DEF S
<1>5. /\ Len(ctl') = Len(ctl) - 1 /\ ctl' \in Seq(S) /\ (ctl' # <<>> => Len(ctl') # 0)
      /\ \A i \in 1 .. Len(ctl') : ctl'[i] = ctl[i]
      /\ \A i \in 0 .. Len(ctl') : Own(ctl', i) = Own(ctl, i)
  BY <1>1, <1>4, Popped DEF Outer
<1>6. Len(ctl') # 0 => ctl' # <<>>
  BY EmptySeq
<1>7. \A i \in 2 .. Len(ctl) : i \in 2 .. Len(ctl') \/ i = Len(ctl)
  BY <1>2, <1>5
<1>8. \A i \in 2 .. Len(ctl') : i \in 2 .. Len(ctl) /\ ctl'[i] = ctl[i]
  BY <1>2, <1>5
<1>9. \A b : b \in SavedBlocks(ctl) <=> b \in SavedBlocks(ctl') \/ (ctl' # <<>> /\ b = Top.from)
  <2> TAKE b
  <2>1. b \in SavedBlocks(ctl') => b \in SavedBlocks(ctl)
    BY <1>8 DEF SavedBlocks
  <2>2. ctl' # <<>> => Top.from \in SavedBlocks(ctl)
    <3>1. ctl' # <<>> => Len(ctl) \in 2 .. Len(ctl)
      BY <1>2, <1>5
    <3> QED BY <1>1, <1>2, <3>1 DEF SavedBlocks
  <2>3. ASSUME NEW i \in 2 .. Len(ctl), ctl[i].kind = "fn", b = ctl[i].from
        PROVE  b \in SavedBlocks(ctl') \/ (ctl' # <<>> /\ b = Top.from)
    <3>1. CASE i \in 2 .. Len(ctl')
      <4>1. ctl'[i] = ctl[i]
        BY <1>8, <3>1
      <4> QED BY <2>3, <3>1, <4>1 DEF SavedBlocks
    <3>2. CASE i = Len(ctl)
      BY <1>2, <1>5, <1>6, <2>3, <3>2
    <3> QED BY <1>7, <3>1, <3>2
  <2> QED BY <2>1, <2>2, <2>3 DEF SavedBlocks
<1> QED BY <1>1, <1>2, <1>3, <1>5, <1>6, <1>9

LEMMA LeaveGrows ==
  ASSUME ~EmitMain, Typed, Context, LeaveFunction,
         Saved(ir, ip, ctl), Straight(ir, Live(ip, ctl)),
         NEW ret, ret = fns[Top.fn].ret, ret \in Blk(ir), ir.fn[ret] = 0,
         NEW T, T[ip] = {ret}, T[ret] = {}
  PROVE  /\ Grows(ir, ir', {ret}, Top.fn, {ip, ret}, T) /\ ip # ret
         /\ ip \notin SavedBlocks(ctl) /\ ret \notin SavedBlocks(ctl)
         /\ Len(ir'.fn) = Len(ir.fn)
<1>1. /\ ctl # <<>> /\ Len(ctl) \in Nat \ {0} /\ Top.fn \in Fn /\ Own(ctl, Len(ctl)) = Top.fn
  BY LeaveStack
<1>2. Len(fns) \in Nat /\ Fn = 1 .. Len(fns) /\ Block = Blk(ir)
  BY Sizes
<1>3. /\ ip \in Blk(ir) /\ ir.fn[ip] = Top.fn /\ ir.out[ip] = <<>> /\ ip \notin SavedBlocks(ctl)
      /\ \A b \in SavedBlocks(ctl) : ir.fn[b] # 0
  BY <1>1, <1>2, LiveFacts DEF Context
<1>4. Top.fn # 0 /\ ip # ret /\ ret \notin SavedBlocks(ctl)
  BY <1>1, <1>2, <1>3
<1>5. ir.out[ret] = <<>>
  BY DEF Straight
<1>6. ir' = Finish(Top.fn)
  BY DEF LeaveFunction
<1>7. /\ Len(ir'.fn) = Len(ir.fn) /\ Blk(ir') = Blk(ir)
      /\ \A b \in Blk(ir) : /\ ir'.fn[b] = IF b = ret THEN Top.fn ELSE ir.fn[b]
                            /\ b # ip /\ b # ret => ir'.out[b] = ir.out[b]
      /\ ir'.out[ip] = Append(ir.out[ip], {ret})
      /\ ir'.out[ret] = Append(ir.out[ret], {})
  <2>1. Top.fn \in Fn /\ ip \in Block
    BY <1>1, <1>2, <1>3
  <2>2. LET m == Finish(Top.fn) IN
        /\ Len(m.fn) = Len(ir.fn) /\ Blk(m) = Blk(ir)
        /\ \A b \in Blk(ir) : /\ m.fn[b] = IF b = fns[Top.fn].ret THEN Top.fn ELSE ir.fn[b]
                              /\ b # ip /\ b # fns[Top.fn].ret => m.out[b] = ir.out[b]
        /\ ip # fns[Top.fn].ret => /\ m.out[ip] = Append(ir.out[ip], {fns[Top.fn].ret})
                                   /\ m.out[fns[Top.fn].ret] = Append(ir.out[fns[Top.fn].ret], {})
    BY <2>1, FinishIs
  <2> QED BY <1>4, <1>6, <2>2
<1>8. ir'.out[ip] = <<T[ip]>> /\ ir'.out[ret] = <<T[ret]>>
  <2>1. \A t : Append(<<>>, t) = <<t>>
    OBVIOUS
  <2> QED BY <1>3, <1>5, <1>7, <2>1
<1>9. \A b \in {ip, ret} : ir'.fn[b] # 0 /\ ir'.out[b] = <<T[b]>>
  <2>1. ir'.fn[ip] # 0 /\ ir'.fn[ret] # 0
    <3>1. ip \in Blk(ir) /\ ret \in Blk(ir) /\ ir.fn[ip] = Top.fn
      BY <1>3
    <3>2. ir'.fn[ip] = Top.fn
      BY <1>4, <1>7, <3>1
    <3>3. ir'.fn[ret] = Top.fn
      BY <1>7, <3>1
    <3> QED BY <1>4, <3>2, <3>3
  <2> QED BY <1>8, <2>1
<1> QED BY <1>3, <1>4, <1>7, <1>9 DEF Grows

LEMMA LeaveCore ==
  ASSUME ~EmitMain, Typed, Context, LeaveFunction, NEW K, Core(ir, ip, ctl, fns, labelMap, K)
  PROVE  Core(ir', ip', ctl', fns', labelMap', K)
<1>1. /\ K \in [Blk(ir) -> Nat] /\ Saved(ir, ip, ctl) /\ Straight(ir, Live(ip, ctl))
      /\ Frames(ir, ctl, K) /\ Returns(ir, fns, K) /\ Labels(ir, labelMap, K)
  BY DEF Core
<1>2. /\ ctl # <<>> /\ Top.kind = "fn" /\ Len(ctl) \in Nat \ {0} /\ Len(ctl') = Len(ctl) - 1
      /\ Len(ctl) \in 1 .. Len(ctl) /\ Top = ctl[Len(ctl)] /\ Top.fn \in Fn
      /\ Own(ctl, Len(ctl)) = Top.fn
      /\ \A i \in 1 .. Len(ctl') : ctl'[i] = ctl[i]
      /\ \A i \in 0 .. Len(ctl') : Own(ctl', i) = Own(ctl, i)
      /\ (ctl' # <<>> <=> Len(ctl') # 0)
      /\ SavedBlocks(ctl) = SavedBlocks(ctl') \cup (IF ctl' = <<>> THEN {} ELSE {Top.from})
  BY LeaveStack
<1>3. /\ fns' = Finished(Top.fn, FinalReturn(Top.fn)) /\ phase = "walk" /\ labelMap' = labelMap
      /\ ip' = Top.from
  BY DEF LeaveFunction, Walking, RestoredBlock
<1>4. FinalReturn(Top.fn) \in {"void", "slot", "default"}
  BY DEF FinalReturn, LeaveFunction
<1>5. /\ Len(fns') = Len(fns)
      /\ \A g \in Fn : /\ fns'[g].ret = fns[g].ret
                       /\ fns'[g].final = IF g = Top.fn THEN FinalReturn(Top.fn) ELSE fns[g].final
  <2>1. PICK final : final = FinalReturn(Top.fn)
    OBVIOUS
  <2>2. final \in {"open", "void", "slot", "default", "rejected"} /\ fns' = Finished(Top.fn, final)
    BY <1>3, <1>4, <2>1
  <2>3. Len(fns') = Len(fns)
    BY <1>2, <2>2, FinishedIs, ZenonT(60)
  <2>4. \A g \in Fn : fns'[g].ret = fns[g].ret
    BY <1>2, <2>2, FinishedIs, ZenonT(60)
  <2>5. \A g \in Fn : fns'[g].final = IF g = Top.fn THEN final ELSE fns[g].final
    BY <1>2, <2>2, FinishedIs, ZenonT(60)
  <2> QED BY <2>1, <2>3, <2>4, <2>5
<1>6. PICK ret : ret = fns[Top.fn].ret
  OBVIOUS
<1>7. Top.fn \in Unfinished(fns)
  BY <1>2, <1>3, Sizes DEF Unfinished, Context, Opened
<1>8. ret \in Blk(ir) /\ ir.fn[ret] = 0 /\ K[ret] = ForReturn
  BY <1>1, <1>6, <1>7 DEF Returns, Held
<1>9. PICK T : T[ip] = {ret} /\ T[ret] = {}
  <2>1. ip # ret
    <3>1. ir.fn[ip] = Own(ctl, Len(ctl)) /\ Own(ctl, Len(ctl)) \in 1 .. Len(fns)
      BY <1>1, <1>2, LiveFacts, Sizes DEF Context
    <3> QED BY <1>8, <3>1
  <2>2. [b \in {ip, ret} |-> IF b = ip THEN {ret} ELSE {}][ip] = {ret}
    OBVIOUS
  <2>3. [b \in {ip, ret} |-> IF b = ip THEN {ret} ELSE {}][ret] = {}
    BY <2>1
  <2> QED BY <2>2, <2>3
<1>10. Grows(ir, ir', {ret}, Top.fn, {ip, ret}, T)
  BY <1>1, <1>6, <1>8, <1>9, LeaveGrows
<1>11. ip # ret /\ ip \notin SavedBlocks(ctl) /\ ret \notin SavedBlocks(ctl)
  BY <1>1, <1>6, <1>8, <1>9, LeaveGrows
<1>12. Len(ir'.fn) = Len(ir.fn)
  BY <1>1, <1>6, <1>8, <1>9, LeaveGrows
<1>13. Blk(ir') = Blk(ir)
  BY <1>12 DEF Blk
<1>14. \A b, t : Held(ir, K, b, t) /\ b # ret => Held(ir', K, b, t)
  BY <1>10, HeldGrows
<1>15. \A i \in 1 .. Len(ctl) : ForFrame(i) # ForReturn
  BY DEF ForFrame, ForReturn
<1>16. Saved(ir', ip', ctl')
  <2>1. \A i \in 2 .. Len(ctl) : ctl[i].kind = "fn" => InBody(ir', ctl[i].from, Own(ctl, i - 1))
    <3> SUFFICES ASSUME NEW i \in 2 .. Len(ctl), ctl[i].kind = "fn"
                 PROVE  InBody(ir', ctl[i].from, Own(ctl, i - 1))
      OBVIOUS
    <3>1. InBody(ir, ctl[i].from, Own(ctl, i - 1)) /\ i - 1 \in 1 .. Len(ctl)
      BY <1>1, <1>2 DEF Saved
    <3>2. Own(ctl, i - 1) # 0
      <4>1. Own(ctl, i - 1) \in 1 .. Len(fns)
        BY <3>1, OwnIs, Sizes DEF Context
      <4> QED BY <4>1
    <3> QED BY <1>10, <3>1, <3>2, InBodyGrows
  <2>2. \A i \in 2 .. Len(ctl') : i \in 2 .. Len(ctl) /\ ctl'[i] = ctl[i] /\ Own(ctl', i - 1) = Own(ctl, i - 1)
    BY <1>2
  <2>3. ctl' # <<>> => InBody(ir', ip', Own(ctl', Len(ctl')))
    <3>1. ctl' # <<>> => Len(ctl) \in 2 .. Len(ctl) /\ Len(ctl') = Len(ctl) - 1 /\ Len(ctl') \in 0 .. Len(ctl')
      BY <1>2
    <3> QED BY <1>2, <1>3, <2>1, <3>1
  <2> QED BY <2>1, <2>2, <2>3 DEF Saved
<1>17. Straight(ir', Live(ip', ctl'))
  <2>1. Live(ip, ctl) \subseteq Blk(ir)
    BY <1>1, <1>2, LiveFacts, Sizes DEF Context
  <2>2. Live(ip, ctl) = SavedBlocks(ctl) \cup {ip} /\ Live(ip', ctl') = SavedBlocks(ctl)
    BY <1>2, <1>3 DEF Live
  <2>3. \A b \in Blk(ir') : b \in Live(ip', ctl') <=> (b \in Live(ip, ctl) \/ b \in {ret}) /\ b \notin {ip, ret}
    BY <1>11, <2>2
  <2> QED BY <1>1, <1>10, <2>1, <2>3, StraightGrows
<1>18. Frames(ir', ctl', K)
  <2> SUFFICES ASSUME NEW i \in 1 .. Len(ctl')
               PROVE  Distinct(ctl'[i]) /\ Reserved(ir', K, ctl'[i], i)
    BY DEF Frames
  <2>1. i \in 1 .. Len(ctl) /\ ctl'[i] = ctl[i]
    BY <1>2
  <2>2. Distinct(ctl[i]) /\ Reserved(ir, K, ctl[i], i)
    BY <1>1, <2>1 DEF Frames
  <2>3. \A b : Held(ir, K, b, ForFrame(i)) => Held(ir', K, b, ForFrame(i))
    BY <1>8, <1>14, <1>15, <2>1 DEF Held
  <2> QED BY <2>1, <2>2, <2>3 DEF Reserved
<1>19. Returns(ir', fns', K)
  <2>1. \A g \in Unfinished(fns') : g \in Unfinished(fns) /\ g # Top.fn /\ fns'[g].ret = fns[g].ret
    BY <1>4, <1>5, Sizes DEF Unfinished
  <2>2. \A g \in Unfinished(fns') : fns[g].ret # ret
    BY <1>1, <1>6, <1>7, <2>1 DEF Returns
  <2>3. \A g \in Unfinished(fns') : Held(ir', K, fns'[g].ret, ForReturn)
    BY <1>1, <1>14, <2>1, <2>2 DEF Returns
  <2> QED BY <1>1, <2>1, <2>3 DEF Returns
<1>20. Labels(ir', labelMap', K)
  <2> SUFFICES ASSUME NEW l \in Label, labelMap[l] # 0, ir'.fn[labelMap[l]] = 0
               PROVE  K[labelMap[l]] = ForLabel
    BY <1>3 DEF Labels
  <2>1. labelMap[l] \in Blk(ir)
    BY Sizes DEF Typed, TablesTyped, Blk
  <2>2. ir.fn[labelMap[l]] = 0
    BY <1>10, <1>13, <2>1 DEF Grows
  <2> QED BY <1>1, <2>2 DEF Labels
<1> QED BY <1>1, <1>13, <1>16, <1>17, <1>18, <1>19, <1>20 DEF Core

(***************************************************************************)
(* A part ends: a run of hops.                                             *)
(***************************************************************************)
Fresh(m, hops) ==
  /\ \A h \in DOMAIN hops : m.fn[hops[h].at] = 0 /\ m.out[hops[h].at] = <<>>
  /\ \A h, j \in DOMAIN hops : hops[h].at = hops[j].at => h = j

LEMMA SourcesAre ==
  ASSUME NEW n \in Nat, NEW hops \in Seq(HopT(n)), hops # <<>>,
         \A h, j \in DOMAIN hops : hops[h].at = hops[j].at => h = j,
         ip \notin Ats(hops)
  PROVE  /\ \A h, j \in DOMAIN hops : Source(hops, h) = Source(hops, j) => h = j
         /\ Sources(hops) = {ip} \cup (Ats(hops) \ {Landing(hops)})
         /\ Landing(hops) \in Ats(hops)
<1>1. /\ Len(hops) \in Nat \ {0} /\ DOMAIN hops = 1 .. Len(hops) /\ Len(hops) \in DOMAIN hops
      /\ Landing(hops) = hops[Len(hops)].at
  BY LandingIs
<1>2. Source(hops, 1) = ip /\ \A h \in DOMAIN hops : h # 1 => h - 1 \in DOMAIN hops /\ Source(hops, h) = hops[h - 1].at
  BY <1>1 DEF Source
<1>3. \A h \in DOMAIN hops : hops[h].at \in Ats(hops) /\ hops[h].at # ip
  BY DEF Ats
<1>4. ASSUME NEW h \in DOMAIN hops, NEW j \in DOMAIN hops, Source(hops, h) = Source(hops, j)
      PROVE  h = j
  <2>1. CASE h = 1 \/ j = 1
    BY <1>2, <1>3, <1>4, <2>1
  <2>2. CASE h # 1 /\ j # 1
    <3>1. h - 1 = j - 1
      BY <1>2, <1>4, <2>2
    <3> QED BY <1>1, <3>1
  <2> QED BY <2>1, <2>2
<1>5. Landing(hops) \in Ats(hops)
  BY <1>1, <1>3
<1>6. \A b : b \in Sources(hops) <=> b = ip \/ (b \in Ats(hops) /\ b # Landing(hops))
  <2> TAKE b
  <2>1. ip \in Sources(hops)
    BY <1>1, <1>2 DEF Sources
  <2>2. ASSUME NEW h \in DOMAIN hops, b = Source(hops, h), b # ip
        PROVE  b \in Ats(hops) /\ b # Landing(hops)
    <3>1. h # 1
      BY <1>2, <2>2
    <3>2. h - 1 \in DOMAIN hops /\ b = hops[h - 1].at /\ h - 1 # Len(hops)
      BY <1>1, <1>2, <2>2, <3>1
    <3>3. b # Landing(hops)
      BY <1>1, <3>2
    <3> QED BY <1>3, <3>2, <3>3
  <2>3. ASSUME NEW h \in DOMAIN hops, b = hops[h].at, b # Landing(hops)
        PROVE  b \in Sources(hops)
    <3>1. h # Len(hops)
      BY <1>1, <2>3
    <3>2. h + 1 \in DOMAIN hops /\ h + 1 # 1 /\ (h + 1) - 1 = h
      BY <1>1, <3>1
    <3>3. Source(hops, h + 1) = b
      BY <1>2, <2>3, <3>2
    <3> QED BY <3>2, <3>3 DEF Sources
  <2> QED BY <2>1, <2>2, <2>3 DEF Sources, Ats
<1> QED BY <1>4, <1>5, <1>6

LEMMA JumpTargets ==
  ASSUME NEW hops, \A h, j \in DOMAIN hops : Source(hops, h) = Source(hops, j) => h = j
  PROVE  \E T : \A h \in DOMAIN hops : T[Source(hops, h)] = hops[h].to
<1> DEFINE of(b) == CHOOSE h \in DOMAIN hops : Source(hops, h) = b
           T == [b \in Sources(hops) |-> hops[of(b)].to]
<1>1. \A h \in DOMAIN hops : of(Source(hops, h)) = h /\ Source(hops, h) \in Sources(hops)
  BY DEF Sources
<1> HIDE DEF of
<1>2. \A h \in DOMAIN hops : T[Source(hops, h)] = hops[h].to
  BY <1>1
<1> QED BY <1>2

LEMMA JumpGrows ==
  ASSUME NEW m, NEW k, Ir(m, k), NEW hops \in Seq(HopT(Len(m.fn))), hops # <<>>,
         currFn \in 0 .. k, currFn # 0,
         ip \in Blk(m), m.fn[ip] # 0, m.out[ip] = <<>>, Fresh(m, hops),
         NEW T, \A h \in DOMAIN hops : T[Source(hops, h)] = hops[h].to,
         NEW m2, m2 = Jump(m, hops)
  PROVE  /\ Grows(m, m2, Ats(hops), currFn, Sources(hops), T)
         /\ Blk(m2) = Blk(m) /\ Ats(hops) \subseteq Blk(m)
<1>1. Len(m.fn) \in Nat
  BY IrFacts
<1>2. \A h \in DOMAIN hops : hops[h].at \in Blk(m)
  BY <1>1, LandingIs DEF Blk
<1>3. Ats(hops) \subseteq Blk(m) /\ ip \notin Ats(hops)
      /\ (\A b \in Ats(hops) : m.fn[b] = 0 /\ m.out[b] = <<>>)
  BY <1>2 DEF Fresh, Ats
<1>4. /\ \A h, j \in DOMAIN hops : Source(hops, h) = Source(hops, j) => h = j
      /\ Sources(hops) = {ip} \cup (Ats(hops) \ {Landing(hops)})
  BY <1>1, <1>3, SourcesAre DEF Fresh
<1>5. Sources(hops) \subseteq Blk(m) /\ \A b \in Sources(hops) : m.out[b] = <<>>
  BY <1>3, <1>4
<1>6. /\ Blk(m2) = Blk(m)
      /\ \A b \in Blk(m) : m2.fn[b] = IF b \in Ats(hops) THEN currFn ELSE m.fn[b]
      /\ \A b \in Blk(m) : b \notin Sources(hops) => m2.out[b] = m.out[b]
      /\ \A i \in DOMAIN hops :
           Source(hops, i) \in Blk(m) /\ (\A j \in DOMAIN hops : Source(hops, j) = Source(hops, i) => j = i)
             => m2.out[Source(hops, i)] = Append(m.out[Source(hops, i)], hops[i].to)
  BY JumpIs
<1>7. ASSUME NEW b \in Sources(hops) PROVE m2.fn[b] # 0 /\ m2.out[b] = <<T[b]>>
  <2>1. PICK h \in DOMAIN hops : b = Source(hops, h)
    BY DEF Sources
  <2>2. m2.out[b] = Append(m.out[b], hops[h].to) /\ m.out[b] = <<>> /\ T[b] = hops[h].to
    BY <1>4, <1>5, <1>6, <2>1
  <2>3. Append(<<>>, hops[h].to) = <<hops[h].to>>
    OBVIOUS
  <2>4. m2.fn[b] # 0
    BY <1>4, <1>5, <1>6
  <2> QED BY <2>2, <2>3, <2>4
<1> QED BY <1>3, <1>5, <1>6, <1>7 DEF Grows

(* the stack afterwards: the part that was entered is gone from it *)
Shortened(c, d) ==
  /\ Len(d) \in Nat /\ d # <<>> /\ Len(d) \in {Len(c), Len(c) - 1}
  /\ \A i \in 1 .. Len(d) :
       /\ d[i].kind = c[i].kind /\ d[i].from = c[i].from /\ Own(d, i - 1) = Own(c, i - 1)
       /\ i # Len(c) => d[i].parts = c[i].parts
       /\ i = Len(c) => \A q \in DOMAIN d[i].parts :
            q + 1 \in DOMAIN c[i].parts /\ q + 1 # 1 /\ q \in Nat /\ d[i].parts[q] = c[i].parts[q + 1]

LEMMA ShortenedSaves ==
  ASSUME NEW c, NEW d, Len(c) \in Nat \ {0}, Shortened(c, d), c[Len(c)].kind # "fn"
  PROVE  SavedBlocks(d) = SavedBlocks(c)
<1>1. \A i \in 2 .. Len(d) : i \in 2 .. Len(c) /\ d[i].kind = c[i].kind /\ d[i].from = c[i].from
  BY DEF Shortened
<1>2. \A i \in 2 .. Len(c) : c[i].kind = "fn" => i \in 2 .. Len(d)
  BY DEF Shortened
<1>3. \A b : b \in SavedBlocks(d) => b \in SavedBlocks(c)
  <2> SUFFICES ASSUME NEW i \in 2 .. Len(d), d[i].kind = "fn" PROVE d[i].from \in SavedBlocks(c)
    BY DEF SavedBlocks
  <2> QED BY <1>1 DEF SavedBlocks
<1>4. \A b : b \in SavedBlocks(c) => b \in SavedBlocks(d)
  <2> SUFFICES ASSUME NEW i \in 2 .. Len(c), c[i].kind = "fn" PROVE c[i].from \in SavedBlocks(d)
    BY DEF SavedBlocks
  <2>1. i \in 2 .. Len(d) /\ d[i].kind = "fn" /\ d[i].from = c[i].from
    BY <1>1, <1>2
  <2> QED BY <2>1 DEF SavedBlocks
<1> QED BY <1>3, <1>4

(* what frame i's next part is about to insert is fresh *)
LEMMA ReservedFresh ==
  ASSUME NEW m, NEW n, NEW live, NEW K, NEW fr, NEW i, Straight(m, live),
         Distinct(fr), Reserved(m, K, fr, i), 1 \in DOMAIN fr.parts,
         NEW hops, hops = fr.parts[1].hops
  PROVE  /\ Fresh(m, hops)
         /\ \A b \in Ats(hops) : b \in Blk(m) /\ m.fn[b] = 0 /\ K[b] = ForFrame(i)
<1>1. \A h \in DOMAIN hops : Held(m, K, hops[h].at, ForFrame(i))
  BY DEF Reserved
<1>2. \A h \in DOMAIN hops : m.out[hops[h].at] = <<>>
  BY <1>1 DEF Straight, Held
<1>3. \A h, j \in DOMAIN hops : hops[h].at = hops[j].at => h = j
  BY DEF Distinct
<1> QED BY <1>1, <1>2, <1>3 DEF Fresh, Held, Ats

LEMMA JumpCore ==
  ASSUME ~EmitMain, Len(fns) \in Nat,
         NEW m, Ir(m, Len(fns)), NEW c, Len(c) \in Nat \ {0}, c # <<>>, Framed(c, fns),
         currFn = Own(c, Len(c)), c[Len(c)].kind # "fn",
         NEW lm \in [Label -> 0 .. Len(m.fn)], NEW K, Core(m, ip, c, fns, lm, K),
         1 \in DOMAIN c[Len(c)].parts, NEW hops, hops = c[Len(c)].parts[1].hops,
         hops \in Seq(HopT(Len(m.fn))), hops # <<>>,
         NEW d, Shortened(c, d), Own(d, Len(d)) = currFn,
         NEW m2, m2 = Jump(m, hops)
  PROVE  Core(m2, Landing(hops), d, fns, lm, K)
<1>1. /\ K \in [Blk(m) -> Nat] /\ Saved(m, ip, c) /\ Straight(m, Live(ip, c))
      /\ Frames(m, c, K) /\ Returns(m, fns, K) /\ Labels(m, lm, K)
  BY DEF Core
<1>2. Len(c) \in 1 .. Len(c) /\ Len(m.fn) \in Nat
  BY IrFacts
<1>3. Fresh(m, hops) /\ \A b \in Ats(hops) : b \in Blk(m) /\ m.fn[b] = 0 /\ K[b] = ForFrame(Len(c))
  <2>1. Distinct(c[Len(c)]) /\ Reserved(m, K, c[Len(c)], Len(c))
    BY <1>1, <1>2 DEF Frames
  <2> QED BY <1>1, <2>1, ReservedFresh
<1>4. /\ ip \in Blk(m) /\ m.fn[ip] = currFn /\ currFn \in 1 .. Len(fns)
      /\ m.out[ip] = <<>> /\ ip \notin SavedBlocks(c)
      /\ \A b \in SavedBlocks(c) : b \in Blk(m) /\ m.fn[b] # 0
      /\ Live(ip, c) \subseteq Blk(m)
  BY <1>1, LiveFacts
<1>5. currFn # 0 /\ ip \notin Ats(hops) /\ currFn \in 0 .. Len(fns)
  BY <1>3, <1>4
<1>6. /\ \A h, j \in DOMAIN hops : Source(hops, h) = Source(hops, j) => h = j
      /\ Sources(hops) = {ip} \cup (Ats(hops) \ {Landing(hops)})
      /\ Landing(hops) \in Ats(hops)
  BY <1>2, <1>3, <1>5, SourcesAre DEF Fresh
<1>7. PICK T : \A h \in DOMAIN hops : T[Source(hops, h)] = hops[h].to
  <2>1. \A h, j \in DOMAIN hops : Source(hops, h) = Source(hops, j) => h = j
    BY <1>6
  <2> QED BY ONLY <2>1, JumpTargets
<1>8. Grows(m, m2, Ats(hops), currFn, Sources(hops), T) /\ Blk(m2) = Blk(m)
  <2>1. m.fn[ip] # 0
    BY <1>4, <1>5
  <2>2. Grows(m, m2, Ats(hops), currFn, Sources(hops), T)
    BY <1>3, <1>4, <1>5, <1>7, <2>1, JumpGrows
  <2>3. Blk(m2) = Blk(m)
    BY <1>5, JumpIs
  <2> QED BY <2>2, <2>3
<1>9. \A b, t : Held(m, K, b, t) /\ b \notin Ats(hops) => Held(m2, K, b, t)
  BY <1>8, HeldGrows
<1>10. SavedBlocks(d) = SavedBlocks(c) /\ d # <<>>
  BY ShortenedSaves DEF Shortened
<1>11. Saved(m2, Landing(hops), d)
  <2>1. ASSUME NEW i \in 2 .. Len(d), d[i].kind = "fn" PROVE InBody(m2, d[i].from, Own(d, i - 1))
    <3>1. /\ i \in 2 .. Len(c) /\ i \in 1 .. Len(d) /\ i - 1 \in 1 .. Len(c) /\ c[i].kind = "fn"
          /\ d[i].from = c[i].from /\ Own(d, i - 1) = Own(c, i - 1)
      BY <2>1 DEF Shortened
    <3>2. InBody(m, c[i].from, Own(c, i - 1))
      BY <1>1, <3>1 DEF Saved
    <3>3. Own(c, i - 1) # 0
      <4>1. Own(c, i - 1) \in 1 .. Len(fns)
        BY <3>1, OwnIs
      <4> QED BY <4>1
    <3> QED BY <1>8, <3>1, <3>2, <3>3, InBodyGrows
  <2>2. InBody(m2, Landing(hops), Own(d, Len(d)))
    BY <1>6, <1>8 DEF Grows, InBody
  <2> QED BY <2>1, <2>2 DEF Saved
<1>12. Straight(m2, Live(Landing(hops), d))
  <2>1. Live(ip, c) = SavedBlocks(c) \cup {ip} /\ Live(Landing(hops), d) = SavedBlocks(c) \cup {Landing(hops)}
    BY <1>10 DEF Live
  <2>2. \A b \in SavedBlocks(c) : b \notin Ats(hops)
    BY <1>3, <1>4
  <2>3. \A b \in Blk(m2) : b \in Live(Landing(hops), d) <=>
                             (b \in Live(ip, c) \/ b \in Ats(hops)) /\ b \notin Sources(hops)
    BY <1>4, <1>5, <1>6, <2>1, <2>2
  <2> QED BY <1>1, <1>4, <1>8, <2>3, StraightGrows
<1>13. Frames(m2, d, K)
  <2> SUFFICES ASSUME NEW i \in 1 .. Len(d) PROVE Distinct(d[i]) /\ Reserved(m2, K, d[i], i)
    BY DEF Frames
  <2>1. i \in 1 .. Len(c)
    BY DEF Shortened
  <2>2. Distinct(c[i]) /\ Reserved(m, K, c[i], i)
    BY <1>1, <2>1 DEF Frames
  <2>3. CASE i # Len(c)
    <3>1. d[i].parts = c[i].parts
      BY <2>3 DEF Shortened
    <3>2. ForFrame(i) # ForFrame(Len(c))
      BY <2>1, <2>3 DEF ForFrame
    <3>3. \A b : Held(m, K, b, ForFrame(i)) => Held(m2, K, b, ForFrame(i))
      BY <1>3, <1>9, <3>2 DEF Held
    <3> QED BY <2>2, <3>1, <3>3, SMTT(30) DEF Distinct, Reserved
  <2>4. CASE i = Len(c)
    <3>1. \A q \in DOMAIN d[i].parts :
            q + 1 \in DOMAIN c[i].parts /\ q + 1 # 1 /\ q \in Nat /\ d[i].parts[q] = c[i].parts[q + 1]
      BY <2>4 DEF Shortened
    <3>2. \A q, r \in DOMAIN d[i].parts : q + 1 = r + 1 => q = r
      BY <3>1
    <3>3. Distinct(d[i])
      BY <2>2, <3>1, <3>2, SMTT(30) DEF Distinct
    <3>4. ASSUME NEW q \in DOMAIN d[i].parts, NEW h \in DOMAIN d[i].parts[q].hops
          PROVE  Held(m2, K, d[i].parts[q].hops[h].at, ForFrame(i))
      <4>1. PICK r \in DOMAIN c[i].parts : r # 1 /\ d[i].parts[q] = c[i].parts[r]
        BY <3>1
      <4>2. Held(m, K, c[i].parts[r].hops[h].at, ForFrame(i))
        BY <2>2, <4>1 DEF Reserved
      <4>3. c[i].parts[r].hops[h].at \notin Ats(hops)
        <5>1. h \in DOMAIN c[i].parts[r].hops /\ 1 \in DOMAIN c[i].parts /\ hops = c[i].parts[1].hops
          BY <2>4, <4>1
        <5>2. \A k \in DOMAIN c[i].parts[1].hops : c[i].parts[r].hops[h].at # c[i].parts[1].hops[k].at
          BY <2>2, <4>1, <5>1 DEF Distinct
        <5> QED BY <5>1, <5>2 DEF Ats
      <4> QED BY <1>9, <4>1, <4>2, <4>3
    <3> QED BY <3>3, <3>4 DEF Reserved
  <2> QED BY <2>3, <2>4
<1>14. Returns(m2, fns, K)
  <2>1. ForReturn # ForFrame(Len(c))
    BY <1>2 DEF ForReturn, ForFrame
  <2> QED BY <1>1, <1>3, <1>9, <2>1 DEF Returns, Held
<1>15. Labels(m2, lm, K)
  <2> SUFFICES ASSUME NEW l \in Label, lm[l] # 0, m2.fn[lm[l]] = 0 PROVE K[lm[l]] = ForLabel
    BY DEF Labels
  <2>1. lm[l] \in Blk(m)
    BY <1>2 DEF Blk
  <2>2. m.fn[lm[l]] = 0
    BY <1>8, <2>1 DEF Grows
  <2> QED BY <1>1, <2>2 DEF Labels
<1>16. K \in [Blk(m2) -> Nat]
  BY <1>1, <1>8
<1> QED BY <1>11, <1>12, <1>13, <1>14, <1>15, <1>16 DEF Core

(***************************************************************************)
(* A part of a construct ends, or the construct does.                      *)
(***************************************************************************)
LEMMA PartEnds ==
  ASSUME ~EmitMain, Typed, Context, EndPart \/ EndConstruct
  PROVE  /\ Len(ctl) \in Nat \ {0} /\ ctl # <<>> /\ ctl[Len(ctl)].kind # "fn"
         /\ 1 \in DOMAIN ctl[Len(ctl)].parts /\ NextPart.hops = ctl[Len(ctl)].parts[1].hops
         /\ NextPart.hops \in Seq(HopT(Len(ir.fn))) /\ NextPart.hops # <<>>
         /\ ir' = Jump(ir, NextPart.hops) /\ ip' = Landing(NextPart.hops)
         /\ UNCHANGED <<labelMap, currFn, fns, phase>>
         /\ Shortened(ctl, ctl') /\ Own(ctl', Len(ctl')) = currFn
<1>1. /\ Pending /\ ir' = Jump(ir, NextPart.hops) /\ ip' = Landing(NextPart.hops)
      /\ UNCHANGED <<labelMap, currFn, fnStack, fns, phase>>
  BY DEF EndPart, EndConstruct, UnchangedFn
<1>2. /\ ctl # <<>> /\ Top.parts # <<>> /\ Top.kind # "fn" /\ Top = ctl[Len(ctl)]
      /\ Len(ctl) \in Nat \ {0} /\ Len(ctl) \in 1 .. Len(ctl) /\ Len(ir.fn) \in Nat
  <2>1. ctl # <<>> /\ Top.parts # <<>> /\ Top.kind # "fn"
    BY <1>1, PartsLeft
  <2> QED BY <2>1, Sizes DEF Top
<1>3. NextPart.hops # <<>> /\ NextPart.hops \in Seq(HopT(Len(ir.fn)))
  BY <1>1, PartsLeft
<1>4. ip' # 0
  <2>1. Landing(NextPart.hops) \in 1 .. Len(ir.fn)
    BY <1>2, <1>3, LandingIs
  <2> QED BY <1>1, <2>1
<1>5. 1 \in DOMAIN Top.parts /\ NextPart = Top.parts[1]
  BY <1>2, NextIs
<1>6. currFn = Own(ctl, Len(ctl))
  BY DEF Context, Stacked
<1>7. Shortened(ctl, ctl') /\ Own(ctl', Len(ctl')) = currFn
  <2>1. CASE EndPart
    <3> DEFINE fr == [Top EXCEPT !.in = NextPart.in, !.parts = Tail(@)]
    <3>1. NextPart.in # "after" /\ ctl' = Append(Outer, fr)
      BY <2>1 DEF EndPart
    <3>2. /\ fr \in FrameT(Len(ir.fn), Len(fns)) /\ Shaped(fr) /\ fr.parts = Tail(Top.parts)
          /\ fr.kind = Top.kind /\ fr.from = Top.from
      BY <1>1, <3>1, PartsLeft
    <3> HIDE DEF fr
    <3>3. /\ Len(ctl') = Len(ctl) /\ ctl'[Len(ctl)] = fr
          /\ \A i \in 1 .. Len(ctl) - 1 : ctl'[i] = ctl[i]
          /\ \A i \in 0 .. Len(ctl) : Own(ctl', i) = Own(ctl, i)
      BY <1>1, <1>2, <1>4, <3>1, <3>2, ReplacedContext
    <3>4. \A q \in DOMAIN Tail(Top.parts) :
            q + 1 \in DOMAIN Top.parts /\ q + 1 # 1 /\ q \in Nat /\ Tail(Top.parts)[q] = Top.parts[q + 1]
      BY <1>2, NextIs
    <3>5. ctl' # <<>>
      BY <1>2, <3>3, EmptySeq
    <3>6. \A i \in 1 .. Len(ctl) : i \in 0 .. Len(ctl) /\ i - 1 \in 0 .. Len(ctl) /\ (i # Len(ctl) => i \in 1 .. Len(ctl) - 1)
      BY <1>2
    <3> QED BY <1>2, <1>6, <3>2, <3>3, <3>4, <3>5, <3>6 DEF Shortened
  <2>2. CASE EndConstruct
    <3>1. ctl' = Outer
      BY <2>2 DEF EndConstruct
    <3>2. Len(ctl') = Len(ctl) - 1 /\ Len(ctl) - 1 \in Nat
      BY <1>1, <1>2, <1>4, <3>1, PoppedContext
    <3>3. \A i \in 1 .. Len(ctl) - 1 : ctl'[i] = ctl[i]
      BY <1>1, <1>2, <1>4, <3>1, PoppedContext
    <3>4. \A i \in 0 .. Len(ctl) - 1 : Own(ctl', i) = Own(ctl, i)
      BY <1>1, <1>2, <1>4, <3>1, PoppedContext
    <3>5. Own(ctl, Len(ctl) - 1) = Own(ctl, Len(ctl)) /\ (EmitMain \/ ctl' # <<>>)
      BY <1>1, <1>2, <1>4, <3>1, PoppedContext
    <3>6. \A i \in 1 .. Len(ctl) - 1 : i # Len(ctl) /\ i - 1 \in 0 .. Len(ctl) - 1
      BY <1>2
    <3> QED BY <1>2, <1>6, <3>2, <3>3, <3>4, <3>5, <3>6 DEF Shortened
  <2> QED BY <2>1, <2>2
<1> QED BY <1>1, <1>2, <1>3, <1>5, <1>7

LEMMA PartEndsCore ==
  ASSUME ~EmitMain, Typed, Context, EndPart \/ EndConstruct,
         NEW K, Core(ir, ip, ctl, fns, labelMap, K)
  PROVE  Core(ir', ip', ctl', fns', labelMap', K)
<1> DEFINE hops == NextPart.hops
<1>1. /\ Len(ctl) \in Nat \ {0} /\ ctl # <<>> /\ ctl[Len(ctl)].kind # "fn"
      /\ 1 \in DOMAIN ctl[Len(ctl)].parts /\ hops = ctl[Len(ctl)].parts[1].hops
      /\ hops \in Seq(HopT(Len(ir.fn))) /\ hops # <<>>
      /\ ir' = Jump(ir, hops) /\ ip' = Landing(hops)
      /\ UNCHANGED <<labelMap, currFn, fns, phase>>
      /\ Shortened(ctl, ctl') /\ Own(ctl', Len(ctl')) = currFn
  BY PartEnds
<1> HIDE DEF hops
<1>2. /\ Ir(ir, Len(fns)) /\ Framed(ctl, fns) /\ currFn = Own(ctl, Len(ctl)) /\ Len(fns) \in Nat
      /\ labelMap \in [Label -> 0 .. Len(ir.fn)]
  BY Sizes DEF Typed, BlocksTyped, TablesTyped, Context, Stacked
<1>3. Core(ir', Landing(hops), ctl', fns, labelMap, K)
  BY <1>1, <1>2, JumpCore
<1> QED BY <1>1, <1>3

(***************************************************************************)
(* A construct begins: as if a frame with all its parts had been there.    *)
(***************************************************************************)
BegunUse(K) == [b \in Blk(ir') |-> IF b \in Blk(ir) THEN K[b] ELSE ForFrame(Len(ctl'))]

WholeFrame(c, kind, parts, from) == c = Append(ctl, Frame(kind, "stmts", parts, from))

LEMMA BegunStack ==
  ASSUME ~EmitMain, Typed, Context, NEW kind, NEW n, NEW parts, NEW from, Begins(kind, n, parts, from),
         NEW c, WholeFrame(c, kind, parts, from)
  PROVE  /\ Len(ctl) \in Nat \ {0} /\ Len(c) = Len(ctl) + 1 /\ c # <<>> /\ Len(ctl') = Len(c)
         /\ c[Len(c)].kind = kind /\ c[Len(c)].parts = parts /\ kind # "fn"
         /\ \A i \in 1 .. Len(ctl) : c[i] = ctl[i]
         /\ \A i \in 0 .. Len(ctl) : Own(c, i) = Own(ctl, i)
         /\ Own(c, Len(c)) = Own(ctl, Len(ctl)) /\ Framed(c, fns)
         /\ Shortened(c, ctl') /\ Own(ctl', Len(ctl')) = Own(ctl, Len(ctl))
<1> DEFINE a == Len(ir.fn)
           full == Frame(kind, "stmts", parts, from)
           fr == Frame(kind, parts[1].in, Tail(parts), from)
           S == FrameT(a + n, Len(fns))
<1>1. n \in Nat /\ a \in Nat /\ Plan(parts, a, n) /\ kind \in Kinds /\ Len(fns) \in Nat
      /\ ctl # <<>> /\ ctl' = Append(ctl, fr) /\ Len(ctl) \in Nat \ {0}
  BY Sizes DEF Begins, Begin
<1>2. from \in 0 .. a + n
  BY <1>1 DEF Begins, Typed, BlocksTyped
<1>3. /\ parts[1].in \in {"stmts", "expr"} /\ Tail(parts) \in Seq(PartT(a + n))
      /\ parts \in Seq(PartT(a + n))
  BY <1>1, PlanIs DEF Plan
<1>4. fr \in S /\ full \in S /\ fr.kind = kind /\ full.kind = kind /\ kind # "fn"
      /\ fr.from = full.from /\ fr.parts = Tail(parts) /\ full.parts = parts
  BY <1>1, <1>2, <1>3 DEF Frame, FrameT, Kinds
<1>5. ctl \in Seq(S)
  BY <1>1, StillTyped
<1>0. c = Append(ctl, full)
  BY DEF WholeFrame
<1> HIDE DEF full, fr, S
<1>6. /\ Len(c) = Len(ctl) + 1 /\ c # <<>> /\ c[Len(c)] = full
      /\ \A i \in 1 .. Len(ctl) : c[i] = ctl[i]
      /\ \A i \in 0 .. Len(ctl) : Own(c, i) = Own(ctl, i)
  BY <1>0, <1>4, <1>5, Pushed
<1>7. /\ Len(ctl') = Len(ctl) + 1 /\ ctl' # <<>> /\ ctl'[Len(ctl')] = fr
      /\ \A i \in 1 .. Len(ctl) : ctl'[i] = ctl[i]
      /\ \A i \in 0 .. Len(ctl) : Own(ctl', i) = Own(ctl, i)
  BY <1>1, <1>4, <1>5, Pushed
<1>8. Own(c, Len(c)) = Own(ctl, Len(ctl)) /\ Own(ctl', Len(ctl')) = Own(ctl, Len(ctl))
  <2>1. Len(c) \in Nat \ {0} /\ Len(c) - 1 = Len(ctl) /\ Len(ctl) \in 0 .. Len(ctl)
    BY <1>1, <1>6
  <2>2. Own(c, Len(c)) = Own(c, Len(c) - 1) /\ Own(ctl', Len(ctl')) = Own(ctl', Len(ctl') - 1)
    <3>1. c[Len(c)].kind # "fn" /\ ctl'[Len(c)].kind # "fn" /\ Len(ctl') = Len(c)
      BY <1>4, <1>6, <1>7
    <3> QED BY <2>1, <3>1, OwnStep
  <2> QED BY <1>6, <1>7, <2>1, <2>2
<1>9. \A i \in 1 .. Len(c) : i \in 1 .. Len(ctl) \/ i = Len(c)
  BY <1>1, <1>6
<1>10. \A i \in 1 .. Len(c) : i - 1 \in 0 .. Len(ctl)
  BY <1>1, <1>6
<1>11. Framed(c, fns)
  <2>1. 1 \in 1 .. Len(ctl)
    BY <1>1
  <2> QED BY <1>1, <1>4, <1>6, <1>9, <1>10, <2>1 DEF Context, Framed
<1>12. Shortened(c, ctl')
  <2>1. \A q \in DOMAIN Tail(parts) :
          q + 1 \in DOMAIN parts /\ q + 1 # 1 /\ q \in Nat /\ Tail(parts)[q] = parts[q + 1]
    BY <1>1, PlanIs
  <2>2. \A i \in 1 .. Len(ctl') : i \in 1 .. Len(ctl) \/ i = Len(c)
    BY <1>6, <1>7, <1>9
  <2>3. \A i \in 1 .. Len(ctl') : Own(ctl', i - 1) = Own(c, i - 1)
    BY <1>6, <1>7, <1>10
  <2>4. \A i \in 1 .. Len(ctl) : i # Len(c)
    BY <1>1, <1>6
  <2>5. Len(ctl') \in Nat /\ ctl' # <<>> /\ Len(ctl') = Len(c)
    BY <1>1, <1>6, <1>7
  <2>6. ASSUME NEW i \in 1 .. Len(ctl')
        PROVE  /\ ctl'[i].kind = c[i].kind /\ ctl'[i].from = c[i].from
               /\ i # Len(c) => ctl'[i].parts = c[i].parts
               /\ i = Len(c) => \A q \in DOMAIN ctl'[i].parts :
                    q + 1 \in DOMAIN c[i].parts /\ q + 1 # 1 /\ q \in Nat
                      /\ ctl'[i].parts[q] = c[i].parts[q + 1]
    <3>1. CASE i \in 1 .. Len(ctl)
      <4>1. ctl'[i] = c[i] /\ i # Len(c)
        BY <1>6, <1>7, <2>4, <3>1
      <4> QED BY <4>1
    <3>2. CASE i = Len(c)
      <4>1. ctl'[i] = fr /\ c[i] = full
        BY <1>6, <1>7, <2>5, <3>2
      <4> QED BY <1>4, <2>1, <3>2, <4>1
    <3> QED BY <2>2, <3>1, <3>2
  <2>7. Len(ctl') \in {Len(c), Len(c) - 1}
    BY <2>5
  <2> QED BY <2>3, <2>5, <2>6, <2>7 DEF Shortened
<1> QED BY <1>1, <1>4, <1>6, <1>7, <1>8, <1>11, <1>12

LEMMA NewBlocksGrows ==
  ASSUME NEW k \in Nat, Ir(ir, k), NEW n \in Nat, NEW m, m = NewBlocks(n), NEW T
  PROVE  Grows(ir, m, {}, 1, {}, T)
<1>1. /\ Blk(ir) \subseteq Blk(m)
      /\ \A b \in Blk(m) : /\ m.fn[b] = IF b \in Blk(ir) THEN ir.fn[b] ELSE 0
                           /\ m.out[b] = IF b \in Blk(ir) THEN ir.out[b] ELSE <<>>
  BY NewBlocksIs
<1> QED BY <1>1 DEF Grows

LEMMA PlanCore ==
  ASSUME ~EmitMain, Typed, Context, NEW kind, NEW n, NEW parts, NEW from, Begins(kind, n, parts, from),
         NEW K, Core(ir, ip, ctl, fns, labelMap, K),
         NEW c, WholeFrame(c, kind, parts, from), NEW m, m = NewBlocks(n),
         NEW K2, K2 = [b \in Blk(m) |-> IF b \in Blk(ir) THEN K[b] ELSE ForFrame(Len(c))]
  PROVE  Core(m, ip, c, fns, labelMap, K2)
<1>1. /\ K \in [Blk(ir) -> Nat] /\ Saved(ir, ip, ctl) /\ Straight(ir, Live(ip, ctl))
      /\ Frames(ir, ctl, K) /\ Returns(ir, fns, K) /\ Labels(ir, labelMap, K)
  BY DEF Core
<1>2. /\ Len(ctl) \in Nat \ {0} /\ Len(c) = Len(ctl) + 1 /\ c # <<>> /\ ctl # <<>>
      /\ c[Len(c)].kind # "fn" /\ c[Len(c)].parts = parts
      /\ \A i \in 1 .. Len(ctl) : c[i] = ctl[i]
      /\ \A i \in 0 .. Len(ctl) : Own(c, i) = Own(ctl, i)
      /\ Own(c, Len(c)) = Own(ctl, Len(ctl)) /\ Framed(c, fns)
  <2>1. Len(ctl) \in Nat \ {0} /\ Len(c) = Len(ctl) + 1 /\ c # <<>>
    BY BegunStack
  <2>2. c[Len(c)].kind # "fn" /\ c[Len(c)].parts = parts /\ Framed(c, fns)
    BY BegunStack
  <2>3. \A i \in 1 .. Len(ctl) : c[i] = ctl[i]
    BY BegunStack
  <2>4. \A i \in 0 .. Len(ctl) : Own(c, i) = Own(ctl, i)
    BY BegunStack
  <2>5. Own(c, Len(c)) = Own(ctl, Len(ctl))
    BY BegunStack
  <2>6. ctl # <<>>
    BY <2>1, EmptySeq
  <2> QED BY <2>1, <2>2, <2>3, <2>4, <2>5, <2>6
<1>3. /\ n \in Nat /\ Len(ir.fn) \in Nat /\ Len(fns) \in Nat /\ Plan(parts, Len(ir.fn), n)
      /\ Ir(ir, Len(fns)) /\ Framed(ctl, fns) /\ labelMap \in [Label -> 0 .. Len(ir.fn)]
  BY Sizes DEF Begins, Typed, BlocksTyped, TablesTyped, Context, Kinds
<1>5. PICK T : T = <<>>
  OBVIOUS
<1>6. Grows(ir, m, {}, 1, {}, T) /\ Len(m.fn) = Len(ir.fn) + n
  BY <1>3, NewBlocksIs, NewBlocksGrows
<1>7. K2 \in [Blk(m) -> Nat]
  BY <1>1, <1>2 DEF ForFrame
<1>8. Blk(ir) \subseteq Blk(m)
  BY <1>6 DEF Grows
<1>9. \A b, t : Held(ir, K, b, t) => Held(m, K2, b, t)
  <2> SUFFICES ASSUME NEW b, NEW t, Held(ir, K, b, t) PROVE Held(m, K2, b, t)
    OBVIOUS
  <2>1. b \in Blk(ir) /\ b \in Blk(m) /\ b \notin {}
    BY <1>8 DEF Held
  <2>2. K2[b] = K[b]
    BY <2>1
  <2> QED BY <1>6, <2>1, <2>2, HeldGrows
<1>10. \A i \in 1 .. Len(c) : i \in 1 .. Len(ctl) \/ i = Len(c)
  BY <1>2
<1>11. \A i \in 2 .. Len(c) : c[i].kind = "fn" => /\ i \in 2 .. Len(ctl) /\ ctl[i].kind = "fn" /\ c[i] = ctl[i]
                                                  /\ Own(c, i - 1) = Own(ctl, i - 1) /\ i - 1 \in 1 .. Len(ctl)
  <2> SUFFICES ASSUME NEW i \in 2 .. Len(c), c[i].kind = "fn"
               PROVE  /\ i \in 2 .. Len(ctl) /\ ctl[i].kind = "fn" /\ c[i] = ctl[i]
                      /\ Own(c, i - 1) = Own(ctl, i - 1) /\ i - 1 \in 1 .. Len(ctl)
    OBVIOUS
  <2>1. i # Len(c)
    BY <1>2
  <2>2. i \in 2 .. Len(ctl) /\ i \in 1 .. Len(ctl) /\ i - 1 \in 1 .. Len(ctl) /\ i - 1 \in 0 .. Len(ctl)
    BY <1>2, <2>1
  <2> QED BY <1>2, <2>2
<1>12. SavedBlocks(c) = SavedBlocks(ctl)
  <2>1. \A b : b \in SavedBlocks(c) => b \in SavedBlocks(ctl)
    <3> SUFFICES ASSUME NEW i \in 2 .. Len(c), c[i].kind = "fn" PROVE c[i].from \in SavedBlocks(ctl)
      BY DEF SavedBlocks
    <3> QED BY <1>11 DEF SavedBlocks
  <2>2. \A b : b \in SavedBlocks(ctl) => b \in SavedBlocks(c)
    <3> SUFFICES ASSUME NEW i \in 2 .. Len(ctl), ctl[i].kind = "fn" PROVE ctl[i].from \in SavedBlocks(c)
      BY DEF SavedBlocks
    <3>1. i \in 2 .. Len(c) /\ c[i] = ctl[i]
      BY <1>2
    <3> QED BY <3>1 DEF SavedBlocks
  <2> QED BY <2>1, <2>2
<1>13. Saved(m, ip, c)
  <2>1. ASSUME NEW i \in 2 .. Len(c), c[i].kind = "fn" PROVE InBody(m, c[i].from, Own(c, i - 1))
    <3>1. /\ InBody(ir, ctl[i].from, Own(ctl, i - 1)) /\ c[i] = ctl[i] /\ Own(c, i - 1) = Own(ctl, i - 1)
          /\ i - 1 \in 1 .. Len(ctl)
      BY <1>1, <1>11, <2>1 DEF Saved
    <3>2. Own(ctl, i - 1) # 0
      <4>1. Own(ctl, i - 1) \in 1 .. Len(fns)
        BY <1>2, <1>3, <3>1, OwnIs
      <4> QED BY <4>1
    <3> QED BY <1>6, <3>1, <3>2, InBodyGrows
  <2>2. InBody(m, ip, Own(c, Len(c)))
    <3>1. InBody(ir, ip, Own(ctl, Len(ctl)))
      BY <1>1, <1>2 DEF Saved
    <3>2. Own(ctl, Len(ctl)) # 0
      <4>1. Own(ctl, Len(ctl)) \in 1 .. Len(fns)
        BY <1>2, <1>3, OwnIs
      <4> QED BY <4>1
    <3> QED BY <1>2, <1>6, <3>1, <3>2, InBodyGrows
  <2> QED BY <2>1, <2>2 DEF Saved
<1>14. Straight(m, Live(ip, c))
  <2>1. Live(ip, ctl) \subseteq Blk(ir)
    BY <1>1, <1>2, <1>3, LiveFacts
  <2>2. Live(ip, c) = Live(ip, ctl)
    BY <1>2, <1>12 DEF Live
  <2>3. \A b \in Blk(m) : b \in Live(ip, c) <=> (b \in Live(ip, ctl) \/ b \in {}) /\ b \notin {}
    BY <2>2
  <2> QED BY <1>1, <1>6, <2>1, <2>3, StraightGrows
<1>15. Frames(m, c, K2)
  <2>1. ASSUME NEW i \in 1 .. Len(ctl) PROVE Distinct(c[i]) /\ Reserved(m, K2, c[i], i)
    <3>1. Distinct(ctl[i]) /\ Reserved(ir, K, ctl[i], i) /\ c[i] = ctl[i]
      BY <1>1, <1>2 DEF Frames
    <3> QED BY <1>9, <3>1 DEF Reserved
  <2>2. Distinct(c[Len(c)])
    BY <1>2, <1>3 DEF Plan, Apart, Distinct
  <2>3. Reserved(m, K2, c[Len(c)], Len(c))
    <3> SUFFICES ASSUME NEW q \in DOMAIN parts, NEW h \in DOMAIN parts[q].hops
                 PROVE  Held(m, K2, parts[q].hops[h].at, ForFrame(Len(c)))
      BY <1>2 DEF Reserved
    <3>1. parts[q].hops[h].at \in Len(ir.fn) + 1 .. Len(ir.fn) + n
      BY <1>3 DEF Plan, Within
    <3>2. parts[q].hops[h].at \in Blk(m) /\ parts[q].hops[h].at \notin Blk(ir)
      BY <1>3, <1>6, <3>1 DEF Blk
    <3>3. m.fn[parts[q].hops[h].at] = 0
      BY <1>6, <3>2 DEF Grows
    <3> QED BY <3>2, <3>3 DEF Held
  <2> QED BY <1>2, <1>10, <2>1, <2>2, <2>3 DEF Frames
<1>16. Returns(m, fns, K2)
  BY <1>1, <1>9 DEF Returns
<1>17. Labels(m, labelMap, K2)
  <2> SUFFICES ASSUME NEW l \in Label, labelMap[l] # 0, m.fn[labelMap[l]] = 0 PROVE K2[labelMap[l]] = ForLabel
    BY DEF Labels
  <2>1. labelMap[l] \in Blk(ir) /\ labelMap[l] \in Blk(m)
    BY <1>3, <1>8 DEF Blk
  <2>2. ir.fn[labelMap[l]] = 0
    BY <1>6, <2>1 DEF Grows
  <2>3. K[labelMap[l]] = ForLabel
    BY <1>1, <2>2 DEF Labels
  <2> QED BY <2>1, <2>3
<1> QED BY <1>7, <1>13, <1>14, <1>15, <1>16, <1>17 DEF Core

LEMMA BeginsCore ==
  ASSUME ~EmitMain, Typed, Context, NEW kind, NEW n, NEW parts, NEW from, Begins(kind, n, parts, from),
         NEW K, Core(ir, ip, ctl, fns, labelMap, K)
  PROVE  Core(ir', ip', ctl', fns', labelMap', BegunUse(K))
<1> DEFINE a == Len(ir.fn)
           c == Append(ctl, Frame(kind, "stmts", parts, from))
           m == NewBlocks(n)
           K2 == BegunUse(K)
           hops == parts[1].hops
<1>1. /\ n \in Nat /\ a \in Nat /\ Plan(parts, a, n) /\ kind # "fn" /\ Len(fns) \in Nat
      /\ ir' = Jump(m, hops) /\ ip' = Landing(hops) /\ UNCHANGED <<labelMap, currFn, fns>>
      /\ Ir(ir, Len(fns)) /\ currFn \in 0 .. Len(fns) /\ currFn = Own(ctl, Len(ctl))
      /\ labelMap \in [Label -> 0 .. a]
  BY Sizes DEF Begins, Begin, Kinds, UnchangedFn, Typed, BlocksTyped, FnsTyped, TablesTyped, Context, Stacked
<1>2. Ir(m, Len(fns)) /\ Len(m.fn) = a + n
  BY <1>1, NewBlocksIs
<1>3. 1 \in DOMAIN parts /\ parts[1] \in PartT(a + n) /\ hops # <<>>
  BY <1>1, PlanIs
<1>4. hops \in Seq(HopT(Len(m.fn)))
  BY <1>2, <1>3 DEF PartT
<1>6. labelMap \in [Label -> 0 .. Len(m.fn)]
  BY <1>1, <1>2
<1>7. WholeFrame(c, kind, parts, from) /\ m = NewBlocks(n)
  BY DEF WholeFrame
<1>8. K2 = [b \in Blk(ir') |-> IF b \in Blk(ir) THEN K[b] ELSE ForFrame(Len(ctl'))]
  BY DEF BegunUse
<1> HIDE DEF c, m, K2, hops
<1>9. /\ Len(ctl) \in Nat \ {0} /\ Len(c) = Len(ctl) + 1 /\ c # <<>> /\ Len(ctl') = Len(c)
      /\ c[Len(c)].kind # "fn" /\ c[Len(c)].parts = parts
      /\ Own(c, Len(c)) = Own(ctl, Len(ctl)) /\ Framed(c, fns)
      /\ Shortened(c, ctl') /\ Own(ctl', Len(ctl')) = Own(ctl, Len(ctl))
  <2>1. Len(ctl) \in Nat \ {0} /\ Len(c) = Len(ctl) + 1 /\ c # <<>> /\ Len(ctl') = Len(c)
    BY <1>7, BegunStack
  <2>2. c[Len(c)].kind # "fn" /\ c[Len(c)].parts = parts /\ Own(c, Len(c)) = Own(ctl, Len(ctl)) /\ Framed(c, fns)
    BY <1>7, BegunStack
  <2>3. Shortened(c, ctl')
    BY <1>7, BegunStack
  <2>4. Own(ctl', Len(ctl')) = Own(ctl, Len(ctl))
    BY <1>7, BegunStack
  <2> QED BY <2>1, <2>2, <2>3, <2>4
<1>10. Blk(ir') = Blk(m)
  BY <1>1, <1>2, <1>4, JumpIs
<1>11. K2 = [b \in Blk(m) |-> IF b \in Blk(ir) THEN K[b] ELSE ForFrame(Len(c))]
  BY <1>8, <1>9, <1>10
<1>12. Core(m, ip, c, fns, labelMap, K2)
  BY <1>7, <1>11, PlanCore
<1>13. Core(ir', Landing(hops), ctl', fns, labelMap, K2)
  <2>1. Len(c) \in Nat \ {0} /\ c # <<>> /\ currFn = Own(c, Len(c)) /\ c[Len(c)].kind # "fn"
        /\ 1 \in DOMAIN c[Len(c)].parts /\ hops = c[Len(c)].parts[1].hops
        /\ Own(ctl', Len(ctl')) = currFn
    BY <1>1, <1>3, <1>9 DEF hops
  <2> QED BY <1>1, <1>2, <1>3, <1>4, <1>6, <1>9, <1>12, <2>1, JumpCore
<1> QED BY <1>1, <1>13 DEF K2

(***************************************************************************)
(* Every step keeps Core.                                                  *)
(***************************************************************************)
LEMMA RestCore ==
  ASSUME ~EmitMain, Typed, Context, RejectFunction \/ EndUnit \/ UNCHANGED vars,
         NEW K, Core(ir, ip, ctl, fns, labelMap, K)
  PROVE  Core(ir', ip', ctl', fns', labelMap', K)
<1>1. ir' = ir /\ ip' = ip /\ ctl' = ctl /\ labelMap' = labelMap
  BY DEF RejectFunction, EndUnit, vars
<1>2. CASE RejectFunction
  <2>1. phase = "walk" /\ ctl # <<>> /\ Top.kind = "fn" /\ Top = ctl[Len(ctl)] /\ Len(ctl) \in 1 .. Len(ctl)
        /\ fns' = [fns EXCEPT ![Top.fn].final = "rejected"]
    BY <1>2, Sizes DEF RejectFunction, Top
  <2>2. Top.fn \in Fn
    BY <2>1, OthersAround
  <2>3. fns[Top.fn].final = "open"
    BY <2>1 DEF Context, Opened
  <2>4. /\ Len(fns') = Len(fns)
        /\ \A h \in Fn : fns'[h] = IF h = Top.fn THEN [fns[Top.fn] EXCEPT !.final = "rejected"] ELSE fns[h]
    BY <2>1, <2>2, FinalUpdate
  <2>5. \A h \in Fn : fns'[h].ret = fns[h].ret /\ fns'[h].final = IF h = Top.fn THEN "rejected" ELSE fns[h].final
    <3> TAKE h \in Fn
    <3>1. fns[h] \in FnT(Len(ir.fn))
      BY Sizes
    <3> QED BY <2>4, <3>1 DEF FnT
  <2>6. Unfinished(fns') = Unfinished(fns)
    BY <2>2, <2>3, <2>4, <2>5, Sizes DEF Unfinished
  <2>7. \A h \in Unfinished(fns) : h \in Fn
    BY Sizes DEF Unfinished
  <2>8. Returns(ir, fns', K)
    BY <2>5, <2>6, <2>7 DEF Core, Returns
  <2> QED BY <1>1, <2>8 DEF Core
<1>3. CASE EndUnit \/ UNCHANGED vars
  <2>1. fns' = fns
    BY <1>3 DEF EndUnit, vars
  <2> QED BY <1>1, <2>1
<1> QED BY <1>2, <1>3

(* the blocks have their purposes *)
Sound == \E K : Core(ir, ip, ctl, fns, labelMap, K)

LEMMA SoundInit == ASSUME ~EmitMain, Init PROVE Sound
<1>1. ir = [fn |-> <<>>, out |-> <<>>] /\ fns = <<>> /\ ctl = <<>> /\ labelMap = [l \in Label |-> 0]
  BY DEF Init
<1>2. Len(ir.fn) = 0 /\ Len(fns) = 0 /\ Len(ctl) = 0
  BY <1>1, EmptySeq
<1>3. Blk(ir) = {} /\ Unfinished(fns) = {}
  BY <1>2 DEF Blk, Unfinished
<1>4. PICK K : K = [b \in Blk(ir) |-> 0]
  OBVIOUS
<1>5. K \in [Blk(ir) -> Nat]
  BY <1>4
<1>6. Saved(ir, ip, ctl) /\ Straight(ir, Live(ip, ctl)) /\ Frames(ir, ctl, K) /\ Returns(ir, fns, K)
  BY <1>1, <1>2, <1>3 DEF Saved, Straight, Frames, Returns
<1>7. Labels(ir, labelMap, K)
  BY <1>1 DEF Labels
<1> QED BY <1>5, <1>6, <1>7 DEF Core, Sound

LEMMA SoundStep ==
  ASSUME ~EmitMain, Typed, Context, Sound, [Next]_vars
  PROVE  Sound'
<1>0. PICK K : Core(ir, ip, ctl, fns, labelMap, K)
  BY DEF Sound
<1>1. CASE Diverting
  <2>1. Core(ir', ip', ctl', fns', labelMap', LabelUse(K))
    BY <1>0, <1>1, DivertingCore
  <2> QED BY <2>1 DEF Sound
<1>2. ASSUME NEW kind, NEW n, NEW parts, NEW from, Begins(kind, n, parts, from) PROVE Sound'
  <2>1. Core(ir', ip', ctl', fns', labelMap', BegunUse(K))
    BY <1>0, <1>2, BeginsCore
  <2> QED BY <2>1 DEF Sound
<1>3. CASE EndPart \/ EndConstruct
  <2>1. Core(ir', ip', ctl', fns', labelMap', K)
    BY <1>0, <1>3, PartEndsCore
  <2> QED BY <2>1 DEF Sound
<1>4. ASSUME NEW valued \in Valued, EnterFunction(valued) PROVE Sound'
  <2>1. Core(ir', ip', ctl', fns', labelMap', EnteredUse(K))
    BY <1>0, <1>4, EnterCore
  <2> QED BY <2>1 DEF Sound
<1>5. CASE LeaveFunction
  <2>1. Core(ir', ip', ctl', fns', labelMap', K)
    BY <1>0, <1>5, LeaveCore
  <2> QED BY <2>1 DEF Sound
<1>6. CASE RejectFunction \/ EndUnit \/ UNCHANGED vars
  <2>1. Core(ir', ip', ctl', fns', labelMap', K)
    BY <1>0, <1>6, RestCore
  <2> QED BY <2>1 DEF Sound
<1> QED BY <1>1, <1>2, <1>3, <1>4, <1>5, <1>6, StepKinds DEF Beginning

LEMMA SoundInsertion ==
  ASSUME ~EmitMain, Typed, Context, Sound
  PROVE  InsertionPointInBody
<1> SUFFICES ASSUME Enclosing # 0
             PROVE  ir.fn[ip] = Enclosing /\ ir.out[ip] = <<>> /\ currFn = Enclosing
  BY DEF InsertionPointInBody
<1>1. PICK K : Core(ir, ip, ctl, fns, labelMap, K)
  BY DEF Sound
<1>2. Enclosing = Own(ctl, Len(ctl)) /\ currFn = Own(ctl, Len(ctl))
  BY EnclosingIs DEF Context, Stacked
<1>3. Len(ctl) # 0 /\ ctl # <<>>
  <2>1. Len(ctl) # 0
    BY <1>2, OwnZero DEF Base
  <2> QED BY <2>1, EmptySeq
<1>4. Saved(ir, ip, ctl) /\ Straight(ir, Live(ip, ctl)) /\ Framed(ctl, fns)
  BY <1>1 DEF Core, Context
<1>5. ip \in Blk(ir) /\ ir.fn[ip] = Own(ctl, Len(ctl)) /\ ir.out[ip] = <<>>
  BY <1>3, <1>4, Sizes, LiveFacts
<1> QED BY <1>2, <1>5

(* Without -main, whatever is nested in whatever, instructions go into a    *)
(* block of the function whose body is being walked that has no terminator  *)
(* yet: every fresh block of the walk (walk_break, walk_ret, walk_if_...),  *)
(* and the saved_insert_bb restored after an inner function, is one.        *)
THEOREM InsertionPoint == ASSUME ~EmitMain PROVE Spec => []InsertionPointInBody
<1>1. Init => Typed /\ Context /\ Sound
  BY TypedInit, SoundInit
<1>2. Typed /\ Context /\ Sound /\ [Next]_vars => (Typed /\ Context /\ Sound)'
  BY TypedStep, SoundStep
<1>3. Typed /\ Context /\ Sound => InsertionPointInBody
  BY SoundInsertion
<1> QED BY <1>1, <1>2, <1>3, PTL DEF Spec

(***************************************************************************)
(* Phis.  J are the blocks that && and || create for their results: only   *)
(* the construct itself branches there, once from where the first operand  *)
(* ended (`from') and once from where the second does.  None of this needs *)
(* to know where the blocks are inserted, so it holds with -main as well.  *)
(***************************************************************************)

(* what a block with these terminators branches to *)
Reached(out) == UNION {out[i] : i \in DOMAIN out}
TargetsOf(m, b) == Reached(m.out[b])

Preds(m, x) == {b \in Blk(m) : x \in TargetsOf(m, b)}

(* m2 has the branches of m, and others to blocks of U *)
Adds(m, m2, U) ==
  /\ Blk(m) \subseteq Blk(m2)
  /\ \A b \in Blk(m) : /\ TargetsOf(m, b) \subseteq TargetsOf(m2, b)
                       /\ TargetsOf(m2, b) \subseteq TargetsOf(m, b) \cup U
  /\ \A b \in Blk(m2) \ Blk(m) : TargetsOf(m2, b) \subseteq U

LEMMA AddsPreds ==
  ASSUME NEW m, NEW m2, NEW U, Adds(m, m2, U), NEW x, x \notin U
  PROVE  Preds(m2, x) = Preds(m, x)
<1>1. \A b : b \in Preds(m2, x) <=> b \in Preds(m, x)
  BY DEF Adds, Preds
<1> QED BY <1>1

LEMMA AddsChain ==
  ASSUME NEW m, NEW m1, NEW m2, NEW U, NEW V, Adds(m, m1, U), Adds(m1, m2, V)
  PROVE  Adds(m, m2, U \cup V)
<1>1. Blk(m) \subseteq Blk(m2)
  BY DEF Adds
<1>2. ASSUME NEW b \in Blk(m)
      PROVE  /\ TargetsOf(m, b) \subseteq TargetsOf(m2, b)
             /\ TargetsOf(m2, b) \subseteq TargetsOf(m, b) \cup (U \cup V)
  <2>1. /\ TargetsOf(m, b) \subseteq TargetsOf(m1, b) /\ TargetsOf(m1, b) \subseteq TargetsOf(m, b) \cup U
        /\ TargetsOf(m1, b) \subseteq TargetsOf(m2, b) /\ TargetsOf(m2, b) \subseteq TargetsOf(m1, b) \cup V
    BY DEF Adds
  <2> QED BY <2>1
<1>3. ASSUME NEW b \in Blk(m2) \ Blk(m) PROVE TargetsOf(m2, b) \subseteq U \cup V
  <2>1. CASE b \in Blk(m1)
    <3>1. TargetsOf(m1, b) \subseteq U /\ TargetsOf(m2, b) \subseteq TargetsOf(m1, b) \cup V
      BY <2>1 DEF Adds
    <3> QED BY <3>1
  <2>2. CASE b \notin Blk(m1)
    <3>1. TargetsOf(m2, b) \subseteq V
      BY <2>2 DEF Adds
    <3> QED BY <3>1
  <2> QED BY <2>1, <2>2
<1> QED BY <1>1, <1>2, <1>3 DEF Adds

(* a terminator more *)
LEMMA InReached ==
  ASSUME NEW s, NEW x
  PROVE  x \in Reached(s) <=> \E i \in DOMAIN s : x \in s[i]
BY Zenon DEF Reached

LEMMA TargetsAppend ==
  ASSUME NEW S, NEW s \in Seq(S), NEW T \in S
  PROVE  Reached(Append(s, T)) = Reached(s) \cup T
<1> DEFINE r == Append(s, T)
<1>1. /\ Len(s) \in Nat /\ DOMAIN s = 1 .. Len(s) /\ DOMAIN r = 1 .. Len(s) + 1
      /\ r[Len(s) + 1] = T /\ \A i \in 1 .. Len(s) : r[i] = s[i]
  BY AppendProperties, LenProperties
<1> HIDE DEF r
<1>2. \A i \in DOMAIN r : i \in DOMAIN s \/ i = Len(s) + 1
  BY <1>1
<1>3. Len(s) + 1 \in DOMAIN r /\ \A i \in DOMAIN s : i \in DOMAIN r
  BY <1>1
<1>4. \A x : (\E i \in DOMAIN r : x \in r[i]) <=> (\E i \in DOMAIN s : x \in s[i]) \/ x \in T
  <2> TAKE x
  <2>1. (\E i \in DOMAIN s : x \in s[i]) \/ x \in T => \E i \in DOMAIN r : x \in r[i]
    BY <1>1, <1>3
  <2>2. (\E i \in DOMAIN r : x \in r[i]) => (\E i \in DOMAIN s : x \in s[i]) \/ x \in T
    BY <1>1, <1>2
  <2> QED BY <2>1, <2>2
<1>5. \A x : x \in Reached(r) <=> x \in Reached(s) \/ x \in T
  BY <1>4, InReached
<1> QED BY <1>5 DEF r

LEMMA NewBlocksAdds ==
  ASSUME NEW k \in Nat, Ir(ir, k), NEW n \in Nat
  PROVE  Adds(ir, NewBlocks(n), {})
<1> DEFINE m == NewBlocks(n)
<1>1. /\ Blk(ir) \subseteq Blk(m)
      /\ \A b \in Blk(m) : m.out[b] = IF b \in Blk(ir) THEN ir.out[b] ELSE <<>>
  BY NewBlocksIs
<1> HIDE DEF m
<1>2. DOMAIN <<>> = {}
  OBVIOUS
<1>3. \A b \in Blk(m) : TargetsOf(m, b) = IF b \in Blk(ir) THEN TargetsOf(ir, b) ELSE {}
  <2> TAKE b \in Blk(m)
  <2>1. CASE b \in Blk(ir)
    BY <1>1, <2>1 DEF TargetsOf
  <2>2. CASE b \notin Blk(ir)
    <3>1. m.out[b] = <<>>
      BY <1>1, <2>2
    <3>2. \A x : x \notin Reached(<<>>)
      BY <1>2, InReached
    <3> QED BY <2>2, <3>1, <3>2 DEF TargetsOf
  <2> QED BY <2>1, <2>2
<1>4. Adds(ir, m, {})
  BY <1>1, <1>3 DEF Adds
<1> QED BY <1>4 DEF m

LEMMA BranchAdds ==
  ASSUME NEW m, NEW k, Ir(m, k), NEW b \in Blk(m), NEW T \in SUBSET Blk(m)
  PROVE  /\ Adds(m, Branch(m, b, T), T)
         /\ TargetsOf(Branch(m, b, T), b) = TargetsOf(m, b) \cup T
<1> DEFINE r == Branch(m, b, T)
<1>1. /\ Blk(r) = Blk(m)
      /\ \A x \in Blk(m) : r.out[x] = IF x = b THEN Append(m.out[b], T) ELSE m.out[x]
  BY BranchIs
<1> HIDE DEF r
<1>2. m.out[b] \in Seq(SUBSET Blk(m))
  BY IrFacts
<1>3. TargetsOf(r, b) = TargetsOf(m, b) \cup T
  BY <1>1, <1>2, TargetsAppend DEF TargetsOf
<1>4. \A x \in Blk(m) : x # b => TargetsOf(r, x) = TargetsOf(m, x)
  BY <1>1 DEF TargetsOf
<1>5. Adds(m, r, T)
  BY <1>1, <1>3, <1>4 DEF Adds
<1> QED BY <1>3, <1>5 DEF r

LEMMA SameOutAdds ==
  ASSUME NEW m, NEW m2, m2.out = m.out, Blk(m2) = Blk(m)
  PROVE  Adds(m, m2, {})
<1>1. \A b : TargetsOf(m2, b) = TargetsOf(m, b)
  BY DEF TargetsOf
<1> QED BY <1>1 DEF Adds

LEMMA JumpAdds ==
  ASSUME NEW m, NEW k, Ir(m, k), NEW hops \in Seq(HopT(Len(m.fn))), currFn \in 0 .. k,
         NEW U, \A h \in DOMAIN hops : hops[h].to \subseteq U
  PROVE  Adds(m, Jump(m, hops), U)
<1> DEFINE r == Jump(m, hops)
<1>1. Blk(r) = Blk(m) /\ \A b \in Blk(m) : m.out[b] \in Seq(SUBSET Blk(m))
  BY IrFacts, JumpIs
<1>2. ASSUME NEW b \in Blk(m)
      PROVE  r.out[b] = m.out[b] \/ \E i \in DOMAIN hops : r.out[b] = Append(m.out[b], hops[i].to)
  <2>1. DOMAIN m.out = Blk(m)
    BY IrFacts
  <2>2. r.out[b] = IF \E i \in DOMAIN hops : Source(hops, i) = b
                     THEN Append(m.out[b], hops[CHOOSE i \in DOMAIN hops : Source(hops, i) = b].to)
                     ELSE m.out[b]
    BY <2>1 DEF Jump
  <2> QED BY <2>2
<1> HIDE DEF r
<1>3. \A i \in DOMAIN hops : hops[i].to \in SUBSET Blk(m)
  <2>1. \A i \in 1 .. Len(hops) : hops[i] \in HopT(Len(m.fn))
    BY ElementOfSeq
  <2>2. DOMAIN hops = 1 .. Len(hops)
    BY LenProperties
  <2> QED BY <2>1, <2>2 DEF HopT, Blk
<1>4. ASSUME NEW b \in Blk(m)
      PROVE  TargetsOf(m, b) \subseteq TargetsOf(r, b) /\ TargetsOf(r, b) \subseteq TargetsOf(m, b) \cup U
  <2>1. CASE r.out[b] = m.out[b]
    BY <2>1 DEF TargetsOf
  <2>2. ASSUME NEW i \in DOMAIN hops, r.out[b] = Append(m.out[b], hops[i].to)
        PROVE  TargetsOf(m, b) \subseteq TargetsOf(r, b) /\ TargetsOf(r, b) \subseteq TargetsOf(m, b) \cup U
    <3>1. TargetsOf(r, b) = TargetsOf(m, b) \cup hops[i].to
      BY <1>1, <1>3, <2>2, TargetsAppend DEF TargetsOf
    <3> QED BY <3>1
  <2> QED BY <1>2, <2>1, <2>2
<1>5. Adds(m, r, U)
  BY <1>1, <1>4 DEF Adds
<1> QED BY <1>5 DEF r

(***************************************************************************)
(* What a frame still branches to, and what a loop may be left or repeated *)
(* through, is none of J; a && or || that is open has the rest of its plan *)
(* left, and only the first of its two branches has been made.             *)
(***************************************************************************)
Avoids(fr, J) ==
  \A q \in DOMAIN fr.parts :
    /\ \A h \in DOMAIN fr.parts[q].hops : fr.parts[q].hops[h].to \cap J = {}
    /\ \A j \in DOMAIN fr.parts[q].loop :
         fr.parts[q].loop[j].cond \notin J /\ fr.parts[q].loop[j].out \notin J

Outbb(fr) == fr.parts[1].hops[1].at

Joining(m, fr, J) ==
  /\ fr.parts = <<Last(<<Hop({Outbb(fr)}, Outbb(fr))>>)>>
  /\ Outbb(fr) \in J /\ Preds(m, Outbb(fr)) = {fr.from}

Merges(m, c, J) ==
  /\ \A i \in 1 .. Len(c) : IF c[i].kind = "landor" THEN Joining(m, c[i], J) ELSE Avoids(c[i], J)
  /\ \A i, k \in 1 .. Len(c) :
       c[i].kind = "landor" /\ c[k].kind = "landor" /\ Outbb(c[i]) = Outbb(c[k]) => i = k

(* the phi instructions there are name their predecessors, and are done *)
Named(m, c, ph, J) ==
  \A p \in ph :
    /\ p.at \in J /\ p.in = Preds(m, p.at)
    /\ \A i \in 1 .. Len(c) : c[i].kind = "landor" => Outbb(c[i]) # p.at

Free(F, lm, lp, J) ==
  /\ \A f \in 1 .. Len(F) : F[f].ret \notin J
  /\ \A l \in Label : lm[l] \notin J
  /\ \A j \in 1 .. Len(lp) : lp[j].cond \notin J /\ lp[j].out \notin J

Joined(J, m, c, F, lm, lp, ph) ==
  J \subseteq Blk(m) /\ Merges(m, c, J) /\ Named(m, c, ph, J) /\ Free(F, lm, lp, J)

(* a step that branches to none of J, and puts no && or || on the stack *)
LEMMA JoinedKeeps ==
  ASSUME NEW J, NEW m, NEW c, NEW F, NEW lm, NEW lp, NEW ph, Joined(J, m, c, F, lm, lp, ph),
         NEW m2, NEW U, Adds(m, m2, U), \A x \in J : x \notin U,
         NEW d, \A i \in 1 .. Len(d) : \/ i \in 1 .. Len(c) /\ d[i] = c[i]
                                       \/ d[i].kind # "landor" /\ Avoids(d[i], J),
         NEW F2, NEW lm2, NEW lp2, Free(F2, lm2, lp2, J)
  PROVE  Joined(J, m2, d, F2, lm2, lp2, ph)
<1>1. \A x \in J : Preds(m2, x) = Preds(m, x)
  BY AddsPreds
<1>2. \A i \in 1 .. Len(d) : d[i].kind = "landor" => i \in 1 .. Len(c) /\ d[i] = c[i]
  OBVIOUS
<1>3. J \subseteq Blk(m2)
  BY DEF Joined, Adds
<1>4. Merges(m2, d, J)
  <2>1. ASSUME NEW i \in 1 .. Len(d), d[i].kind = "landor" PROVE Joining(m2, d[i], J)
    <3>1. Joining(m, d[i], J)
      BY <1>2, <2>1 DEF Joined, Merges
    <3> QED BY <1>1, <3>1 DEF Joining
  <2>2. ASSUME NEW i \in 1 .. Len(d), d[i].kind # "landor" PROVE Avoids(d[i], J)
    BY <2>2 DEF Joined, Merges
  <2>3. \A i, k \in 1 .. Len(d) :
          d[i].kind = "landor" /\ d[k].kind = "landor" /\ Outbb(d[i]) = Outbb(d[k]) => i = k
    BY <1>2 DEF Joined, Merges
  <2> QED BY <2>1, <2>2, <2>3 DEF Merges
<1>5. Named(m2, d, ph, J)
  BY <1>1, <1>2 DEF Joined, Named
<1> QED BY <1>3, <1>4, <1>5 DEF Joined

LEMMA AvoidsEmpty ==
  ASSUME NEW fr, fr.parts = <<>>, NEW J
  PROVE  Avoids(fr, J)
<1>1. DOMAIN <<>> = {}
  OBVIOUS
<1> QED BY <1>1 DEF Avoids

(***************************************************************************)
(* The steps.                                                              *)
(***************************************************************************)
LEMMA DivertJoined ==
  ASSUME Typed, Context, NEW n, NEW targets, NEW extra, Diverts(n, targets, extra),
         NEW J, Joined(J, ir, ctl, fns, labelMap, loops, phis), \A t \in targets : t \notin J,
         \A l \in Label : labelMap'[l] \notin J
  PROVE  Joined(J, ir', ctl', fns', labelMap', loops', phis')
<1> DEFINE m == NewBlocks(n)
           r == Branch(m, ip, targets)
<1>1. n \in Nat /\ Len(fns) \in Nat /\ Ir(ir, Len(fns)) /\ Len(ir.fn) \in Nat /\ ip \in Blk(ir)
      /\ currFn \in 0 .. Len(fns)
  <2>1. EmitMain \/ ctl # <<>>
    BY DEF Diverts, Statement, StatementPlace
  <2> QED BY <2>1, Inside, Sizes DEF Diverts, Typed, BlocksTyped, FnsTyped
<1>2. Ir(m, Len(fns)) /\ Len(m.fn) = Len(ir.fn) + n /\ Blk(ir) \subseteq Blk(m) /\ Adds(ir, m, {})
  BY <1>1, NewBlocksIs, NewBlocksAdds
<1>3. ir' = Insert(r, extra, currFn) /\ targets \in SUBSET Blk(m) /\ extra \in Blk(m) /\ ip \in Blk(m)
  BY <1>1, <1>2 DEF Diverts, Divert, Blk
<1> HIDE DEF m
<1>4. Ir(r, Len(fns)) /\ Blk(r) = Blk(m) /\ Adds(m, r, targets)
  BY <1>2, <1>3, BranchIs, BranchAdds
<1> HIDE DEF r
<1>5. ir'.out = r.out /\ Blk(ir') = Blk(r)
  BY <1>1, <1>3, <1>4, InsertIs
<1>6. Adds(r, ir', {})
  BY <1>5, SameOutAdds
<1>7. Adds(ir, ir', ({} \cup targets) \cup {})
  BY <1>2, <1>4, <1>6, AddsChain
<1>8. ctl' = ctl /\ loops' = loops /\ phis' = phis /\ Len(fns') = Len(fns)
      /\ \A f \in Fn : fns'[f].ret = fns[f].ret
  BY DEF Diverts, SameFns
<1>9. Free(fns', labelMap', loops', J)
  BY <1>8, Sizes DEF Joined, Free
<1>10. Joined(J, ir', ctl, fns', labelMap', loops', phis)
  BY <1>7, <1>9, JoinedKeeps
<1> QED BY <1>8, <1>10

LEMMA DivertingJoined ==
  ASSUME Typed, Context, Diverting, NEW J, Joined(J, ir, ctl, fns, labelMap, loops, phis)
  PROVE  Joined(J, ir', ctl', fns', labelMap', loops', phis')
<1>1. /\ J \subseteq Blk(ir) /\ \A f \in Fn : fns[f].ret \notin J
      /\ \A l \in Label : labelMap[l] \notin J
      /\ \A j \in 1 .. Len(loops) : loops[j].cond \notin J /\ loops[j].out \notin J
  BY Sizes DEF Joined, Free
<1>2. Len(ir.fn) \in Nat /\ Len(loops) \in Nat /\ labelMap \in [Label -> 0 .. Len(ir.fn)]
  BY Sizes DEF Typed, TablesTyped
<1>3. New(1) \notin J
  BY <1>1, <1>2 DEF New, Blk
<1>4. CASE Break \/ Continue
  <2>1. PICK t \in {InnermostLoop.out, InnermostLoop.cond} : Diverts(1, {t}, New(1))
    BY <1>4, BreakDiverts
  <2>2. loops # <<>> /\ labelMap' = labelMap
    BY <1>4 DEF Break, Continue, InLoop
  <2>3. Len(loops) \in 1 .. Len(loops)
    <3>1. Len(loops) # 0
      BY <2>2, EmptySeq DEF Typed, TablesTyped
    <3> QED BY <1>2, <3>1
  <2>4. t \notin J
    BY <1>1, <2>1, <2>3 DEF InnermostLoop
  <2> QED BY <1>1, <2>1, <2>2, <2>4, DivertJoined
<1>5. CASE Return
  <2>1. Diverts(1, {fns[currFn].ret}, New(1)) /\ currFn \in Fn
    BY <1>5, ReturnDiverts
  <2>2. labelMap' = labelMap
    BY <1>5 DEF Return
  <2>3. \A t \in {fns[currFn].ret} : t \notin J
    BY <1>1, <2>1
  <2>4. \A l \in Label : labelMap'[l] \notin J
    BY <1>1, <2>2
  <2> QED BY <2>1, <2>3, <2>4, DivertJoined
<1>6. ASSUME NEW l \in Label, Goto(l) PROVE Joined(J, ir', ctl', fns', labelMap', loops', phis')
  <2>1. PICK b : b = IF labelMap[l] # 0 THEN labelMap[l] ELSE New(1)
    OBVIOUS
  <2>2. PICK n : n = IF labelMap[l] # 0 THEN 1 ELSE 2
    OBVIOUS
  <2>3. Diverts(n, {b}, New(n)) /\ labelMap' = [labelMap EXCEPT ![l] = b]
    BY <1>6, <2>1, <2>2, GotoDiverts
  <2>4. \A t \in {b} : t \notin J
    BY <1>1, <1>3, <2>1
  <2>5. \A k \in Label : labelMap'[k] \notin J
    BY <1>1, <1>2, <2>3, <2>4
  <2>6. Diverts(n, {b}, New(n))
    BY <2>3
  <2> QED BY <2>4, <2>5, <2>6, DivertJoined
<1>7. ASSUME NEW l \in Label, DefineLabel(l) PROVE Joined(J, ir', ctl', fns', labelMap', loops', phis')
  <2>1. PICK b : b = IF labelMap[l] # 0 THEN labelMap[l] ELSE New(1)
    OBVIOUS
  <2>2. PICK n : n = IF labelMap[l] # 0 THEN 0 ELSE 1
    OBVIOUS
  <2>3. Diverts(n, {b}, b) /\ labelMap' = [labelMap EXCEPT ![l] = b]
    BY <1>7, <2>1, <2>2, LabelDiverts
  <2>4. \A t \in {b} : t \notin J
    BY <1>1, <1>3, <2>1
  <2>5. \A k \in Label : labelMap'[k] \notin J
    BY <1>1, <1>2, <2>3, <2>4
  <2>6. Diverts(n, {b}, b)
    BY <2>3
  <2> QED BY <2>4, <2>5, <2>6, DivertJoined
<1> QED BY <1>4, <1>5, <1>6, <1>7 DEF Diverting

LEMMA KeptOutAdds ==
  ASSUME NEW m, NEW m2, Blk(m) \subseteq Blk(m2),
         \A b \in Blk(m2) : m2.out[b] = IF b \in Blk(m) THEN m.out[b] ELSE <<>>
  PROVE  Adds(m, m2, {})
<1>1. \A x : x \notin Reached(<<>>)
  <2>1. DOMAIN <<>> = {}
    OBVIOUS
  <2> QED BY <2>1, InReached
<1>2. \A b \in Blk(m2) : TargetsOf(m2, b) = IF b \in Blk(m) THEN TargetsOf(m, b) ELSE {}
  BY <1>1 DEF TargetsOf
<1> QED BY <1>2 DEF Adds

LEMMA EnterJoined ==
  ASSUME Typed, Context, NEW valued \in Valued, EnterFunction(valued),
         NEW J, Joined(J, ir, ctl, fns, labelMap, loops, phis)
  PROVE  Joined(J, ir', ctl', fns', labelMap', loops', phis')
<1>1. /\ Len(ir.fn) \in Nat /\ Len(fns) \in Nat /\ Blk(ir) \subseteq Blk(ir')
      /\ \A b \in Blk(ir') : ir'.out[b] = IF b \in Blk(ir) THEN ir.out[b] ELSE <<>>
      /\ Len(fns') = Len(fns) + 1 /\ \A g \in Fn : fns'[g] = fns[g]
  BY EnterIs
<1>2. fns'[Len(fns) + 1] = Function(Len(ir.fn) + 2, Len(ir.fn) + 1, valued)
  BY EnterIs
<1>3. Adds(ir, ir', {})
  BY <1>1, KeptOutAdds
<1>4. /\ Len(ctl) \in Nat /\ Len(ctl') = Len(ctl) + 1
      /\ ctl'[Len(ctl')] = FnFrame(Len(fns) + 1, ip)
      /\ \A i \in 1 .. Len(ctl) : ctl'[i] = ctl[i]
  BY EnterStack
<1>5. \A i \in 1 .. Len(ctl') : \/ i \in 1 .. Len(ctl) /\ ctl'[i] = ctl[i]
                                \/ ctl'[i].kind # "landor" /\ Avoids(ctl'[i], J)
  <2>1. FnFrame(Len(fns) + 1, ip).kind = "fn" /\ FnFrame(Len(fns) + 1, ip).parts = <<>>
    BY DEF FnFrame
  <2>2. Avoids(ctl'[Len(ctl')], J) /\ ctl'[Len(ctl')].kind # "landor"
    BY <1>4, <2>1, AvoidsEmpty
  <2>3. \A i \in 1 .. Len(ctl') : i \in 1 .. Len(ctl) \/ i = Len(ctl')
    BY <1>4
  <2> QED BY <1>4, <2>2, <2>3
<1>6. labelMap' = labelMap /\ loops' = loops /\ phis' = phis
  BY DEF EnterFunction
<1>7. Free(fns', labelMap', loops', J)
  <2>1. fns'[Len(fns) + 1].ret \notin J
    <3>1. fns'[Len(fns) + 1].ret = Len(ir.fn) + 1
      BY <1>2 DEF Function
    <3> QED BY <1>1, <3>1 DEF Joined, Blk
  <2>2. \A f \in 1 .. Len(fns') : f \in 1 .. Len(fns) \/ f = Len(fns) + 1
    BY <1>1
  <2> QED BY <1>1, <1>6, <2>1, <2>2, Sizes DEF Joined, Free
<1>8. Joined(J, ir', ctl', fns', labelMap', loops', phis)
  BY <1>3, <1>5, <1>7, JoinedKeeps
<1> QED BY <1>6, <1>8

LEMMA FinishAdds ==
  ASSUME Typed, NEW f \in Fn, ip \in Block
  PROVE  Adds(ir, Finish(f), {fns[f].ret})
<1> DEFINE ret == fns[f].ret
           m1 == Branch(ir, ip, {ret})
           m2 == Insert(m1, ret, f)
           m == Branch(m2, ret, {})
<1>1. Ir(ir, Len(fns)) /\ Len(ir.fn) \in Nat /\ ip \in Blk(ir) /\ ret \in Blk(ir) /\ f \in 0 .. Len(fns)
  BY Sizes DEF Typed, BlocksTyped, FnT, Blk, Fn
<1>2. Finish(f) = m
  BY DEF Finish
<1> HIDE DEF ret
<1>3. Ir(m1, Len(fns)) /\ Blk(m1) = Blk(ir) /\ Adds(ir, m1, {ret})
  BY <1>1, BranchIs, BranchAdds
<1> HIDE DEF m1
<1>4. Ir(m2, Len(fns)) /\ m2.out = m1.out /\ Blk(m2) = Blk(m1)
  BY <1>1, <1>3, InsertIs
<1> HIDE DEF m2
<1>5. Adds(m1, m2, {})
  BY <1>4, SameOutAdds
<1>6. Adds(m2, m, {})
  BY <1>1, <1>3, <1>4, BranchAdds
<1>7. Adds(ir, m, ({ret} \cup {}) \cup {})
  BY <1>3, <1>5, <1>6, AddsChain
<1>8. ({ret} \cup {}) \cup {} = {ret}
  OBVIOUS
<1> QED BY <1>2, <1>7, <1>8 DEF ret

LEMMA LeaveJoined ==
  ASSUME Typed, Context, LeaveFunction, NEW J, Joined(J, ir, ctl, fns, labelMap, loops, phis)
  PROVE  Joined(J, ir', ctl', fns', labelMap', loops', phis')
<1>1. /\ ctl # <<>> /\ Top.kind = "fn" /\ Len(ctl) \in Nat \ {0} /\ Len(ctl') = Len(ctl) - 1
      /\ Top.fn \in Fn /\ \A i \in 1 .. Len(ctl') : ctl'[i] = ctl[i]
  BY LeaveStack
<1>2. /\ fns' = Finished(Top.fn, FinalReturn(Top.fn)) /\ ir' = Finish(Top.fn)
      /\ UNCHANGED <<phis, labelMap, loops>>
  BY DEF LeaveFunction
<1>3. FinalReturn(Top.fn) \in {"void", "slot", "default"}
  BY DEF FinalReturn, LeaveFunction
<1>4. Len(fns') = Len(fns) /\ \A g \in Fn : fns'[g].ret = fns[g].ret
  BY <1>1, <1>2, <1>3, FinishedIs
<1>5. ip \in Block
  BY <1>1, Inside
<1>6. Adds(ir, ir', {fns[Top.fn].ret})
  BY <1>1, <1>2, <1>5, FinishAdds
<1>7. \A x \in J : x \notin {fns[Top.fn].ret}
  BY <1>1, Sizes DEF Joined, Free
<1>8. Free(fns', labelMap', loops', J)
  BY <1>2, <1>4, Sizes DEF Joined, Free
<1>9. \A i \in 1 .. Len(ctl') : i \in 1 .. Len(ctl) /\ ctl'[i] = ctl[i]
  BY <1>1
<1>10. Joined(J, ir', ctl', fns', labelMap', loops', phis)
  BY <1>6, <1>7, <1>8, <1>9, JoinedKeeps
<1> QED BY <1>2, <1>10

LEMMA RestJoined ==
  ASSUME Typed, Context, RejectFunction \/ EndUnit \/ UNCHANGED vars,
         NEW J, Joined(J, ir, ctl, fns, labelMap, loops, phis)
  PROVE  Joined(J, ir', ctl', fns', labelMap', loops', phis')
<1>1. UNCHANGED <<ctl, labelMap, loops, phis>>
  BY DEF RejectFunction, EndUnit, vars
<1>2. CASE RejectFunction
  <2>1. ctl # <<>> /\ Top.kind = "fn" /\ fns' = [fns EXCEPT ![Top.fn].final = "rejected"] /\ ir' = ir
    BY <1>2 DEF RejectFunction
  <2>2. Top.fn \in Fn
    BY <2>1, OthersAround
  <2>3. /\ Len(fns') = Len(fns)
        /\ \A h \in Fn : fns'[h] = IF h = Top.fn THEN [fns[Top.fn] EXCEPT !.final = "rejected"] ELSE fns[h]
    BY <2>1, <2>2, FinalUpdate
  <2>4. \A h \in Fn : fns'[h].ret = fns[h].ret
    <3> TAKE h \in Fn
    <3>1. fns[h] \in FnT(Len(ir.fn))
      BY Sizes
    <3> QED BY <2>3, <3>1 DEF FnT
  <2>5. Free(fns', labelMap', loops', J)
    BY <1>1, <2>3, <2>4, Sizes DEF Joined, Free
  <2> QED BY <1>1, <2>1, <2>5 DEF Joined
<1>3. CASE EndUnit /\ EmitMain
  <2>1. ir' = Finish(1) /\ fns' = [fns EXCEPT ![1].final = "slot"]
    BY <1>3 DEF EndUnit
  <2>2. 1 \in Fn
    BY <1>3, Sizes DEF Context, Framed, Base
  <2>3. /\ Len(fns') = Len(fns)
        /\ \A h \in Fn : fns'[h] = IF h = 1 THEN [fns[1] EXCEPT !.final = "slot"] ELSE fns[h]
    BY <2>1, <2>2, FinalUpdate
  <2>4. \A h \in Fn : fns'[h].ret = fns[h].ret
    <3> TAKE h \in Fn
    <3>1. fns[h] \in FnT(Len(ir.fn))
      BY Sizes
    <3> QED BY <2>3, <3>1 DEF FnT
  <2>5. Free(fns', labelMap', loops', J)
    BY <1>1, <2>3, <2>4, Sizes DEF Joined, Free
  <2>6. ip \in Block
    BY <1>3, Inside
  <2>7. Adds(ir, ir', {fns[1].ret})
    BY <2>1, <2>2, <2>6, FinishAdds
  <2>8. \A x \in J : x \notin {fns[1].ret}
    BY <2>2, Sizes DEF Joined, Free
  <2>9. Joined(J, ir', ctl', fns', labelMap', loops', phis)
    BY <1>1, <2>5, <2>7, <2>8, JoinedKeeps
  <2> QED BY <1>1, <2>9
<1>4. CASE (EndUnit /\ ~EmitMain) \/ UNCHANGED vars
  <2>1. ir' = ir /\ fns' = fns
    BY <1>4 DEF EndUnit, vars
  <2> QED BY <1>1, <2>1
<1> QED BY <1>2, <1>3, <1>4

(* the blocks a frame names exist *)
LEMMA FrameBlocks ==
  ASSUME NEW n, NEW k, NEW fr \in FrameT(n, k)
  PROVE  \A q \in DOMAIN fr.parts :
           /\ \A h \in DOMAIN fr.parts[q].hops :
                fr.parts[q].hops[h].at \in 1 .. n /\ fr.parts[q].hops[h].to \subseteq 1 .. n
           /\ \A j \in DOMAIN fr.parts[q].loop :
                fr.parts[q].loop[j].cond \in 1 .. n /\ fr.parts[q].loop[j].out \in 1 .. n
<1>1. fr.parts \in Seq(PartT(n))
  BY DEF FrameT
<1>2. \A q \in DOMAIN fr.parts : fr.parts[q] \in PartT(n)
  BY <1>1, ElementOfSeq, LenProperties
<1>3. \A s \in Seq(HopT(n)) : \A h \in DOMAIN s : s[h] \in HopT(n)
  BY ElementOfSeq, LenProperties
<1>4. \A s \in Seq(LoopT(n)) : \A j \in DOMAIN s : s[j] \in LoopT(n)
  BY ElementOfSeq, LenProperties
<1> QED BY <1>2, <1>3, <1>4 DEF PartT, HopT, LoopT

(* one hop from the insertion point *)
LEMMA OneJump ==
  ASSUME NEW m, NEW k, Ir(m, k), currFn \in 0 .. k, ip \in Blk(m),
         NEW T \in SUBSET Blk(m), NEW at \in Blk(m), NEW hops, hops = <<Hop(T, at)>>, NEW x \in T
  PROVE  Preds(Jump(m, hops), x) = Preds(m, x) \cup {ip}
<1>1. hops \in Seq(HopT(Len(m.fn))) /\ DOMAIN hops = {1} /\ hops[1].to = T
  <2>1. Hop(T, at) \in HopT(Len(m.fn)) /\ Hop(T, at).to = T
    BY DEF Hop, HopT, Blk
  <2> QED BY <2>1
<1>2. \A i \in DOMAIN hops : Source(hops, i) = ip
  BY <1>1 DEF Source
<1>3. PICK r : r = Jump(m, hops)
  OBVIOUS
<1>4. Blk(r) = Blk(m)
  BY <1>1, <1>3, JumpIs
<1>5. \A b \in Blk(m) : r.out[b] = IF b = ip THEN Append(m.out[b], T) ELSE m.out[b]
  <2> TAKE b \in Blk(m)
  <2>1. r.out[b] = IF \E i \in DOMAIN hops : Source(hops, i) = b
                     THEN Append(m.out[b], hops[CHOOSE i \in DOMAIN hops : Source(hops, i) = b].to)
                     ELSE m.out[b]
    BY <1>3, IrFacts DEF Jump
  <2>2. CASE b = ip
    <3> DEFINE w == CHOOSE i \in DOMAIN hops : Source(hops, i) = b
    <3>1. \E i \in DOMAIN hops : Source(hops, i) = b
      BY <1>1, <1>2, <2>2
    <3>2. w \in DOMAIN hops
      BY <3>1
    <3>3. r.out[b] = Append(m.out[b], hops[w].to)
      BY <2>1, <3>1
    <3> HIDE DEF w
    <3>4. hops[w].to = T
      BY <1>1, <3>2
    <3> QED BY <2>2, <3>3, <3>4
  <2>3. CASE b # ip
    <3>1. ~ \E i \in DOMAIN hops : Source(hops, i) = b
      BY <1>2, <2>3
    <3> QED BY <2>1, <2>3, <3>1
  <2> QED BY <2>2, <2>3
<1>6. m.out[ip] \in Seq(SUBSET Blk(m))
  BY IrFacts
<1>7. TargetsOf(r, ip) = TargetsOf(m, ip) \cup T
  BY <1>5, <1>6, TargetsAppend DEF TargetsOf
<1>8. \A b \in Blk(m) : b # ip => TargetsOf(r, b) = TargetsOf(m, b)
  BY <1>5 DEF TargetsOf
<1>9. \A b : b \in Preds(r, x) <=> b \in Preds(m, x) \/ b = ip
  BY <1>4, <1>7, <1>8 DEF Preds
<1> QED BY <1>3, <1>9

(* loops after a construct's part has been entered *)
LEMMA FreeLoops ==
  ASSUME NEW S, NEW lp \in Seq(S), NEW more \in Seq(S), NEW J, NEW F, NEW lm, Free(F, lm, lp, J),
         \A j \in DOMAIN more : more[j].cond \notin J /\ more[j].out \notin J
  PROVE  Free(F, lm, lp \o more, J)
<1> DEFINE r == lp \o more
<1>1. /\ Len(lp) \in Nat /\ Len(more) \in Nat /\ Len(r) = Len(lp) + Len(more)
      /\ DOMAIN more = 1 .. Len(more)
      /\ \A j \in 1 .. Len(r) : r[j] = IF j <= Len(lp) THEN lp[j] ELSE more[j - Len(lp)]
  BY ConcatProperties, LenProperties
<1> HIDE DEF r
<1>2. ASSUME NEW j \in 1 .. Len(r) PROVE r[j].cond \notin J /\ r[j].out \notin J
  <2>1. CASE j <= Len(lp)
    <3>1. j \in 1 .. Len(lp) /\ r[j] = lp[j]
      BY <1>1, <2>1
    <3> QED BY <3>1 DEF Free
  <2>2. CASE ~(j <= Len(lp))
    <3>1. j - Len(lp) \in DOMAIN more /\ r[j] = more[j - Len(lp)]
      BY <1>1, <2>2
    <3> QED BY <3>1
  <2> QED BY <2>1, <2>2
<1> QED BY <1>2 DEF Free, r

LEMMA FreeShrinks ==
  ASSUME NEW S, NEW lp \in Seq(S), NEW J, NEW F, NEW lm, Free(F, lm, lp, J)
  PROVE  Free(F, lm, SubSeq(lp, 1, Len(lp) - 1), J)
<1>1. Len(lp) \in Nat /\ \A i \in 1 .. Len(lp) - 1 : lp[i] \in S
  BY ElementOfSeq, LenProperties
<1> DEFINE r == SubSeq(lp, 1, Len(lp) - 1)
<1>2. /\ Len(r) = IF 1 <= Len(lp) - 1 THEN (Len(lp) - 1) - 1 + 1 ELSE 0
      /\ \A i \in 1 .. (Len(lp) - 1) - 1 + 1 : r[i] = lp[1 + i - 1]
  <2>1. 1 \in Int /\ Len(lp) - 1 \in Int
    BY <1>1
  <2> QED BY <1>1, <2>1, SubSeqProperties
<1> HIDE DEF r
<1>3. \A j \in 1 .. Len(r) : j \in 1 .. Len(lp) /\ r[j] = lp[j]
  BY <1>1, <1>2
<1> QED BY <1>3 DEF Free, r

LEMMA JumpJoined ==
  ASSUME Typed, NEW m, Ir(m, Len(fns)), NEW U, NEW V, Adds(ir, m, V),
         NEW part \in PartT(Len(m.fn)), \A h \in DOMAIN part.hops : part.hops[h].to \subseteq U,
         NEW J, Joined(J, ir, ctl, fns, labelMap, loops, phis), \A x \in J : x \notin U /\ x \notin V,
         NEW d, \A i \in 1 .. Len(d) : \/ i \in 1 .. Len(ctl) /\ d[i] = ctl[i]
                                       \/ d[i].kind # "landor" /\ Avoids(d[i], J),
         NEW lp, Free(fns, labelMap, lp, J)
  PROVE  Joined(J, Jump(m, part.hops), d, fns, labelMap, lp, phis)
<1>1. part.hops \in Seq(HopT(Len(m.fn))) /\ currFn \in 0 .. Len(fns) /\ Len(fns) \in Nat
  BY Sizes DEF PartT, Typed, FnsTyped
<1>2. Adds(m, Jump(m, part.hops), U)
  BY <1>1, JumpAdds
<1>3. Adds(ir, Jump(m, part.hops), V \cup U)
  BY <1>2, AddsChain
<1>4. \A x \in J : x \notin V \cup U
  OBVIOUS
<1> QED BY <1>3, <1>4, JoinedKeeps

(* a construct begins: what its first part branches to is new *)
LEMMA BegunJoined ==
  ASSUME Typed, Context, NEW kind, NEW n, NEW parts, NEW from, Begins(kind, n, parts, from),
         NEW J, Joined(J, ir, ctl, fns, labelMap, loops, phis)
  PROVE  /\ Joined(J, ir', ctl, fns, labelMap, loops', phis)
         /\ \A fr : fr.parts = Tail(parts) => Avoids(fr, J)
<1> DEFINE a == Len(ir.fn)
           U == a + 1 .. a + n
<1>1. /\ n \in Nat /\ a \in Nat /\ Plan(parts, a, n) /\ Len(fns) \in Nat /\ Ir(ir, Len(fns))
      /\ loops \in Seq(LoopT(a)) /\ a + n \in Nat /\ a <= a + n
  BY Sizes DEF Begins, Typed, BlocksTyped, TablesTyped
<1>2. PICK m : m = NewBlocks(n)
  OBVIOUS
<1>3. ir' = Jump(m, parts[1].hops) /\ loops' = loops \o parts[1].loop
  BY <1>2 DEF Begins, Begin
<1>4. Ir(m, Len(fns)) /\ Len(m.fn) = a + n
  BY <1>1, <1>2, NewBlocksIs
<1>5. Adds(ir, m, {})
  BY <1>1, <1>2, NewBlocksAdds
<1>6. /\ 1 \in DOMAIN parts /\ parts[1] \in PartT(a + n)
      /\ \A q \in DOMAIN Tail(parts) : q + 1 \in DOMAIN parts /\ Tail(parts)[q] = parts[q + 1]
  BY <1>1, PlanIs
<1>7. \A x \in J : x \notin U
  BY <1>1 DEF Joined, Blk
<1>8. ASSUME NEW q \in DOMAIN parts
      PROVE  /\ \A h \in DOMAIN parts[q].hops : parts[q].hops[h].to \subseteq U
             /\ \A j \in DOMAIN parts[q].loop : parts[q].loop[j].cond \in U /\ parts[q].loop[j].out \in U
  BY <1>1 DEF Plan, Within
<1>9. ASSUME NEW fr, fr.parts = Tail(parts) PROVE Avoids(fr, J)
  <2>1. ASSUME NEW q \in DOMAIN fr.parts
        PROVE  /\ \A h \in DOMAIN fr.parts[q].hops : fr.parts[q].hops[h].to \cap J = {}
               /\ \A j \in DOMAIN fr.parts[q].loop :
                    fr.parts[q].loop[j].cond \notin J /\ fr.parts[q].loop[j].out \notin J
    <3> HIDE DEF U, a
    <3>1. PICK s \in DOMAIN parts : fr.parts[q] = parts[s]
      BY <1>6, <1>9, <2>1
    <3> QED BY <1>7, <1>8, <3>1
  <2> QED BY <2>1 DEF Avoids
<1>10. Free(fns, labelMap, loops', J)
  <2>1. parts[1].loop \in Seq(LoopT(a + n)) /\ loops \in Seq(LoopT(a + n))
    <3> HIDE DEF a
    <3>1. parts[1].loop \in Seq(LoopT(a + n))
      BY <1>6 DEF PartT
    <3>2. loops \in Seq(LoopT(a + n))
      BY <1>1, TypesGrow
    <3> QED BY <3>1, <3>2
  <2>2. \A j \in DOMAIN parts[1].loop : parts[1].loop[j].cond \notin J /\ parts[1].loop[j].out \notin J
    BY <1>6, <1>7, <1>8
  <2>3. Free(fns, labelMap, loops, J)
    BY DEF Joined
  <2> QED BY <1>3, <2>1, <2>2, <2>3, FreeLoops
<1>11. Joined(J, ir', ctl, fns, labelMap, loops', phis)
  <2>1. PICK part : part = parts[1]
    OBVIOUS
  <2>2. part \in PartT(Len(m.fn)) /\ \A h \in DOMAIN part.hops : part.hops[h].to \subseteq U
    BY <1>4, <1>6, <1>8, <2>1
  <2>3. \A x \in J : x \notin U /\ x \notin {}
    BY <1>7
  <2>5. \A i \in 1 .. Len(ctl) : i \in 1 .. Len(ctl) /\ ctl[i] = ctl[i]
    OBVIOUS
  <2>6. part \in PartT(Len(m.fn)) /\ Joined(J, ir, ctl, fns, labelMap, loops, phis)
    BY <2>2
  <2>7. PICK V, E : V = U /\ E = {}
    OBVIOUS
  <2>8. PICK lp : lp = loops'
    OBVIOUS
  <2>9. (\A h \in DOMAIN part.hops : part.hops[h].to \subseteq V) /\ (\A x \in J : x \notin V /\ x \notin E)
    BY <2>2, <2>3, <2>7
  <2>11. Adds(ir, m, E)
    BY <1>5, <2>7
  <2>12. Ir(m, Len(fns)) /\ part \in PartT(Len(m.fn))
    BY <1>4, <2>2
  <2>13. Joined(J, ir, ctl, fns, labelMap, loops, phis)
    OBVIOUS
  <2>10. Free(fns, labelMap, lp, J)
    BY <1>10, <2>8
  <2> HIDE DEF U, a
  <2>4. Joined(J, Jump(m, part.hops), ctl, fns, labelMap, lp, phis)
    BY <2>5, <2>9, <2>10, <2>11, <2>12, <2>13, JumpJoined
  <2> QED BY <1>3, <2>1, <2>4, <2>8
<1> QED BY <1>9, <1>11

(* a frame more, with nothing to join *)
LEMMA PushJoined ==
  ASSUME NEW J, NEW m, NEW c, NEW F, NEW lm, NEW lp, NEW ph, Joined(J, m, c, F, lm, lp, ph),
         NEW d, Len(c) \in Nat, Len(d) = Len(c) + 1, \A i \in 1 .. Len(c) : d[i] = c[i],
         d[Len(d)].kind # "landor", Avoids(d[Len(d)], J)
  PROVE  Joined(J, m, d, F, lm, lp, ph)
<1>1. Adds(m, m, {}) /\ \A x \in J : x \notin {}
  BY SameOutAdds
<1>2. \A i \in 1 .. Len(d) : i \in 1 .. Len(c) \/ i = Len(d)
  OBVIOUS
<1>3. \A i \in 1 .. Len(d) : \/ i \in 1 .. Len(c) /\ d[i] = c[i]
                             \/ d[i].kind # "landor" /\ Avoids(d[i], J)
  <2> TAKE i \in 1 .. Len(d)
  <2>1. CASE i = Len(d)
    BY <2>1
  <2>2. CASE i \in 1 .. Len(c)
    BY <2>2
  <2> QED BY <1>2, <2>1, <2>2
<1>4. Free(F, lm, lp, J)
  BY DEF Joined
<1> QED BY <1>1, <1>3, <1>4, JoinedKeeps

LEMMA BegunFrame ==
  ASSUME Typed, Context, NEW kind, NEW n, NEW parts, NEW from, Begins(kind, n, parts, from)
  PROVE  LET fr == Frame(kind, parts[1].in, Tail(parts), from) IN
         /\ Len(ctl) \in Nat /\ Len(ctl') = Len(ctl) + 1 /\ ctl'[Len(ctl')] = fr
         /\ \A i \in 1 .. Len(ctl) : ctl'[i] = ctl[i]
         /\ fr.kind = kind /\ fr.parts = Tail(parts) /\ fr.from = from
         /\ UNCHANGED <<labelMap, fns, phis>>
<1> DEFINE fr == Frame(kind, parts[1].in, Tail(parts), from)
<1>1. ctl' = Append(ctl, fr) /\ UNCHANGED <<labelMap, fns, phis>>
  BY DEF Begins, Begin, UnchangedFn
<1>2. fr.kind = kind /\ fr.parts = Tail(parts) /\ fr.from = from
  BY DEF Frame
<1> HIDE DEF fr
<1>3. ctl \in Seq(FrameT(Len(ir.fn), Len(fns)))
  BY DEF Typed, StackTyped
<1>4. /\ Len(ctl) \in Nat /\ Len(ctl') = Len(ctl) + 1 /\ ctl'[Len(ctl')] = fr
      /\ \A i \in 1 .. Len(ctl) : ctl'[i] = ctl[i]
  <2>1. ctl \in Seq(FrameT(Len(ir.fn), Len(fns)) \cup {fr}) /\ fr \in FrameT(Len(ir.fn), Len(fns)) \cup {fr}
    BY <1>3, SeqMonotonic
  <2> QED BY <1>1, <2>1, AppendProperties, LenProperties
<1> QED BY <1>1, <1>2, <1>4 DEF fr

LEMMA BeginsJoined ==
  ASSUME Typed, Context, NEW kind, NEW n, NEW parts, NEW from, Begins(kind, n, parts, from),
         kind # "landor", NEW J, Joined(J, ir, ctl, fns, labelMap, loops, phis)
  PROVE  Joined(J, ir', ctl', fns', labelMap', loops', phis')
<1>1. /\ Joined(J, ir', ctl, fns, labelMap, loops', phis)
      /\ \A fr : fr.parts = Tail(parts) => Avoids(fr, J)
  BY BegunJoined
<1>2. PICK fr : fr = Frame(kind, parts[1].in, Tail(parts), from)
  OBVIOUS
<1>3. /\ Len(ctl) \in Nat /\ Len(ctl') = Len(ctl) + 1 /\ ctl'[Len(ctl')] = fr
      /\ \A i \in 1 .. Len(ctl) : ctl'[i] = ctl[i]
      /\ fr.kind = kind /\ fr.parts = Tail(parts)
      /\ UNCHANGED <<labelMap, fns, phis>>
  BY <1>2, BegunFrame
<1>4. Joined(J, ir', ctl', fns, labelMap, loops', phis)
  BY <1>1, <1>3, PushJoined
<1> QED BY <1>3, <1>4

(* The second branch to the block of a && or || is still to come. *)
LEMMA LandOrJoined ==
  ASSUME Typed, Context, NEW n, NEW parts, NEW from, Begins("landor", n, parts, from),
         NEW J, Joined(J, ir, ctl, fns, labelMap, loops, phis)
  PROVE  Joined(J \cup {New(2)}, ir', ctl', fns', labelMap', loops', phis')
<1> DEFINE a == Len(ir.fn)
<1>1. PICK o, J2 : o = a + 2 /\ J2 = J \cup {o}
  OBVIOUS
<1>2. /\ a \in Nat /\ Len(fns) \in Nat /\ Ir(ir, Len(fns)) /\ currFn \in 0 .. Len(fns)
      /\ from = ip /\ n = 2 /\ ip \in Blk(ir) /\ New(1) = a + 1 /\ New(2) = o
  <2>1. EmitMain \/ ctl # <<>>
    BY DEF Begins
  <2> QED BY <1>1, <2>1, Inside, Sizes DEF Begins, Typed, BlocksTyped, FnsTyped, New
<1>3. parts = << Part(<<Hop({New(1), New(2)}, New(1))>>, "expr"), Last(<<Hop({New(2)}, New(2))>>) >>
  BY DEF Begins
<1>4. /\ parts[1].hops = <<Hop({a + 1, o}, a + 1)>> /\ parts[1].loop = <<>>
      /\ Tail(parts) = <<Last(<<Hop({o}, o)>>)>>
  <2>1. parts = << Part(<<Hop({a + 1, o}, a + 1)>>, "expr"), Last(<<Hop({o}, o)>>) >>
    BY <1>2, <1>3
  <2> HIDE DEF a
  <2> QED BY <2>1 DEF Part
<1>5. PICK m : m = NewBlocks(2)
  OBVIOUS
<1>6. ir' = Jump(m, parts[1].hops) /\ loops' = loops \o parts[1].loop
  BY <1>2, <1>5 DEF Begins, Begin
<1>7. Ir(m, Len(fns)) /\ Len(m.fn) = a + 2 /\ Blk(ir) \subseteq Blk(m) /\ Adds(ir, m, {})
  BY <1>2, <1>5, NewBlocksIs, NewBlocksAdds
<1>8. PICK fr : fr = Frame("landor", parts[1].in, Tail(parts), from)
  OBVIOUS
<1>9. /\ Len(ctl) \in Nat /\ Len(ctl') = Len(ctl) + 1 /\ ctl'[Len(ctl')] = fr
      /\ \A i \in 1 .. Len(ctl) : ctl'[i] = ctl[i]
      /\ fr.kind = "landor" /\ fr.parts = Tail(parts) /\ fr.from = ip
      /\ UNCHANGED <<labelMap, fns, phis>>
  BY <1>2, <1>8, BegunFrame
<1>10. Joined(J, ir', ctl, fns, labelMap, loops', phis)
  BY BegunJoined
<1>11. o \notin Blk(ir) /\ J \subseteq Blk(ir) /\ o \notin J /\ o \in Blk(m)
  <2>1. J \subseteq Blk(ir)
    BY DEF Joined
  <2> QED BY <1>1, <1>2, <1>7, <2>1 DEF Blk
<1>12. Blk(ir') = Blk(m) /\ Preds(ir', o) = {ip}
  <2>1. {a + 1, o} \in SUBSET Blk(m) /\ a + 1 \in Blk(m) /\ ip \in Blk(m)
    BY <1>1, <1>2, <1>7 DEF Blk
  <2>2. PICK T, at : T = {a + 1, o} /\ at = a + 1
    OBVIOUS
  <2>3. ir' = Jump(m, <<Hop(T, at)>>) /\ T \in SUBSET Blk(m) /\ at \in Blk(m) /\ o \in T
    BY <1>4, <1>6, <2>1, <2>2
  <2>4. Preds(ir', o) = Preds(m, o) \cup {ip}
    BY <1>2, <1>7, <2>1, <2>3, OneJump
  <2>5. Preds(m, o) = Preds(ir, o)
    BY <1>7, AddsPreds
  <2>6. \A b \in Blk(ir) : TargetsOf(ir, b) \subseteq Blk(ir)
    <3> TAKE b \in Blk(ir)
    <3>1. ir.out[b] \in Seq(SUBSET Blk(ir))
      BY <1>2, IrFacts
    <3>2. \A i \in DOMAIN ir.out[b] : ir.out[b][i] \in SUBSET Blk(ir)
      BY <3>1, ElementOfSeq, LenProperties
    <3> QED BY <3>2, InReached DEF TargetsOf
  <2>7. Preds(ir, o) = {}
    BY <1>11, <2>6 DEF Preds
  <2>8. Blk(ir') = Blk(m)
    <3>1. <<Hop(T, at)>> \in Seq(HopT(Len(m.fn)))
      <4>1. Hop(T, at) \in HopT(Len(m.fn))
        BY <2>3 DEF Hop, HopT, Blk
      <4> QED BY <4>1
    <3> QED BY <1>2, <1>7, <2>3, <3>1, JumpIs
  <2> QED BY <2>4, <2>5, <2>7, <2>8
<1> HIDE DEF a
<1>13. J2 \subseteq Blk(ir')
  BY <1>1, <1>7, <1>11, <1>12
<1>14. Outbb(fr) = o /\ fr.parts = <<Last(<<Hop({o}, o)>>)>>
  <2>1. fr.parts = <<Last(<<Hop({o}, o)>>)>>
    BY <1>4, <1>9
  <2>2. fr.parts[1].hops = <<Hop({o}, o)>>
    BY <2>1 DEF Last, Part
  <2>3. fr.parts[1].hops[1].at = o
    BY <2>2, OneHop
  <2> QED BY <2>1, <2>3 DEF Outbb
<1>15. ASSUME NEW i \in 1 .. Len(ctl)
       PROVE  IF ctl[i].kind = "landor" THEN Joining(ir', ctl[i], J2) /\ Outbb(ctl[i]) # o
              ELSE Avoids(ctl[i], J2)
  <2>1. CASE ctl[i].kind = "landor"
    <3>1. Joining(ir', ctl[i], J)
      BY <1>10, <2>1 DEF Joined, Merges
    <3> QED BY <1>1, <1>11, <2>1, <3>1 DEF Joining
  <2>2. CASE ctl[i].kind # "landor"
    <3>1. Avoids(ctl[i], J)
      BY <1>10, <2>2 DEF Joined, Merges
    <3>2. ctl[i] \in FrameT(Len(ir.fn), Len(fns))
      BY Sizes
    <3>3. \A q \in DOMAIN ctl[i].parts :
            /\ \A h \in DOMAIN ctl[i].parts[q].hops : ctl[i].parts[q].hops[h].to \subseteq Blk(ir)
            /\ \A j \in DOMAIN ctl[i].parts[q].loop :
                 ctl[i].parts[q].loop[j].cond \in Blk(ir) /\ ctl[i].parts[q].loop[j].out \in Blk(ir)
      BY <3>2, FrameBlocks DEF Blk
    <3> QED BY <1>1, <1>11, <2>2, <3>1, <3>3 DEF Avoids
  <2> QED BY <2>1, <2>2
<1>16. \A i \in 1 .. Len(ctl') : i \in 1 .. Len(ctl) \/ i = Len(ctl')
  BY <1>9
<1>17. Joining(ir', fr, J2)
  BY <1>1, <1>9, <1>12, <1>14 DEF Joining
<1>18. Merges(ir', ctl', J2)
  <2>1. ASSUME NEW i \in 1 .. Len(ctl')
        PROVE  IF ctl'[i].kind = "landor" THEN Joining(ir', ctl'[i], J2) ELSE Avoids(ctl'[i], J2)
    BY <1>9, <1>15, <1>16, <1>17
  <2>2. ASSUME NEW i \in 1 .. Len(ctl'), NEW k \in 1 .. Len(ctl'),
               ctl'[i].kind = "landor", ctl'[k].kind = "landor", Outbb(ctl'[i]) = Outbb(ctl'[k])
        PROVE  i = k
    <3>1. CASE i = Len(ctl')
      BY <1>9, <1>14, <1>15, <1>16, <2>2, <3>1
    <3>2. CASE k = Len(ctl')
      BY <1>9, <1>14, <1>15, <1>16, <2>2, <3>2
    <3>3. CASE i \in 1 .. Len(ctl) /\ k \in 1 .. Len(ctl)
      BY <1>9, <1>10, <2>2, <3>3 DEF Joined, Merges
    <3> QED BY <1>16, <3>1, <3>2, <3>3
  <2> QED BY <2>1, <2>2 DEF Merges
<1>19. Named(ir', ctl', phis, J2)
  <2>1. ASSUME NEW p \in phis
        PROVE  /\ p.at \in J2 /\ p.in = Preds(ir', p.at)
               /\ \A i \in 1 .. Len(ctl') : ctl'[i].kind = "landor" => Outbb(ctl'[i]) # p.at
    <3>1. /\ p.at \in J /\ p.in = Preds(ir', p.at)
          /\ \A i \in 1 .. Len(ctl) : ctl[i].kind = "landor" => Outbb(ctl[i]) # p.at
      BY <1>10 DEF Joined, Named
    <3> QED BY <1>1, <1>9, <1>11, <1>14, <1>16, <3>1
  <2> QED BY <2>1 DEF Named
<1>20. Free(fns, labelMap, loops', J2)
  <2>1. Free(fns, labelMap, loops', J)
    BY <1>10 DEF Joined
  <2>2. \A f \in 1 .. Len(fns) : fns[f].ret \in Blk(ir)
    BY Sizes DEF FnT, Blk
  <2>3. \A l \in Label : labelMap[l] # o
    <3>1. labelMap \in [Label -> 0 .. Len(ir.fn)]
      BY DEF Typed, TablesTyped
    <3> QED BY <1>1, <1>2, <3>1 DEF a
  <2>4. loops \in Seq(LoopT(Len(ir.fn)))
    BY DEF Typed, TablesTyped
  <2>5. loops' = loops
    BY <1>4, <1>6, <2>4, ConcatEmptySeq
  <2>6. \A j \in 1 .. Len(loops) : loops[j] \in LoopT(Len(ir.fn))
    BY <2>4, ElementOfSeq
  <2>7. \A j \in 1 .. Len(loops') : loops'[j].cond # o /\ loops'[j].out # o
    BY <1>11, <2>5, <2>6 DEF LoopT, Blk
  <2> QED BY <1>1, <1>11, <2>1, <2>2, <2>3, <2>7 DEF Free
<1>21. Joined(J2, ir', ctl', fns, labelMap, loops', phis)
  BY <1>13, <1>18, <1>19, <1>20 DEF Joined
<1> QED BY <1>1, <1>2, <1>9, <1>21

(* A part ends: the frame on top branches to none of J, unless it is that  *)
(* of a && or ||, of which one part is left, the last.                     *)
LEMMA PartEndJoined ==
  ASSUME Typed, Context, EndPart \/ EndConstruct, Top.kind # "landor",
         NEW J, Joined(J, ir, ctl, fns, labelMap, loops, phis),
         NEW d, \A i \in 1 .. Len(d) : \/ i \in 1 .. Len(ctl) /\ d[i] = ctl[i]
                                       \/ d[i].kind # "landor" /\ Avoids(d[i], J),
         NEW lp, Free(fns, labelMap, lp, J)
  PROVE  Joined(J, ir', d, fns, labelMap, lp, phis)
<1>1. Pending /\ ir' = Jump(ir, NextPart.hops)
  BY DEF EndPart, EndConstruct
<1>2. ctl # <<>> /\ Top.parts # <<>> /\ NextPart \in PartT(Len(ir.fn)) /\ NextPart.hops \in Seq(HopT(Len(ir.fn)))
      /\ NextPart.hops # <<>>
  BY <1>1, PartsLeft
<1>3. 1 \in DOMAIN Top.parts /\ NextPart = Top.parts[1] /\ Len(ctl) \in 1 .. Len(ctl)
  BY <1>2, NextIs
<1>4. Avoids(Top, J)
  BY <1>3 DEF Joined, Merges, Top
<1>5. PICK U, E : U = Blk(ir) \ J /\ E = {}
  OBVIOUS
<1>6. \A h \in DOMAIN NextPart.hops : NextPart.hops[h].to \subseteq U
  <2>1. \A h \in DOMAIN NextPart.hops : NextPart.hops[h].to \subseteq Blk(ir)
    BY <1>2, Sizes, LandingIs DEF Blk
  <2> QED BY <1>3, <1>4, <1>5, <2>1 DEF Avoids
<1>7. (\A x \in J : x \notin U /\ x \notin E) /\ Adds(ir, ir, E) /\ Ir(ir, Len(fns))
  BY <1>5, SameOutAdds DEF Typed, BlocksTyped
<1>8. Joined(J, Jump(ir, NextPart.hops), d, fns, labelMap, lp, phis)
  BY <1>2, <1>6, <1>7, JumpJoined
<1> QED BY <1>1, <1>8

LEMMA EndPartJoined ==
  ASSUME Typed, Context, EndPart, NEW J, Joined(J, ir, ctl, fns, labelMap, loops, phis)
  PROVE  Joined(J, ir', ctl', fns', labelMap', loops', phis')
<1> DEFINE fr == [Top EXCEPT !.in = NextPart.in, !.parts = Tail(@)]
<1>1. /\ Pending /\ NextPart.in # "after" /\ ctl' = Append(Outer, fr)
      /\ ip' = Landing(NextPart.hops) /\ loops' = loops \o NextPart.loop
      /\ UNCHANGED <<phis, labelMap, phase, fns, currFn, fnStack>>
  BY DEF EndPart, UnchangedFn
<1>2. /\ ctl # <<>> /\ Top.parts # <<>> /\ Top.kind # "fn" /\ NextPart.hops # <<>>
      /\ NextPart.hops \in Seq(HopT(Len(ir.fn))) /\ NextPart \in PartT(Len(ir.fn))
      /\ Len(Top.parts) # 1
      /\ fr \in FrameT(Len(ir.fn), Len(fns)) /\ Shaped(fr) /\ fr.kind = Top.kind
      /\ fr.from = Top.from /\ fr.parts = Tail(Top.parts)
  BY <1>1, PartsLeft
<1> HIDE DEF fr
<1>3. /\ Len(ctl) \in 1 .. Len(ctl) /\ 1 \in DOMAIN Top.parts /\ NextPart = Top.parts[1]
      /\ \A q \in DOMAIN Tail(Top.parts) : q + 1 \in DOMAIN Top.parts /\ Tail(Top.parts)[q] = Top.parts[q + 1]
  BY <1>2, NextIs
<1>4. ip' # 0
  <2>1. Landing(NextPart.hops) \in 1 .. Len(ir.fn)
    BY <1>2, Sizes, LandingIs
  <2> QED BY <1>1, <2>1
<1>5. /\ Len(ctl') = Len(ctl) /\ ctl'[Len(ctl)] = fr
      /\ \A i \in 1 .. Len(ctl) - 1 : ctl'[i] = ctl[i]
  BY <1>1, <1>2, <1>4, ReplacedContext
<1>6. Top.kind # "landor"
  <2> SUFFICES ASSUME Top.kind = "landor" PROVE FALSE
    OBVIOUS
  <2>1. Joining(ir, Top, J)
    BY <1>3 DEF Joined, Merges, Top
  <2>2. Top.parts = <<Last(<<Hop({Outbb(Top)}, Outbb(Top))>>)>>
    BY <2>1 DEF Joining
  <2> QED BY <1>2, <2>2
<1>7. Avoids(Top, J)
  BY <1>3, <1>6 DEF Joined, Merges, Top
<1>8. Avoids(fr, J)
  BY <1>2, <1>3, <1>7 DEF Avoids
<1>9. \A i \in 1 .. Len(ctl') : \/ i \in 1 .. Len(ctl) /\ ctl'[i] = ctl[i]
                                \/ ctl'[i].kind # "landor" /\ Avoids(ctl'[i], J)
  <2> TAKE i \in 1 .. Len(ctl')
  <2>1. i = Len(ctl) \/ i \in 1 .. Len(ctl) - 1
    BY <1>5, Sizes
  <2>2. CASE i = Len(ctl)
    BY <1>2, <1>5, <1>6, <1>8, <2>2
  <2>3. CASE i \in 1 .. Len(ctl) - 1
    BY <1>5, <2>3, Sizes
  <2> QED BY <2>1, <2>2, <2>3
<1>10. Free(fns, labelMap, loops', J)
  <2>1. NextPart.loop \in Seq(LoopT(Len(ir.fn))) /\ loops \in Seq(LoopT(Len(ir.fn)))
    BY <1>2 DEF PartT, Typed, TablesTyped
  <2>2. \A j \in DOMAIN NextPart.loop : NextPart.loop[j].cond \notin J /\ NextPart.loop[j].out \notin J
    BY <1>3, <1>7 DEF Avoids
  <2>3. Free(fns, labelMap, loops, J)
    BY DEF Joined
  <2> QED BY <1>1, <2>1, <2>2, <2>3, FreeLoops
<1>11. Joined(J, ir', ctl', fns, labelMap, loops', phis)
  BY <1>6, <1>9, <1>10, PartEndJoined
<1> QED BY <1>1, <1>11

LEMMA EndOtherJoined ==
  ASSUME Typed, Context, EndConstruct, Top.kind # "landor",
         NEW J, Joined(J, ir, ctl, fns, labelMap, loops, phis)
  PROVE  Joined(J, ir', ctl', fns', labelMap', loops', phis')
<1>1. /\ Pending /\ ctl' = Outer /\ phis' = phis /\ UNCHANGED <<labelMap, fns>>
      /\ (loops' = SubSeq(loops, 1, Len(loops) - 1) \/ loops' = loops)
  BY DEF EndConstruct, UnchangedFn
<1>2. ctl # <<>> /\ ctl \in Seq(FrameT(Len(ir.fn), Len(fns))) /\ loops \in Seq(LoopT(Len(ir.fn)))
  BY <1>1, PartsLeft DEF Typed, StackTyped, TablesTyped
<1>3. Len(ctl) \in Nat \ {0} /\ Len(ctl') = Len(ctl) - 1 /\ \A i \in 1 .. Len(ctl') : ctl'[i] = ctl[i]
  BY <1>1, <1>2, Popped DEF Outer
<1>4. \A i \in 1 .. Len(ctl') : i \in 1 .. Len(ctl) /\ ctl'[i] = ctl[i]
  BY <1>3
<1>5. Free(fns, labelMap, loops', J)
  <2>1. Free(fns, labelMap, loops, J)
    BY DEF Joined
  <2>2. Free(fns, labelMap, SubSeq(loops, 1, Len(loops) - 1), J)
    BY <1>2, <2>1, FreeShrinks
  <2> QED BY <1>1, <2>1, <2>2
<1>6. Joined(J, ir', ctl', fns, labelMap, loops', phis)
  BY <1>4, <1>5, PartEndJoined
<1> QED BY <1>1, <1>6

(* the second branch is made, and the phi names both *)
LEMMA EndLandOrJoined ==
  ASSUME Typed, Context, EndConstruct, Top.kind = "landor",
         NEW J, Joined(J, ir, ctl, fns, labelMap, loops, phis)
  PROVE  Joined(J, ir', ctl', fns', labelMap', loops', phis')
<1>1. /\ Pending /\ ctl' = Outer /\ phis' = phis \cup {[at |-> ip', in |-> {Top.from, ip}]}
      /\ UNCHANGED <<labelMap, fns>> /\ loops' = loops
      /\ ir' = Jump(ir, NextPart.hops) /\ ip' = Landing(NextPart.hops)
  BY DEF EndConstruct, UnchangedFn, Incoming
<1>2. /\ ctl # <<>> /\ Top.parts # <<>> /\ ctl \in Seq(FrameT(Len(ir.fn), Len(fns)))
      /\ NextPart.hops \in Seq(HopT(Len(ir.fn)))
  BY <1>1, PartsLeft DEF Typed, StackTyped
<1>3. /\ Len(ctl) \in Nat \ {0} /\ Len(ctl') = Len(ctl) - 1 /\ \A i \in 1 .. Len(ctl') : ctl'[i] = ctl[i]
      /\ Len(ctl) \in 1 .. Len(ctl)
  BY <1>1, <1>2, Popped, Sizes DEF Outer
<1>4. PICK o : o = Outbb(Top)
  OBVIOUS
<1>5. Top.parts = <<Last(<<Hop({o}, o)>>)>> /\ o \in J /\ Preds(ir, o) = {Top.from}
  BY <1>3, <1>4 DEF Joined, Merges, Joining, Top
<1>6. NextPart.hops = <<Hop({o}, o)>> /\ ip' = o
  <2>1. NextPart = Last(<<Hop({o}, o)>>)
    BY <1>5 DEF NextPart
  <2>2. NextPart.hops = <<Hop({o}, o)>>
    BY <2>1 DEF Last, Part
  <2> QED BY <1>1, <2>2 DEF Landing, Hop
<1>7. /\ Ir(ir, Len(fns)) /\ currFn \in 0 .. Len(fns) /\ ip \in Blk(ir) /\ o \in Blk(ir)
      /\ Blk(ir') = Blk(ir)
  <2>1. Ir(ir, Len(fns)) /\ currFn \in 0 .. Len(fns)
    BY DEF Typed, BlocksTyped, FnsTyped
  <2>2. ip \in Blk(ir)
    BY <1>2, Inside, Sizes
  <2> QED BY <1>1, <1>2, <1>5, <2>1, <2>2, JumpIs DEF Joined
<1>8. Preds(ir', o) = Preds(ir, o) \cup {ip}
  <2>1. PICK T : T = {o}
    OBVIOUS
  <2>2. T \in SUBSET Blk(ir) /\ ir' = Jump(ir, <<Hop(T, o)>>) /\ o \in T
    BY <1>1, <1>6, <1>7, <2>1
  <2> QED BY <1>7, <2>2, OneJump
<1>9. Preds(ir', o) = {Top.from, ip} /\ \A x : x # o => Preds(ir', x) = Preds(ir, x)
  <2>1. PICK T : T = {o}
    OBVIOUS
  <2>2. \A h \in DOMAIN NextPart.hops : NextPart.hops[h].to \subseteq T
    BY <1>6, <2>1, OneHop
  <2>3. Adds(ir, ir', T)
    BY <1>1, <1>2, <1>7, <2>2, JumpAdds
  <2>4. \A x : x # o => Preds(ir', x) = Preds(ir, x)
    BY <2>1, <2>3, AddsPreds
  <2> QED BY <1>5, <1>8, <2>4
<1>10. ASSUME NEW i \in 1 .. Len(ctl')
       PROVE  /\ i \in 1 .. Len(ctl) /\ ctl'[i] = ctl[i]
              /\ ctl[i].kind = "landor" => Outbb(ctl[i]) # o
  <2>1. i \in 1 .. Len(ctl) /\ ctl'[i] = ctl[i] /\ i # Len(ctl)
    BY <1>3
  <2> QED BY <1>3, <1>4, <2>1 DEF Joined, Merges, Top
<1>11. Merges(ir', ctl', J)
  <2>1. ASSUME NEW i \in 1 .. Len(ctl'), ctl'[i].kind = "landor" PROVE Joining(ir', ctl'[i], J)
    <3>1. Joining(ir, ctl[i], J) /\ ctl'[i] = ctl[i] /\ Outbb(ctl[i]) # o
      BY <1>10, <2>1 DEF Joined, Merges
    <3> QED BY <1>9, <3>1 DEF Joining
  <2>2. ASSUME NEW i \in 1 .. Len(ctl'), ctl'[i].kind # "landor" PROVE Avoids(ctl'[i], J)
    BY <1>10, <2>2 DEF Joined, Merges
  <2>3. \A i, k \in 1 .. Len(ctl') :
          ctl'[i].kind = "landor" /\ ctl'[k].kind = "landor" /\ Outbb(ctl'[i]) = Outbb(ctl'[k]) => i = k
    BY <1>10 DEF Joined, Merges
  <2> QED BY <2>1, <2>2, <2>3 DEF Merges
<1>12. Named(ir', ctl', phis', J)
  <2>1. ASSUME NEW p \in phis
        PROVE  /\ p.at \in J /\ p.in = Preds(ir', p.at)
               /\ \A i \in 1 .. Len(ctl') : ctl'[i].kind = "landor" => Outbb(ctl'[i]) # p.at
    <3>1. /\ p.at \in J /\ p.in = Preds(ir, p.at)
          /\ \A i \in 1 .. Len(ctl) : ctl[i].kind = "landor" => Outbb(ctl[i]) # p.at
      BY DEF Joined, Named
    <3>2. p.at # o
      BY <1>3, <1>4, <3>1 DEF Top
    <3> QED BY <1>9, <1>10, <3>1, <3>2
  <2>2. ASSUME NEW p, p = [at |-> ip', in |-> {Top.from, ip}]
        PROVE  /\ p.at \in J /\ p.in = Preds(ir', p.at)
               /\ \A i \in 1 .. Len(ctl') : ctl'[i].kind = "landor" => Outbb(ctl'[i]) # p.at
    <3>1. p.at = o /\ p.in = {Top.from, ip}
      BY <1>6, <2>2
    <3> QED BY <1>5, <1>9, <1>10, <3>1
  <2>3. \A p \in phis' : p \in phis \/ p = [at |-> ip', in |-> {Top.from, ip}]
    BY <1>1
  <2> QED BY <2>1, <2>2, <2>3 DEF Named
<1>13. J \subseteq Blk(ir') /\ Free(fns, labelMap, loops, J)
  BY <1>7 DEF Joined
<1> QED BY <1>1, <1>11, <1>12, <1>13 DEF Joined

(***************************************************************************)
(* The invariant, and the theorem.                                         *)
(***************************************************************************)
Merged == \E J : Joined(J, ir, ctl, fns, labelMap, loops, phis)

LEMMA MergedInit == ASSUME Init PROVE Merged
<1>1. ctl = <<>> /\ loops = <<>> /\ phis = {}
  BY DEF Init
<1>2. Len(ctl) = 0 /\ Len(loops) = 0
  BY <1>1, EmptySeq
<1>3. PICK J : J = {}
  OBVIOUS
<1>4. Merges(ir, ctl, J) /\ Named(ir, ctl, phis, J) /\ Free(fns, labelMap, loops, J)
  BY <1>1, <1>2, <1>3 DEF Merges, Named, Free
<1>5. Joined(J, ir, ctl, fns, labelMap, loops, phis)
  BY <1>3, <1>4 DEF Joined
<1> QED BY <1>5 DEF Merged

LEMMA MergedStep ==
  ASSUME Typed, Context, Merged, [Next]_vars
  PROVE  Merged'
<1>0. PICK J : Joined(J, ir, ctl, fns, labelMap, loops, phis)
  BY DEF Merged
<1>1. CASE Diverting
  <2>1. Joined(J, ir', ctl', fns', labelMap', loops', phis')
    BY <1>0, <1>1, DivertingJoined
  <2> QED BY <2>1 DEF Merged
<1>2. ASSUME NEW kind, NEW n, NEW parts, NEW from, Begins(kind, n, parts, from) PROVE Merged'
  <2>1. CASE kind = "landor"
    <3>1. Joined(J \cup {New(2)}, ir', ctl', fns', labelMap', loops', phis')
      BY <1>0, <1>2, <2>1, LandOrJoined
    <3> QED BY <3>1 DEF Merged
  <2>2. CASE kind # "landor"
    <3>1. Joined(J, ir', ctl', fns', labelMap', loops', phis')
      BY <1>0, <1>2, <2>2, BeginsJoined
    <3> QED BY <3>1 DEF Merged
  <2> QED BY <2>1, <2>2
<1>3. CASE EndPart
  <2>1. Joined(J, ir', ctl', fns', labelMap', loops', phis')
    BY <1>0, <1>3, EndPartJoined
  <2> QED BY <2>1 DEF Merged
<1>4. CASE EndConstruct
  <2>1. Joined(J, ir', ctl', fns', labelMap', loops', phis')
    BY <1>0, <1>4, EndOtherJoined, EndLandOrJoined
  <2> QED BY <2>1 DEF Merged
<1>5. ASSUME NEW valued \in Valued, EnterFunction(valued) PROVE Merged'
  <2>1. Joined(J, ir', ctl', fns', labelMap', loops', phis')
    BY <1>0, <1>5, EnterJoined
  <2> QED BY <2>1 DEF Merged
<1>6. CASE LeaveFunction
  <2>1. Joined(J, ir', ctl', fns', labelMap', loops', phis')
    BY <1>0, <1>6, LeaveJoined
  <2> QED BY <2>1 DEF Merged
<1>7. CASE RejectFunction \/ EndUnit \/ UNCHANGED vars
  <2>1. Joined(J, ir', ctl', fns', labelMap', loops', phis')
    BY <1>0, <1>7, RestJoined
  <2> QED BY <2>1 DEF Merged
<1> QED BY <1>1, <1>2, <1>3, <1>4, <1>5, <1>6, <1>7, StepKinds DEF Beginning

LEMMA MergedPhis == ASSUME Typed, Merged PROVE PhisNamePredecessors
<1>1. PICK J : Joined(J, ir, ctl, fns, labelMap, loops, phis)
  BY DEF Merged
<1>2. ASSUME NEW x
      PROVE  Preds(ir, x) = {b \in Block : \E i \in DOMAIN ir.out[b] : x \in ir.out[b][i]}
  <2>1. \A b : x \in TargetsOf(ir, b) <=> \E i \in DOMAIN ir.out[b] : x \in ir.out[b][i]
    BY InReached DEF TargetsOf
  <2> QED BY <2>1, Sizes DEF Preds
<1> QED BY <1>1, <1>2 DEF Joined, Named, PhisNamePredecessors

(* Every phi names exactly the blocks that branch to its block, whatever    *)
(* control flow the operands of && and || hold (ife, another && or ||) and  *)
(* whatever is nested around them: walk_expr_landor takes the insertion     *)
(* block anew after each operand, and nothing else branches to the block it *)
(* made for the result.                                                     *)
THEOREM PhisAreRight == Spec => []PhisNamePredecessors
<1>1. Init => Typed /\ Context /\ Merged
  BY TypedInit, MergedInit
<1>2. Typed /\ Context /\ Merged /\ [Next]_vars => (Typed /\ Context /\ Merged)'
  BY TypedStep, MergedStep
<1>3. Typed /\ Context /\ Merged => PhisNamePredecessors
  BY MergedPhis
<1> QED BY <1>1, <1>2, <1>3, PTL DEF Spec

(***************************************************************************)
(* Finished functions verify.  H[b] is the function block b was created    *)
(* for: whatever may become a target while the walk is in a function was   *)
(* created for that one.  The entry, which nothing branches to, has none.  *)
(***************************************************************************)
For(m, H, b, f) == b \in Blk(m) /\ H[b] = f

Meant(m, H) ==
  /\ H \in [Blk(m) -> Nat]
  /\ \A b \in Blk(m) : m.fn[b] # 0 => H[b] \in {0, m.fn[b]}
  /\ \A b \in Blk(m) : \A t \in TargetsOf(m, b) : For(m, H, t, m.fn[b])

Founded(m, F, H) ==
  \A f \in 1 .. Len(F) :
    /\ InBody(m, F[f].entry, f) /\ For(m, H, F[f].entry, 0) /\ For(m, H, F[f].ret, f)
    /\ f \notin Unfinished(F) => InBody(m, F[f].ret, f)

(* the blocks of a part are of the function it is in *)
Intended(m, H, part, f) ==
  /\ \A h \in DOMAIN part.hops : \A t \in part.hops[h].to \cup {part.hops[h].at} : For(m, H, t, f)
  /\ \A j \in DOMAIN part.loop : For(m, H, part.loop[j].cond, f) /\ For(m, H, part.loop[j].out, f)

Aimed(m, c, H) ==
  \A i \in 1 .. Len(c) : c[i].kind # "fn" =>
    \A q \in DOMAIN c[i].parts : Intended(m, H, c[i].parts[q], Own(c, i - 1))

Looped(m, lp, H) ==
  \A j \in 1 .. Len(lp) : /\ lp[j].cond \in Blk(m) /\ lp[j].out \in Blk(m)
                          /\ H[lp[j].cond] # 0 /\ H[lp[j].out] = H[lp[j].cond]

(* A label has its block from the first mention on; until the label is     *)
(* defined the block is inserted nowhere.                                  *)
Mentions(F, g, l) == l \in F[g].defs \cup F[g].uses

Awaited(F, g, l) == l \in F[g].uses /\ l \notin F[g].defs

Labelled(m, F, lm, H) ==
  \A l \in Label :
    IF lm[l] = 0 THEN \A g \in 1 .. Len(F) : ~Mentions(F, g, l)
    ELSE \E g \in 1 .. Len(F) : /\ For(m, H, lm[l], g) /\ Mentions(F, g, l)
                                /\ m.fn[lm[l]] = 0 => Awaited(F, g, l)

(* what is inserted nowhere yet has a purpose *)
Purposed(m, c, F, lm) ==
  \A b \in Blk(m) : m.fn[b] = 0 =>
    \/ \E f \in Unfinished(F) : b = F[f].ret
    \/ \E l \in Label : lm[l] = b
    \/ \E i \in 1 .. Len(c) : \E q \in DOMAIN c[i].parts : b \in Ats(c[i].parts[q].hops)

Kept(m, c, F, lm, lp, H) ==
  /\ Meant(m, H) /\ Founded(m, F, H) /\ Aimed(m, c, H) /\ Looped(m, lp, H)
  /\ Labelled(m, F, lm, H) /\ Purposed(m, c, F, lm)

(***************************************************************************)
(* The parts of the invariant under a step on the blocks (Grows).          *)
(***************************************************************************)
Extends(m, m2, H, H2) == H2 \in [Blk(m2) -> Nat] /\ \A b \in Blk(m) : H2[b] = H[b]

LEMMA ForGrows ==
  ASSUME NEW m, NEW m2, NEW A, NEW f, NEW X, NEW T, Grows(m, m2, A, f, X, T),
         NEW H, NEW H2, Extends(m, m2, H, H2), NEW b, NEW g, For(m, H, b, g)
  PROVE  For(m2, H2, b, g)
BY DEF Grows, Extends, For

LEMMA MeantGrows ==
  ASSUME NEW m, NEW m2, NEW A, NEW f, NEW X, NEW T, Grows(m, m2, A, f, X, T),
         NEW live, Straight(m, live),
         NEW H, NEW H2, Meant(m, H), Extends(m, m2, H, H2),
         \A b \in A : H2[b] \in {0, f},
         \A b \in X : \A t \in T[b] : For(m2, H2, t, m2.fn[b])
  PROVE  Meant(m2, H2)
<1>1. ASSUME NEW b \in Blk(m2), m2.fn[b] # 0 PROVE H2[b] \in {0, m2.fn[b]}
  <2>1. CASE b \in A
    BY <2>1 DEF Grows
  <2>2. CASE b \notin A
    <3>1. b \in Blk(m) /\ m2.fn[b] = m.fn[b]
      BY <1>1, <2>2 DEF Grows
    <3> QED BY <1>1, <3>1 DEF Meant, Extends
  <2> QED BY <2>1, <2>2
<1>2. ASSUME NEW b \in Blk(m2), NEW t \in TargetsOf(m2, b) PROVE For(m2, H2, t, m2.fn[b])
  <2>1. PICK i \in DOMAIN m2.out[b] : t \in m2.out[b][i]
    BY <1>2, InReached DEF TargetsOf
  <2>2. CASE b \in X
    <3>1. m2.out[b] = <<T[b]>>
      BY <2>2 DEF Grows
    <3>2. t \in T[b]
      BY <2>1, <3>1
    <3> QED BY <2>2, <3>2
  <2>3. CASE b \notin X
    <3>1. m2.out[b] = IF b \in Blk(m) THEN m.out[b] ELSE <<>>
      BY <2>3 DEF Grows
    <3>2. DOMAIN <<>> = {}
      OBVIOUS
    <3>3. b \in Blk(m) /\ m2.out[b] = m.out[b] /\ m.fn[b] # 0
      BY <2>1, <3>1, <3>2 DEF Straight
    <3>4. m2.fn[b] = m.fn[b]
      BY <3>3 DEF Grows
    <3>5. t \in TargetsOf(m, b)
      BY <2>1, <3>3, InReached DEF TargetsOf
    <3>6. For(m, H, t, m.fn[b])
      BY <3>3, <3>5 DEF Meant
    <3> QED BY <3>4, <3>6, ForGrows
  <2> QED BY <2>2, <2>3
<1> QED BY <1>1, <1>2 DEF Meant, Extends

LEMMA IntendedGrows ==
  ASSUME NEW m, NEW m2, NEW A, NEW f, NEW X, NEW T, Grows(m, m2, A, f, X, T),
         NEW H, NEW H2, Extends(m, m2, H, H2), NEW part, NEW g, Intended(m, H, part, g)
  PROVE  Intended(m2, H2, part, g)
<1>1. \A b : For(m, H, b, g) => For(m2, H2, b, g)
  BY ForGrows
<1> QED BY <1>1 DEF Intended

LEMMA LoopedGrows ==
  ASSUME NEW m, NEW m2, NEW A, NEW f, NEW X, NEW T, Grows(m, m2, A, f, X, T),
         NEW H, NEW H2, Extends(m, m2, H, H2), NEW lp, Looped(m, lp, H)
  PROVE  Looped(m2, lp, H2)
<1>1. \A b \in Blk(m) : b \in Blk(m2) /\ H2[b] = H[b]
  BY DEF Grows, Extends
<1> QED BY <1>1 DEF Looped

(* the functions as far as the invariant looks at them *)
SameLabels(F, F2) ==
  /\ Len(F2) = Len(F)
  /\ \A f \in 1 .. Len(F) : /\ F2[f].entry = F[f].entry /\ F2[f].ret = F[f].ret
                            /\ F2[f].defs = F[f].defs /\ F2[f].uses = F[f].uses

LEMMA LabelledGrows ==
  ASSUME NEW m, NEW m2, NEW A, NEW f, NEW X, NEW T, Grows(m, m2, A, f, X, T),
         NEW H, NEW H2, Extends(m, m2, H, H2), NEW F, NEW F2, SameLabels(F, F2),
         NEW lm, Labelled(m, F, lm, H)
  PROVE  Labelled(m2, F2, lm, H2)
<1>1. \A b, g : For(m, H, b, g) => For(m2, H2, b, g) /\ (m2.fn[b] = 0 => m.fn[b] = 0)
  <2> TAKE b, g
  <2>1. For(m, H, b, g) => For(m2, H2, b, g)
    BY ForGrows
  <2>2. b \in Blk(m) /\ m2.fn[b] = 0 => m.fn[b] = 0
    BY DEF Grows
  <2> QED BY <2>1, <2>2 DEF For
<1>2. \A g \in 1 .. Len(F) : \A l : /\ Mentions(F2, g, l) <=> Mentions(F, g, l)
                                    /\ Awaited(F2, g, l) <=> Awaited(F, g, l)
  BY DEF SameLabels, Mentions, Awaited
<1>3. Len(F2) = Len(F)
  BY DEF SameLabels
<1>4. ASSUME NEW l \in Label, lm[l] = 0 PROVE \A g \in 1 .. Len(F2) : ~Mentions(F2, g, l)
  BY <1>2, <1>3, <1>4 DEF Labelled
<1>5. ASSUME NEW l \in Label, lm[l] # 0
      PROVE  \E g \in 1 .. Len(F2) : /\ For(m2, H2, lm[l], g) /\ Mentions(F2, g, l)
                                     /\ m2.fn[lm[l]] = 0 => Awaited(F2, g, l)
  <2>1. PICK g \in 1 .. Len(F) : /\ For(m, H, lm[l], g) /\ Mentions(F, g, l)
                                 /\ m.fn[lm[l]] = 0 => Awaited(F, g, l)
    BY <1>5 DEF Labelled
  <2> QED BY <1>1, <1>2, <1>3, <2>1
<1> QED BY <1>4, <1>5 DEF Labelled

LEMMA FoundedGrows ==
  ASSUME NEW m, NEW m2, NEW A, NEW f, NEW X, NEW T, Grows(m, m2, A, f, X, T),
         NEW H, NEW H2, Extends(m, m2, H, H2), NEW F, Len(F) \in Nat, Founded(m, F, H), NEW g \in 1 .. Len(F)
  PROVE  /\ InBody(m2, F[g].entry, g) /\ For(m2, H2, F[g].entry, 0) /\ For(m2, H2, F[g].ret, g)
         /\ g \notin Unfinished(F) => InBody(m2, F[g].ret, g)
<1>1. g # 0 /\ InBody(m, F[g].entry, g) /\ For(m, H, F[g].entry, 0) /\ For(m, H, F[g].ret, g)
      /\ (g \notin Unfinished(F) => InBody(m, F[g].ret, g))
  BY DEF Founded
<1>2. InBody(m2, F[g].entry, g) /\ (g \notin Unfinished(F) => InBody(m2, F[g].ret, g))
  BY <1>1, InBodyGrows
<1>3. For(m2, H2, F[g].entry, 0) /\ For(m2, H2, F[g].ret, g)
  BY <1>1, ForGrows
<1> QED BY <1>2, <1>3

(* the functions are the same but for what they contain *)
LEMMA FoundedSame ==
  ASSUME NEW m, NEW m2, NEW A, NEW f, NEW X, NEW T, Grows(m, m2, A, f, X, T),
         NEW H, NEW H2, Extends(m, m2, H, H2), NEW F, NEW F2, Len(F) \in Nat, Len(F2) = Len(F),
         \A g \in 1 .. Len(F) : /\ F2[g].entry = F[g].entry /\ F2[g].ret = F[g].ret
                                /\ g \in Unfinished(F) <=> g \in Unfinished(F2),
         Founded(m, F, H)
  PROVE  Founded(m2, F2, H2)
<1>1. \A g \in 1 .. Len(F) :
        /\ InBody(m2, F[g].entry, g) /\ For(m2, H2, F[g].entry, 0) /\ For(m2, H2, F[g].ret, g)
        /\ g \notin Unfinished(F) => InBody(m2, F[g].ret, g)
  BY FoundedGrows
<1> QED BY <1>1 DEF Founded

(* the blocks the frames are to insert are those A, or in frames still *)
Carried(c, c2, A) ==
  \A i \in 1 .. Len(c) : \A q \in DOMAIN c[i].parts : \A b \in Ats(c[i].parts[q].hops) :
    \/ b \in A
    \/ \E j \in 1 .. Len(c2) : \E r \in DOMAIN c2[j].parts : b \in Ats(c2[j].parts[r].hops)

LEMMA PurposedGrows ==
  ASSUME NEW m, NEW m2, NEW A, NEW f, NEW X, NEW T, Grows(m, m2, A, f, X, T),
         NEW c, NEW c2, NEW F, NEW F2, NEW lm, NEW lm2, Purposed(m, c, F, lm),
         \A b \in Blk(m2) \ Blk(m) : b \in A \/ \E l \in Label : lm2[l] = b,
         \A l \in Label : lm[l] \in {0, lm2[l]},
         \A g \in Unfinished(F) : F[g].ret \in A \/ (g \in Unfinished(F2) /\ F2[g].ret = F[g].ret),
         Carried(c, c2, A)
  PROVE  Purposed(m2, c2, F2, lm2)
<1> SUFFICES ASSUME NEW b \in Blk(m2), m2.fn[b] = 0
             PROVE  \/ \E g \in Unfinished(F2) : b = F2[g].ret
                    \/ \E l \in Label : lm2[l] = b
                    \/ \E j \in 1 .. Len(c2) : \E r \in DOMAIN c2[j].parts : b \in Ats(c2[j].parts[r].hops)
  BY DEF Purposed
<1>1. b \notin A
  BY DEF Grows
<1>2. CASE b \notin Blk(m)
  BY <1>1, <1>2
<1>3. CASE b \in Blk(m)
  <2>1. m.fn[b] = 0 /\ b # 0
    BY <1>1, <1>3 DEF Grows, Blk
  <2>2. \/ \E g \in Unfinished(F) : b = F[g].ret
        \/ \E l \in Label : lm[l] = b
        \/ \E i \in 1 .. Len(c) : \E q \in DOMAIN c[i].parts : b \in Ats(c[i].parts[q].hops)
    BY <1>3, <2>1 DEF Purposed
  <2>3. ASSUME NEW g \in Unfinished(F), b = F[g].ret PROVE \E h \in Unfinished(F2) : b = F2[h].ret
    BY <1>1, <2>3
  <2>4. ASSUME NEW l \in Label, lm[l] = b PROVE lm2[l] = b
    BY <2>1, <2>4
  <2>5. ASSUME NEW i \in 1 .. Len(c), NEW q \in DOMAIN c[i].parts, b \in Ats(c[i].parts[q].hops)
        PROVE  \E j \in 1 .. Len(c2) : \E r \in DOMAIN c2[j].parts : b \in Ats(c2[j].parts[r].hops)
    BY <1>1, <2>5 DEF Carried
  <2> QED BY <2>2, <2>3, <2>4, <2>5
<1> QED BY <1>2, <1>3

(***************************************************************************)
(* A diversion of control.                                                 *)
(***************************************************************************)
IntendedFor(H) == [b \in Blk(ir') |-> IF b \in Blk(ir) THEN H[b] ELSE currFn]

LEMMA DivertPlace ==
  ASSUME ~EmitMain, Typed, Context, NEW n, NEW targets, NEW extra, Diverts(n, targets, extra),
         Saved(ir, ip, ctl), Straight(ir, Live(ip, ctl))
  PROVE  /\ ip \in Blk(ir) /\ ir.fn[ip] = currFn /\ extra # ip
         /\ currFn = Own(ctl, Len(ctl)) /\ currFn # 0
         /\ Len(ir'.fn) = Len(ir.fn) + n
<1>0. PICK T : T[ip] = targets
  <2>1. [b \in {ip} |-> targets][ip] = targets
    OBVIOUS
  <2> QED BY <2>1
<1>1. ip \in Blk(ir) /\ ir.fn[ip] = currFn
  BY <1>0, DivertGrows, ZenonT(40)
<1>2. extra # ip
  BY <1>0, DivertGrows, ZenonT(40)
<1>3. currFn = Own(ctl, Len(ctl)) /\ currFn # 0
  BY <1>0, DivertGrows, ZenonT(40)
<1>4. Len(ir'.fn) = Len(ir.fn) + n
  BY <1>0, DivertGrows, ZenonT(40)
<1> QED BY <1>1, <1>2, <1>3, <1>4

LEMMA DivertKept ==
  ASSUME ~EmitMain, Typed, Context, NEW n, NEW targets, NEW extra, Diverts(n, targets, extra),
         NEW K, Core(ir, ip, ctl, fns, labelMap, K),
         NEW H, Kept(ir, ctl, fns, labelMap, loops, H), NEW H2, H2 = IntendedFor(H),
         \A t \in targets \cup {extra} : t \in Blk(ir) => H[t] = currFn,
         Labelled(ir', fns', labelMap', H2),
         \A b \in Blk(ir') \ Blk(ir) : b = extra \/ \E l \in Label : labelMap'[l] = b,
         \A l \in Label : labelMap[l] \in {0, labelMap'[l]}
  PROVE  Kept(ir', ctl', fns', labelMap', loops', H2)
<1>1. Saved(ir, ip, ctl) /\ Straight(ir, Live(ip, ctl))
  BY DEF Core
<1>2. /\ Meant(ir, H) /\ Founded(ir, fns, H) /\ Aimed(ir, ctl, H) /\ Looped(ir, loops, H)
      /\ Purposed(ir, ctl, fns, labelMap)
  BY DEF Kept
<1>0. PICK T : T[ip] = targets
  <2>1. [b \in {ip} |-> targets][ip] = targets
    OBVIOUS
  <2> QED BY <2>1
<1>3. Grows(ir, ir', {extra}, currFn, {ip}, T)
  BY <1>0, <1>1, DivertGrows, ZenonT(40)
<1>4. ip \in Blk(ir) /\ ir.fn[ip] = currFn /\ extra # ip
  BY <1>1, DivertPlace
<1>5. currFn = Own(ctl, Len(ctl)) /\ currFn # 0 /\ currFn \in Nat
  <2>1. currFn = Own(ctl, Len(ctl)) /\ currFn # 0
    BY <1>1, DivertPlace
  <2> QED BY <2>1, Sizes DEF Typed, FnsTyped
<1>6. ctl' = ctl /\ loops' = loops /\ Len(fns') = Len(fns) /\ Len(fns) \in Nat
      /\ \A g \in 1 .. Len(fns) : /\ fns'[g].entry = fns[g].entry /\ fns'[g].ret = fns[g].ret
                                  /\ g \in Unfinished(fns) <=> g \in Unfinished(fns')
  BY Sizes DEF Diverts, SameFns, Unfinished
<1>7. Extends(ir, ir', H, H2)
  <2>1. Blk(ir) \subseteq Blk(ir') /\ H \in [Blk(ir) -> Nat]
    BY <1>2, <1>3 DEF Grows, Meant
  <2> QED BY <1>5, <2>1 DEF Extends, IntendedFor
<1>8. targets \subseteq Blk(ir') /\ extra \in Blk(ir')
      /\ \A t \in targets \cup {extra} : H2[t] = currFn
  <2>1. Len(ir'.fn) = Len(ir.fn) + n
    BY <1>1, DivertPlace
  <2>2. targets \subseteq Blk(ir') /\ extra \in Blk(ir')
    BY <2>1 DEF Diverts, Blk
  <2> QED BY <2>2 DEF IntendedFor
<1>9. Meant(ir', H2)
  <2>1. ir'.fn[ip] = currFn
    BY <1>3, <1>4 DEF Grows
  <2>2. \A b \in {ip} : \A t \in T[b] : For(ir', H2, t, ir'.fn[b])
    BY <1>0, <1>8, <2>1 DEF For
  <2>3. \A b \in {extra} : H2[b] \in {0, currFn}
    BY <1>8
  <2> QED BY <1>1, <1>2, <1>3, <1>7, <2>2, <2>3, MeantGrows
<1>10. Founded(ir', fns', H2)
  BY <1>2, <1>3, <1>6, <1>7, FoundedSame
<1>11. Aimed(ir', ctl', H2)
  <2>1. \A part, g : Intended(ir, H, part, g) => Intended(ir', H2, part, g)
    BY <1>3, <1>7, IntendedGrows
  <2> QED BY <1>2, <1>6, <2>1 DEF Aimed
<1>12. Looped(ir', loops', H2)
  BY <1>2, <1>3, <1>6, <1>7, LoopedGrows
<1>13. Purposed(ir', ctl', fns', labelMap')
  <2>1. \A g \in Unfinished(fns) : g \in Unfinished(fns') /\ fns'[g].ret = fns[g].ret
    BY <1>6 DEF Unfinished
  <2>2. Carried(ctl, ctl', {extra})
    BY <1>6 DEF Carried
  <2> QED BY <1>2, <1>3, <1>6, <2>1, <2>2, PurposedGrows
<1> QED BY <1>9, <1>10, <1>11, <1>12, <1>13 DEF Kept

LEMMA DivertExtends ==
  ASSUME ~EmitMain, Typed, Context, NEW n, NEW targets, NEW extra, Diverts(n, targets, extra),
         NEW K, Core(ir, ip, ctl, fns, labelMap, K),
         NEW H, Kept(ir, ctl, fns, labelMap, loops, H)
  PROVE  /\ \E T : Grows(ir, ir', {extra}, currFn, {ip}, T)
         /\ Extends(ir, ir', H, IntendedFor(H))
         /\ Len(ir'.fn) = Len(ir.fn) + n /\ currFn = Enclosing /\ currFn # 0
<1>1. Saved(ir, ip, ctl) /\ Straight(ir, Live(ip, ctl))
  BY DEF Core
<1>0. PICK T : T[ip] = targets
  <2>1. [b \in {ip} |-> targets][ip] = targets
    OBVIOUS
  <2> QED BY <2>1
<1>2. Grows(ir, ir', {extra}, currFn, {ip}, T)
  BY <1>0, <1>1, DivertGrows, ZenonT(40)
<1>3. currFn = Own(ctl, Len(ctl)) /\ currFn # 0
  BY <1>1, DivertPlace
<1>4. Len(ir'.fn) = Len(ir.fn) + n
  BY <1>1, DivertPlace
<1>5. Extends(ir, ir', H, IntendedFor(H))
  <2>1. Blk(ir) \subseteq Blk(ir') /\ H \in [Blk(ir) -> Nat] /\ currFn \in Nat
    BY <1>2, Sizes DEF Grows, Kept, Meant, Typed, FnsTyped
  <2> QED BY <2>1 DEF Extends, IntendedFor
<1> QED BY <1>2, <1>3, <1>4, <1>5, EnclosingIs

(* the labels are the same *)
LEMMA PlainDivertKept ==
  ASSUME ~EmitMain, Typed, Context, NEW target, Diverts(1, {target}, New(1)),
         NEW K, Core(ir, ip, ctl, fns, labelMap, K),
         NEW H, Kept(ir, ctl, fns, labelMap, loops, H),
         For(ir, H, target, currFn), labelMap' = labelMap, SameLabels(fns, fns')
  PROVE  Kept(ir', ctl', fns', labelMap', loops', IntendedFor(H))
<1>1. PICK H2 : H2 = IntendedFor(H)
  OBVIOUS
<1>2. PICK T : Grows(ir, ir', {New(1)}, currFn, {ip}, T)
  BY DivertExtends
<1>3. Extends(ir, ir', H, H2)
  BY <1>1, DivertExtends
<1>4. Len(ir'.fn) = Len(ir.fn) + 1 /\ Len(ir.fn) \in Nat
  BY DivertExtends, Sizes
<1>5. Labelled(ir', fns', labelMap', H2)
  BY <1>2, <1>3, LabelledGrows DEF Kept
<1>6. New(1) \notin Blk(ir) /\ \A b \in Blk(ir') \ Blk(ir) : b = New(1)
  BY <1>4 DEF New, Blk
<1>7. \A t \in {target} \cup {New(1)} : t \in Blk(ir) => H[t] = currFn
  BY <1>6 DEF For
<1>8. Kept(ir', ctl', fns', labelMap', loops', H2)
  BY <1>1, <1>5, <1>6, <1>7, DivertKept
<1> QED BY <1>1, <1>8

LEMMA BreakKept ==
  ASSUME ~EmitMain, ~InnerBreaks, Typed, Context, Break \/ Continue,
         NEW K, Core(ir, ip, ctl, fns, labelMap, K),
         NEW H, Kept(ir, ctl, fns, labelMap, loops, H)
  PROVE  Kept(ir', ctl', fns', labelMap', loops', IntendedFor(H))
<1>1. PICK t \in {InnermostLoop.out, InnermostLoop.cond} : Diverts(1, {t}, New(1))
  BY BreakDiverts
<1>2. loops # <<>> /\ ir.fn[InnermostLoop.cond] = Enclosing /\ labelMap' = labelMap /\ fns' = fns
  BY DEF Break, Continue, InLoop, UnchangedFn
<1>3. currFn = Enclosing /\ currFn # 0
  BY <1>1, DivertExtends
<1>4. /\ InnermostLoop.cond \in Blk(ir) /\ InnermostLoop.out \in Blk(ir)
      /\ H[InnermostLoop.cond] # 0 /\ H[InnermostLoop.out] = H[InnermostLoop.cond]
  <2>1. Len(loops) \in 1 .. Len(loops)
    <3>1. Len(loops) \in Nat \ {0}
      BY <1>2, EmptySeq DEF Typed, TablesTyped
    <3> QED BY <3>1
  <2> QED BY <2>1 DEF Kept, Looped, InnermostLoop
<1>5. H[InnermostLoop.cond] = currFn
  BY <1>2, <1>3, <1>4 DEF Kept, Meant
<1>6. For(ir, H, t, currFn)
  BY <1>4, <1>5 DEF For
<1>7. SameLabels(fns, fns')
  BY <1>2 DEF SameLabels
<1> QED BY <1>1, <1>2, <1>6, <1>7, PlainDivertKept

LEMMA ReturnKept ==
  ASSUME ~EmitMain, Typed, Context, Return,
         NEW K, Core(ir, ip, ctl, fns, labelMap, K),
         NEW H, Kept(ir, ctl, fns, labelMap, loops, H)
  PROVE  Kept(ir', ctl', fns', labelMap', loops', IntendedFor(H))
<1>1. Diverts(1, {fns[currFn].ret}, New(1)) /\ currFn \in Fn
  BY ReturnDiverts
<1>2. \A h \in Fn : fns'[h] = IF h = Enclosing THEN [fns[h] EXCEPT !.returns = TRUE] ELSE fns[h]
  BY ReturnDiverts
<1>3. labelMap' = labelMap
  BY DEF Return
<1>4. For(ir, H, fns[currFn].ret, currFn)
  BY <1>1, Sizes DEF Kept, Founded
<1>5. SameLabels(fns, fns')
  <2>1. Len(fns') = Len(fns) /\ Fn = 1 .. Len(fns)
    BY <1>1, Sizes DEF Diverts, SameFns
  <2>2. ASSUME NEW h \in Fn
        PROVE  /\ fns'[h].entry = fns[h].entry /\ fns'[h].ret = fns[h].ret
               /\ fns'[h].defs = fns[h].defs /\ fns'[h].uses = fns[h].uses
    <3>1. fns[h] \in FnT(Len(ir.fn))
      BY Sizes
    <3> QED BY <1>2, <3>1 DEF FnT
  <2> QED BY <2>1, <2>2 DEF SameLabels
<1> QED BY <1>1, <1>3, <1>4, <1>5, PlainDivertKept

(* label l is mentioned in function e, and its block is one of e *)
LEMMA LabelledMentions ==
  ASSUME NEW m, NEW m2, NEW A, NEW f, NEW X, NEW T, Grows(m, m2, A, f, X, T),
         NEW H, NEW H2, Extends(m, m2, H, H2), NEW F, NEW F2, Len(F2) = Len(F),
         NEW lm, NEW lm2, Labelled(m, F, lm, H), NEW l \in Label, lm2[l] # 0,
         \A k \in Label : k # l => lm2[k] = lm[k],
         \A g \in 1 .. Len(F) : \A k \in Label : k # l =>
           (Mentions(F2, g, k) <=> Mentions(F, g, k)) /\ (Awaited(F2, g, k) <=> Awaited(F, g, k)),
         NEW e \in 1 .. Len(F), For(m2, H2, lm2[l], e), Mentions(F2, e, l),
         m2.fn[lm2[l]] = 0 => Awaited(F2, e, l)
  PROVE  Labelled(m2, F2, lm2, H2)
<1>1. \A b, g : For(m, H, b, g) => For(m2, H2, b, g) /\ (m2.fn[b] = 0 => m.fn[b] = 0)
  <2> TAKE b, g
  <2>1. For(m, H, b, g) => For(m2, H2, b, g)
    BY ForGrows
  <2>2. b \in Blk(m) /\ m2.fn[b] = 0 => m.fn[b] = 0
    BY DEF Grows
  <2> QED BY <2>1, <2>2 DEF For
<1>2. ASSUME NEW k \in Label, lm2[k] = 0 PROVE \A g \in 1 .. Len(F2) : ~Mentions(F2, g, k)
  <2>1. k # l /\ lm[k] = 0
    BY <1>2
  <2>2. \A g \in 1 .. Len(F) : ~Mentions(F, g, k)
    BY <2>1 DEF Labelled
  <2> QED BY <2>1, <2>2
<1>3. ASSUME NEW k \in Label, lm2[k] # 0
      PROVE  \E g \in 1 .. Len(F2) : /\ For(m2, H2, lm2[k], g) /\ Mentions(F2, g, k)
                                     /\ m2.fn[lm2[k]] = 0 => Awaited(F2, g, k)
  <2>1. CASE k = l
    BY <2>1
  <2>2. CASE k # l
    <3>1. lm2[k] = lm[k]
      BY <2>2
    <3>2. PICK g \in 1 .. Len(F) : /\ For(m, H, lm[k], g) /\ Mentions(F, g, k)
                                   /\ m.fn[lm[k]] = 0 => Awaited(F, g, k)
      BY <1>3, <3>1 DEF Labelled
    <3>3. Mentions(F2, g, k) /\ (Awaited(F, g, k) => Awaited(F2, g, k))
      BY <2>2, <3>2
    <3> QED BY <1>1, <3>1, <3>2, <3>3
  <2> QED BY <2>1, <2>2
<1> QED BY <1>2, <1>3 DEF Labelled

(* A label that has a block already is mentioned only here. *)
LEMMA OwnLabel ==
  ASSUME ~SharedLabels, Typed, NEW H, Kept(ir, ctl, fns, labelMap, loops, H),
         NEW l \in Label, LabelAllowed(l)
  PROVE  IF labelMap[l] = 0 THEN \A g \in Fn : ~Mentions(fns, g, l)
         ELSE /\ For(ir, H, labelMap[l], Enclosing)
              /\ ir.fn[labelMap[l]] = 0 => Awaited(fns, Enclosing, l)
<1>1. Fn = 1 .. Len(fns) /\ \A g \in Fn : Mentions(fns, g, l) => g = Enclosing
  BY Sizes DEF LabelAllowed, Mentions
<1>2. Labelled(ir, fns, labelMap, H)
  BY DEF Kept
<1>3. CASE labelMap[l] = 0
  BY <1>1, <1>2, <1>3 DEF Labelled
<1>4. CASE labelMap[l] # 0
  <2>1. PICK g \in Fn : /\ For(ir, H, labelMap[l], g) /\ Mentions(fns, g, l)
                        /\ ir.fn[labelMap[l]] = 0 => Awaited(fns, g, l)
    BY <1>1, <1>2, <1>4 DEF Labelled
  <2>2. g = Enclosing
    BY <1>1, <2>1
  <2> QED BY <1>4, <2>1, <2>2
<1> QED BY <1>3, <1>4

LEMMA GotoKept ==
  ASSUME ~EmitMain, ~SharedLabels, Typed, Context, NEW l \in Label, Goto(l),
         NEW K, Core(ir, ip, ctl, fns, labelMap, K),
         NEW H, Kept(ir, ctl, fns, labelMap, loops, H)
  PROVE  Kept(ir', ctl', fns', labelMap', loops', IntendedFor(H))
<1>1. PICK H2 : H2 = IntendedFor(H)
  OBVIOUS
<1>2. PICK b : b = IF labelMap[l] # 0 THEN labelMap[l] ELSE New(1)
  OBVIOUS
<1>3. PICK n : n = IF labelMap[l] # 0 THEN 1 ELSE 2
  OBVIOUS
<1>4. /\ Diverts(n, {b}, New(n)) /\ labelMap' = [labelMap EXCEPT ![l] = b] /\ Enclosing \in Fn
      /\ \A h \in Fn : fns'[h] = IF h = Enclosing THEN [fns[h] EXCEPT !.uses = @ \cup {l}] ELSE fns[h]
  BY <1>2, <1>3, GotoDiverts
<1>5. LabelAllowed(l)
  BY DEF Goto
<1>6. PICK T : Grows(ir, ir', {New(n)}, currFn, {ip}, T)
  BY <1>4, DivertExtends
<1>7. Extends(ir, ir', H, H2)
  BY <1>1, <1>4, DivertExtends
<1>8. Len(ir'.fn) = Len(ir.fn) + n /\ currFn = Enclosing /\ currFn # 0
  BY <1>4, DivertExtends
<1>9. Len(ir.fn) \in Nat /\ labelMap \in [Label -> 0 .. Len(ir.fn)] /\ Fn = 1 .. Len(fns)
      /\ Len(fns') = Len(fns) /\ n \in {1, 2}
  BY <1>3, <1>4, Sizes DEF Typed, TablesTyped, Diverts, SameFns
<1>10. labelMap'[l] = b /\ \A k \in Label : k # l => labelMap'[k] = labelMap[k]
  BY <1>4, <1>9
<1>11. \A h \in Fn : /\ fns'[h].defs = fns[h].defs
                     /\ fns'[h].uses = IF h = Enclosing THEN fns[h].uses \cup {l} ELSE fns[h].uses
  <2> TAKE h \in Fn
  <2>1. fns[h] \in FnT(Len(ir.fn))
    BY Sizes
  <2> QED BY <1>4, <2>1 DEF FnT
<1>12. New(n) \notin Blk(ir) /\ b # 0
  BY <1>2, <1>9 DEF New, Blk
<1>13. For(ir', H2, b, Enclosing)
  <2>1. CASE labelMap[l] = 0
    <3>1. b \in Blk(ir') /\ b \notin Blk(ir)
      <4>1. b = Len(ir.fn) + 1 /\ n = 2
        BY <1>2, <1>3, <2>1 DEF New
      <4> QED BY <1>8, <1>9, <4>1 DEF Blk
    <3> QED BY <1>1, <1>8, <3>1 DEF For, IntendedFor
  <2>2. CASE labelMap[l] # 0
    <3>1. For(ir, H, b, Enclosing)
      BY <1>2, <1>5, <2>2, OwnLabel
    <3> QED BY <1>6, <1>7, <3>1, ForGrows
  <2> QED BY <2>1, <2>2
<1>14. ir'.fn[b] = 0 => Awaited(fns', Enclosing, l)
  <2> SUFFICES ASSUME ir'.fn[b] = 0 PROVE Awaited(fns', Enclosing, l)
    OBVIOUS
  <2>1. l \notin fns[Enclosing].defs
    <3>1. CASE labelMap[l] = 0
      BY <1>4, <1>5, <3>1, OwnLabel DEF Mentions
    <3>2. CASE labelMap[l] # 0
      <4>1. For(ir, H, b, Enclosing) /\ (ir.fn[b] = 0 => Awaited(fns, Enclosing, l))
        BY <1>2, <1>5, <3>2, OwnLabel
      <4>2. ir.fn[b] = 0
        BY <1>6, <4>1 DEF For, Grows
      <4> QED BY <4>1, <4>2 DEF Awaited
    <3> QED BY <3>1, <3>2
  <2> QED BY <1>4, <1>11, <2>1 DEF Awaited
<1>15. Labelled(ir', fns', labelMap', H2)
  <2>1. Labelled(ir, fns, labelMap, H)
    BY DEF Kept
  <2>2. \A g \in Fn : \A k \in Label : k # l =>
          (Mentions(fns', g, k) <=> Mentions(fns, g, k)) /\ (Awaited(fns', g, k) <=> Awaited(fns, g, k))
    BY <1>11 DEF Mentions, Awaited
  <2>3. Mentions(fns', Enclosing, l)
    BY <1>4, <1>11 DEF Mentions
  <2> QED BY <1>4, <1>6, <1>7, <1>9, <1>10, <1>12, <1>13, <1>14, <2>1, <2>2, <2>3, LabelledMentions
<1>16. \A t \in {b} \cup {New(n)} : t \in Blk(ir) => H[t] = currFn
  <2>1. b \in Blk(ir) => labelMap[l] # 0
    BY <1>2, <1>9 DEF New, Blk
  <2>2. b \in Blk(ir) => For(ir, H, b, Enclosing)
    BY <1>2, <1>5, <2>1, OwnLabel
  <2> QED BY <1>8, <1>12, <2>2 DEF For
<1>17. \A c \in Blk(ir') \ Blk(ir) : c = New(n) \/ \E k \in Label : labelMap'[k] = c
  <2>1. CASE labelMap[l] = 0
    <3>1. n = 2 /\ b = Len(ir.fn) + 1 /\ New(n) = Len(ir.fn) + 2
      BY <1>2, <1>3, <2>1 DEF New
    <3>2. \A c \in Blk(ir') \ Blk(ir) : c = New(n) \/ c = b
      BY <1>8, <1>9, <3>1 DEF Blk
    <3> QED BY <1>10, <3>2
  <2>2. CASE labelMap[l] # 0
    <3>1. n = 1 /\ New(n) = Len(ir.fn) + 1
      BY <1>3, <2>2 DEF New
    <3> QED BY <1>8, <1>9, <3>1 DEF Blk
  <2> QED BY <2>1, <2>2
<1>18. \A k \in Label : labelMap[k] \in {0, labelMap'[k]}
  BY <1>2, <1>10
<1>19. Kept(ir', ctl', fns', labelMap', loops', H2)
  <2>1. PICK targets, extra : targets = {b} /\ extra = New(n)
    OBVIOUS
  <2>2. Diverts(n, targets, extra)
    BY <1>4, <2>1
  <2>3. \A t \in targets \cup {extra} : t \in Blk(ir) => H[t] = currFn
    BY <1>16, <2>1
  <2>4. \A c \in Blk(ir') \ Blk(ir) : c = extra \/ \E k \in Label : labelMap'[k] = c
    BY <1>17, <2>1
  <2> QED BY <1>1, <1>15, <1>18, <2>2, <2>3, <2>4, DivertKept
<1> QED BY <1>1, <1>19

LEMMA LabelKept ==
  ASSUME ~EmitMain, ~SharedLabels, Typed, Context, NEW l \in Label, DefineLabel(l),
         NEW K, Core(ir, ip, ctl, fns, labelMap, K),
         NEW H, Kept(ir, ctl, fns, labelMap, loops, H)
  PROVE  Kept(ir', ctl', fns', labelMap', loops', IntendedFor(H))
<1>1. PICK H2 : H2 = IntendedFor(H)
  OBVIOUS
<1>2. PICK b : b = IF labelMap[l] # 0 THEN labelMap[l] ELSE New(1)
  OBVIOUS
<1>3. PICK n : n = IF labelMap[l] # 0 THEN 0 ELSE 1
  OBVIOUS
<1>4. /\ Diverts(n, {b}, b) /\ labelMap' = [labelMap EXCEPT ![l] = b] /\ Enclosing \in Fn
      /\ \A h \in Fn : fns'[h] = IF h = Enclosing THEN [fns[h] EXCEPT !.defs = @ \cup {l}] ELSE fns[h]
  BY <1>2, <1>3, LabelDiverts
<1>5. LabelAllowed(l)
  BY DEF DefineLabel
<1>6. PICK T : Grows(ir, ir', {b}, currFn, {ip}, T)
  BY <1>4, DivertExtends
<1>7. Extends(ir, ir', H, H2)
  BY <1>1, <1>4, DivertExtends
<1>8. Len(ir'.fn) = Len(ir.fn) + n /\ currFn = Enclosing /\ currFn # 0
  BY <1>4, DivertExtends
<1>9. Len(ir.fn) \in Nat /\ labelMap \in [Label -> 0 .. Len(ir.fn)] /\ Fn = 1 .. Len(fns)
      /\ Len(fns') = Len(fns) /\ n \in {0, 1}
  BY <1>3, <1>4, Sizes DEF Typed, TablesTyped, Diverts, SameFns
<1>10. labelMap'[l] = b /\ \A k \in Label : k # l => labelMap'[k] = labelMap[k]
  BY <1>4, <1>9
<1>11. \A h \in Fn : /\ fns'[h].uses = fns[h].uses
                     /\ fns'[h].defs = IF h = Enclosing THEN fns[h].defs \cup {l} ELSE fns[h].defs
  <2> TAKE h \in Fn
  <2>1. fns[h] \in FnT(Len(ir.fn))
    BY Sizes
  <2> QED BY <1>4, <2>1 DEF FnT
<1>12. b # 0
  BY <1>2, <1>9 DEF New
<1>13. For(ir', H2, b, Enclosing)
  <2>1. CASE labelMap[l] = 0
    <3>1. b \in Blk(ir') /\ b \notin Blk(ir)
      <4>1. b = Len(ir.fn) + 1 /\ n = 1
        BY <1>2, <1>3, <2>1 DEF New
      <4> QED BY <1>8, <1>9, <4>1 DEF Blk
    <3> QED BY <1>1, <1>8, <3>1 DEF For, IntendedFor
  <2>2. CASE labelMap[l] # 0
    <3>1. For(ir, H, b, Enclosing)
      BY <1>2, <1>5, <2>2, OwnLabel
    <3> QED BY <1>6, <1>7, <3>1, ForGrows
  <2> QED BY <2>1, <2>2
<1>14. ir'.fn[b] # 0
  BY <1>6, <1>8 DEF Grows
<1>15. Labelled(ir', fns', labelMap', H2)
  <2>1. Labelled(ir, fns, labelMap, H)
    BY DEF Kept
  <2>2. \A g \in Fn : \A k \in Label : k # l =>
          (Mentions(fns', g, k) <=> Mentions(fns, g, k)) /\ (Awaited(fns', g, k) <=> Awaited(fns, g, k))
    BY <1>11 DEF Mentions, Awaited
  <2>3. Mentions(fns', Enclosing, l)
    BY <1>4, <1>11 DEF Mentions
  <2> QED BY <1>4, <1>6, <1>7, <1>9, <1>10, <1>12, <1>13, <1>14, <2>1, <2>2, <2>3, LabelledMentions
<1>16. b \in Blk(ir) => H[b] = currFn
  <2>1. b \in Blk(ir) => labelMap[l] # 0
    BY <1>2, <1>9 DEF New, Blk
  <2>2. b \in Blk(ir) => For(ir, H, b, Enclosing)
    BY <1>2, <1>5, <2>1, OwnLabel
  <2> QED BY <1>8, <2>2 DEF For
<1>17. \A c \in Blk(ir') \ Blk(ir) : c = b
  <2>1. CASE labelMap[l] = 0
    <3>1. n = 1 /\ b = Len(ir.fn) + 1
      BY <1>2, <1>3, <2>1 DEF New
    <3> QED BY <1>8, <1>9, <3>1 DEF Blk
  <2>2. CASE labelMap[l] # 0
    <3>1. n = 0
      BY <1>3, <2>2
    <3> QED BY <1>8, <1>9, <3>1 DEF Blk
  <2> QED BY <2>1, <2>2
<1>18. \A k \in Label : labelMap[k] \in {0, labelMap'[k]}
  BY <1>2, <1>10
<1>19. Kept(ir', ctl', fns', labelMap', loops', H2)
  <2>1. PICK targets : targets = {b}
    OBVIOUS
  <2>2. Diverts(n, targets, b)
    BY <1>4, <2>1
  <2>3. \A t \in targets \cup {b} : t \in Blk(ir) => H[t] = currFn
    BY <1>16, <2>1
  <2>4. \A c \in Blk(ir') \ Blk(ir) : c = b \/ \E k \in Label : labelMap'[k] = c
    BY <1>17
  <2> QED BY <1>1, <1>15, <1>18, <2>2, <2>3, <2>4, DivertKept
<1> QED BY <1>1, <1>19

LEMMA DivertingKept ==
  ASSUME ~EmitMain, ~InnerBreaks, ~SharedLabels, Typed, Context, Diverting,
         NEW K, Core(ir, ip, ctl, fns, labelMap, K),
         NEW H, Kept(ir, ctl, fns, labelMap, loops, H)
  PROVE  Kept(ir', ctl', fns', labelMap', loops', IntendedFor(H))
<1>1. CASE Break \/ Continue
  BY <1>1, BreakKept
<1>2. CASE Return
  BY <1>2, ReturnKept
<1>3. ASSUME NEW l \in Label, Goto(l) PROVE Kept(ir', ctl', fns', labelMap', loops', IntendedFor(H))
  BY <1>3, GotoKept
<1>4. ASSUME NEW l \in Label, DefineLabel(l) PROVE Kept(ir', ctl', fns', labelMap', loops', IntendedFor(H))
  BY <1>4, LabelKept
<1> QED BY <1>1, <1>2, <1>3, <1>4 DEF Diverting

(***************************************************************************)
(* A function is entered, or left.                                         *)
(***************************************************************************)
EnteredFor(H) ==
  [b \in Blk(ir') |-> IF b \in Blk(ir) THEN H[b]
                      ELSE IF b = Len(ir.fn) + 1 THEN Len(fns) + 1 ELSE 0]

LEMMA EnterKept ==
  ASSUME ~EmitMain, Typed, Context, NEW valued \in Valued, EnterFunction(valued),
         NEW K, Core(ir, ip, ctl, fns, labelMap, K),
         NEW H, Kept(ir, ctl, fns, labelMap, loops, H)
  PROVE  Kept(ir', ctl', fns', labelMap', loops', EnteredFor(H))
<1> DEFINE a == Len(ir.fn)
           f == Len(fns) + 1
<1>0. PICK H2 : H2 = EnteredFor(H)
  OBVIOUS
<1>1. /\ Meant(ir, H) /\ Founded(ir, fns, H) /\ Aimed(ir, ctl, H) /\ Looped(ir, loops, H)
      /\ Labelled(ir, fns, labelMap, H) /\ Purposed(ir, ctl, fns, labelMap)
      /\ Straight(ir, Live(ip, ctl))
  BY DEF Kept, Core
<1>2. PICK T : Grows(ir, ir', {a + 2}, f, {}, T)
  BY EnterGrows
<1>3. /\ Len(ctl) \in Nat /\ Len(ctl') = Len(ctl) + 1
      /\ ctl'[Len(ctl')] = FnFrame(f, ip)
      /\ \A i \in 1 .. Len(ctl) : ctl'[i] = ctl[i]
      /\ \A i \in 0 .. Len(ctl) : Own(ctl', i) = Own(ctl, i)
  BY EnterStack
<1>4. /\ Len(ir'.fn) = a + 2 /\ a \in Nat /\ Len(fns) \in Nat
      /\ Len(fns') = f /\ \A g \in Fn : fns'[g] = fns[g]
      /\ fns'[f] = Function(a + 2, a + 1, valued) /\ labelMap' = labelMap /\ loops' = loops
      /\ Fn = 1 .. Len(fns)
  BY EnterIs, Sizes DEF EnterFunction
<1>5. /\ a + 1 \in Blk(ir') /\ a + 2 \in Blk(ir') /\ a + 1 \notin Blk(ir) /\ a + 2 \notin Blk(ir)
      /\ a + 1 # a + 2 /\ \A b \in Blk(ir') \ Blk(ir) : b \in {a + 1, a + 2}
  BY <1>4 DEF Blk
<1>6. Extends(ir, ir', H, H2) /\ H2[a + 1] = f /\ H2[a + 2] = 0
  <2>1. Blk(ir) \subseteq Blk(ir') /\ H \in [Blk(ir) -> Nat] /\ f \in Nat
    BY <1>1, <1>2, <1>4 DEF Grows, Meant
  <2> QED BY <1>0, <1>5, <2>1 DEF Extends, EnteredFor
<1>7. Meant(ir', H2)
  <2>1. \A b \in {a + 2} : H2[b] \in {0, f}
    BY <1>6
  <2>2. PICK X : X = {}
    OBVIOUS
  <2>3. Grows(ir, ir', {a + 2}, f, X, T) /\ \A b \in X : \A t \in T[b] : For(ir', H2, t, ir'.fn[b])
    BY <1>2, <2>2
  <2> QED BY <1>1, <1>6, <2>1, <2>3, MeantGrows
<1>8. Founded(ir', fns', H2)
  <2>1. ASSUME NEW g \in Fn
        PROVE  /\ InBody(ir', fns'[g].entry, g) /\ For(ir', H2, fns'[g].entry, 0) /\ For(ir', H2, fns'[g].ret, g)
               /\ g \notin Unfinished(fns') => InBody(ir', fns'[g].ret, g)
    <3>1. /\ InBody(ir', fns[g].entry, g) /\ For(ir', H2, fns[g].entry, 0) /\ For(ir', H2, fns[g].ret, g)
          /\ g \notin Unfinished(fns) => InBody(ir', fns[g].ret, g)
      BY <1>1, <1>2, <1>4, <1>6, FoundedGrows
    <3>2. fns'[g] = fns[g] /\ (g \in Unfinished(fns) => g \in Unfinished(fns'))
      BY <1>4 DEF Unfinished
    <3> QED BY <3>1, <3>2
  <2>2. /\ InBody(ir', fns'[f].entry, f) /\ For(ir', H2, fns'[f].entry, 0) /\ For(ir', H2, fns'[f].ret, f)
        /\ f \in Unfinished(fns')
    <3>1. fns'[f].entry = a + 2 /\ fns'[f].ret = a + 1 /\ fns'[f].final = "open"
      BY <1>4 DEF Function
    <3>2. ir'.fn[a + 2] = f
      BY <1>2 DEF Grows
    <3>3. f \in 1 .. Len(fns')
      BY <1>4
    <3> QED BY <1>5, <1>6, <3>1, <3>2, <3>3 DEF InBody, For, Unfinished
  <2>3. \A g \in 1 .. Len(fns') : g \in Fn \/ g = f
    BY <1>4
  <2> QED BY <2>1, <2>2, <2>3 DEF Founded
<1>9. Aimed(ir', ctl', H2)
  <2>1. \A part, g : Intended(ir, H, part, g) => Intended(ir', H2, part, g)
    BY <1>2, <1>6, IntendedGrows
  <2>2. ASSUME NEW i \in 1 .. Len(ctl'), ctl'[i].kind # "fn", NEW q \in DOMAIN ctl'[i].parts
        PROVE  Intended(ir', H2, ctl'[i].parts[q], Own(ctl', i - 1))
    <3>1. i # Len(ctl')
      BY <1>3, <2>2 DEF FnFrame
    <3>2. i \in 1 .. Len(ctl) /\ i - 1 \in 0 .. Len(ctl)
      BY <1>3, <3>1
    <3>3. ctl'[i] = ctl[i] /\ Own(ctl', i - 1) = Own(ctl, i - 1)
      BY <1>3, <3>2
    <3>4. Intended(ir, H, ctl[i].parts[q], Own(ctl, i - 1))
      BY <1>1, <2>2, <3>2, <3>3 DEF Aimed
    <3> QED BY <2>1, <3>3, <3>4
  <2> QED BY <2>2 DEF Aimed
<1>10. Looped(ir', loops', H2)
  BY <1>1, <1>2, <1>4, <1>6, LoopedGrows
<1>11. Labelled(ir', fns', labelMap', H2)
  <2>1. SameLabels(fns, fns)
    BY DEF SameLabels
  <2>2. Labelled(ir', fns, labelMap, H2)
    BY <1>1, <1>2, <1>6, <2>1, LabelledGrows
  <2>3. \A g \in Fn : \A l : /\ Mentions(fns', g, l) <=> Mentions(fns, g, l)
                             /\ Awaited(fns', g, l) <=> Awaited(fns, g, l)
    BY <1>4 DEF Mentions, Awaited
  <2>4. \A l : ~Mentions(fns', f, l)
    BY <1>4 DEF Function, Mentions
  <2>5. ASSUME NEW l \in Label, labelMap[l] = 0, NEW g \in 1 .. Len(fns') PROVE ~Mentions(fns', g, l)
    <3>1. g \in Fn \/ g = f
      BY <1>4
    <3>2. g \in Fn => ~Mentions(fns, g, l)
      BY <1>4, <2>2, <2>5 DEF Labelled
    <3> QED BY <2>3, <2>4, <3>1, <3>2
  <2>6. ASSUME NEW l \in Label, labelMap[l] # 0
        PROVE  \E g \in 1 .. Len(fns') : /\ For(ir', H2, labelMap[l], g) /\ Mentions(fns', g, l)
                                         /\ ir'.fn[labelMap[l]] = 0 => Awaited(fns', g, l)
    <3>1. PICK g \in Fn : /\ For(ir', H2, labelMap[l], g) /\ Mentions(fns, g, l)
                          /\ ir'.fn[labelMap[l]] = 0 => Awaited(fns, g, l)
      BY <1>4, <2>2, <2>6 DEF Labelled
    <3>2. g \in 1 .. Len(fns')
      BY <1>4
    <3> QED BY <2>3, <3>1, <3>2
  <2> QED BY <1>4, <2>5, <2>6 DEF Labelled
<1>12. Purposed(ir', ctl', fns', labelMap')
  <2>1. ASSUME NEW b \in Blk(ir'), ir'.fn[b] = 0, b \notin Blk(ir)
        PROVE  f \in Unfinished(fns') /\ b = fns'[f].ret
    <3>1. b = a + 1
      <4>1. ir'.fn[a + 2] = f /\ f # 0
        BY <1>2 DEF Grows
      <4> QED BY <1>5, <2>1, <4>1
    <3>2. fns'[f].ret = a + 1 /\ fns'[f].final = "open" /\ f \in 1 .. Len(fns')
      BY <1>4 DEF Function
    <3> QED BY <3>1, <3>2 DEF Unfinished
  <2>2. ASSUME NEW b \in Blk(ir), ir'.fn[b] = 0
        PROVE  \/ \E g \in Unfinished(fns') : b = fns'[g].ret
               \/ \E l \in Label : labelMap[l] = b
               \/ \E j \in 1 .. Len(ctl') : \E r \in DOMAIN ctl'[j].parts : b \in Ats(ctl'[j].parts[r].hops)
    <3>1. ir.fn[b] = 0
      BY <1>2, <1>5, <2>2 DEF Grows
    <3>2. \/ \E g \in Unfinished(fns) : b = fns[g].ret
          \/ \E l \in Label : labelMap[l] = b
          \/ \E i \in 1 .. Len(ctl) : \E q \in DOMAIN ctl[i].parts : b \in Ats(ctl[i].parts[q].hops)
      BY <1>1, <3>1 DEF Purposed
    <3>3. \A g \in Unfinished(fns) : g \in Unfinished(fns') /\ fns'[g].ret = fns[g].ret
      BY <1>4 DEF Unfinished
    <3>4. \A i \in 1 .. Len(ctl) : i \in 1 .. Len(ctl') /\ ctl'[i] = ctl[i]
      BY <1>3
    <3> QED BY <3>2, <3>3, <3>4
  <2> QED BY <1>4, <2>1, <2>2 DEF Purposed
<1>13. Kept(ir', ctl', fns', labelMap', loops', H2)
  BY <1>7, <1>8, <1>9, <1>10, <1>11, <1>12 DEF Kept
<1> QED BY <1>0, <1>13

(* what the fields of the functions are when one is finished *)
LEMMA LeaveFns ==
  ASSUME ~EmitMain, Typed, Context, LeaveFunction
  PROVE  /\ Len(fns') = Len(fns) /\ SameLabels(fns, fns')
         /\ \A g \in Fn : fns'[g].final = IF g = Top.fn THEN FinalReturn(Top.fn) ELSE fns[g].final
         /\ FinalReturn(Top.fn) \in {"void", "slot", "default"}
<1>0. fns' = Finished(Top.fn, FinalReturn(Top.fn))
  BY DEF LeaveFunction
<1>1. ctl # <<>> /\ Top.kind = "fn"
  BY DEF LeaveFunction
<1>2. PICK final : final = FinalReturn(Top.fn)
  OBVIOUS
<1>3. final \in {"void", "slot", "default"}
  BY <1>2 DEF FinalReturn, LeaveFunction
<1>4. final \in {"open", "void", "slot", "default", "rejected"} /\ fns' = Finished(Top.fn, final)
  BY <1>0, <1>2, <1>3
<1>5. Len(fns') = Len(fns)
  BY <1>1, <1>4, FinishedIs, ZenonT(60)
<1>6. \A g \in Fn : fns'[g].entry = fns[g].entry
  BY <1>1, <1>4, FinishedIs, ZenonT(60)
<1>7. \A g \in Fn : fns'[g].ret = fns[g].ret
  BY <1>1, <1>4, FinishedIs, ZenonT(60)
<1>8. \A g \in Fn : fns'[g].defs = fns[g].defs
  BY <1>1, <1>4, FinishedIs, ZenonT(60)
<1>9. \A g \in Fn : fns'[g].uses = fns[g].uses
  BY <1>1, <1>4, FinishedIs, ZenonT(60)
<1>10. \A g \in Fn : fns'[g].final = IF g = Top.fn THEN final ELSE fns[g].final
  BY <1>1, <1>4, FinishedIs, ZenonT(60)
<1>11. SameLabels(fns, fns')
  BY <1>5, <1>6, <1>7, <1>8, <1>9, Sizes DEF SameLabels
<1> QED BY <1>2, <1>3, <1>5, <1>10, <1>11

LEMMA LeaveKept ==
  ASSUME ~EmitMain, Typed, Context, LeaveFunction,
         NEW K, Core(ir, ip, ctl, fns, labelMap, K),
         NEW H, Kept(ir, ctl, fns, labelMap, loops, H)
  PROVE  Kept(ir', ctl', fns', labelMap', loops', H)
<1>1. /\ Saved(ir, ip, ctl) /\ Straight(ir, Live(ip, ctl)) /\ Returns(ir, fns, K)
      /\ Meant(ir, H) /\ Founded(ir, fns, H) /\ Aimed(ir, ctl, H) /\ Looped(ir, loops, H)
      /\ Labelled(ir, fns, labelMap, H) /\ Purposed(ir, ctl, fns, labelMap)
  BY DEF Core, Kept
<1>2. /\ ctl # <<>> /\ Top.kind = "fn" /\ Len(ctl) \in Nat \ {0} /\ Len(ctl') = Len(ctl) - 1
      /\ Len(ctl) \in 1 .. Len(ctl) /\ Top = ctl[Len(ctl)] /\ Top.fn \in Fn
      /\ Own(ctl, Len(ctl)) = Top.fn
      /\ \A i \in 1 .. Len(ctl') : ctl'[i] = ctl[i]
      /\ \A i \in 0 .. Len(ctl') : Own(ctl', i) = Own(ctl, i)
  BY LeaveStack
<1>3. phase = "walk" /\ labelMap' = labelMap /\ loops' = loops /\ Fn = 1 .. Len(fns)
      /\ Len(fns) \in Nat
  BY Sizes DEF LeaveFunction, Walking
<1>4. Len(fns') = Len(fns) /\ SameLabels(fns, fns')
  BY LeaveFns
<1>5. /\ \A g \in Fn : fns'[g].final = IF g = Top.fn THEN FinalReturn(Top.fn) ELSE fns[g].final
      /\ FinalReturn(Top.fn) \in {"void", "slot", "default"}
  BY LeaveFns
<1>6. /\ Top.fn \in Unfinished(fns) /\ Top.fn \notin Unfinished(fns')
      /\ \A g \in Fn : g # Top.fn => (g \in Unfinished(fns') <=> g \in Unfinished(fns))
  BY <1>2, <1>3, <1>4, <1>5 DEF Unfinished, Context, Opened
<1>7. PICK ret : ret = fns[Top.fn].ret
  OBVIOUS
<1>8. ret \in Blk(ir) /\ ir.fn[ret] = 0
  BY <1>1, <1>6, <1>7 DEF Returns, Held
<1>9. ip \in Blk(ir) /\ ir.fn[ip] = Top.fn /\ Top.fn # 0
  BY <1>1, <1>2, <1>3, LiveFacts DEF Context
<1>10. PICK T : T[ip] = {ret} /\ T[ret] = {}
  <2>1. ip # ret
    BY <1>8, <1>9
  <2>2. [b \in {ip, ret} |-> IF b = ip THEN {ret} ELSE {}][ip] = {ret}
    OBVIOUS
  <2>3. [b \in {ip, ret} |-> IF b = ip THEN {ret} ELSE {}][ret] = {}
    BY <2>1
  <2> QED BY <2>2, <2>3
<1>11. Grows(ir, ir', {ret}, Top.fn, {ip, ret}, T)
  BY <1>1, <1>7, <1>8, <1>10, LeaveGrows
<1>12. Len(ir'.fn) = Len(ir.fn)
  BY <1>1, <1>7, <1>8, <1>10, LeaveGrows
<1>13. Blk(ir') = Blk(ir) /\ Extends(ir, ir', H, H)
  <2>1. Blk(ir') = Blk(ir)
    BY <1>12 DEF Blk
  <2> QED BY <1>1, <2>1 DEF Extends, Meant
<1>14. For(ir, H, ret, Top.fn)
  BY <1>1, <1>2, <1>3, <1>7 DEF Founded
<1>15. ir'.fn[ip] = Top.fn /\ ir'.fn[ret] = Top.fn
  BY <1>8, <1>9, <1>11, <1>13 DEF Grows
<1>16. Meant(ir', H)
  <2>1. \A b \in {ret} : H[b] \in {0, Top.fn}
    BY <1>14 DEF For
  <2>2. \A b \in {ip, ret} : \A t \in T[b] : For(ir', H, t, ir'.fn[b])
    <3>1. For(ir', H, ret, Top.fn)
      BY <1>13, <1>14 DEF For
    <3> QED BY <1>10, <1>15, <3>1
  <2> QED BY <1>1, <1>11, <1>13, <2>1, <2>2, MeantGrows
<1>17. Founded(ir', fns', H)
  <2> SUFFICES ASSUME NEW g \in 1 .. Len(fns')
               PROVE  /\ InBody(ir', fns'[g].entry, g) /\ For(ir', H, fns'[g].entry, 0)
                      /\ For(ir', H, fns'[g].ret, g)
                      /\ g \notin Unfinished(fns') => InBody(ir', fns'[g].ret, g)
    BY DEF Founded
  <2>1. g \in Fn /\ fns'[g].entry = fns[g].entry /\ fns'[g].ret = fns[g].ret
    BY <1>3, <1>4 DEF SameLabels
  <2>2. /\ InBody(ir', fns[g].entry, g) /\ For(ir', H, fns[g].entry, 0) /\ For(ir', H, fns[g].ret, g)
        /\ g \notin Unfinished(fns) => InBody(ir', fns[g].ret, g)
    BY <1>1, <1>3, <1>11, <1>13, <2>1, FoundedGrows
  <2>3. InBody(ir', ret, Top.fn)
    BY <1>8, <1>13, <1>15 DEF InBody
  <2>4. g \notin Unfinished(fns') => InBody(ir', fns[g].ret, g)
    BY <1>6, <1>7, <2>1, <2>2, <2>3
  <2> QED BY <2>1, <2>2, <2>4
<1>18. Aimed(ir', ctl', H)
  <2>1. \A part, g : Intended(ir, H, part, g) => Intended(ir', H, part, g)
    BY <1>11, <1>13, IntendedGrows
  <2>2. ASSUME NEW i \in 1 .. Len(ctl'), ctl'[i].kind # "fn", NEW q \in DOMAIN ctl'[i].parts
        PROVE  Intended(ir', H, ctl'[i].parts[q], Own(ctl', i - 1))
    <3>1. i \in 1 .. Len(ctl) /\ i - 1 \in 0 .. Len(ctl')
      BY <1>2
    <3>2. ctl'[i] = ctl[i] /\ Own(ctl', i - 1) = Own(ctl, i - 1)
      BY <1>2, <3>1
    <3>3. Intended(ir, H, ctl[i].parts[q], Own(ctl, i - 1))
      BY <1>1, <2>2, <3>1, <3>2 DEF Aimed
    <3> QED BY <2>1, <3>2, <3>3
  <2> QED BY <2>2 DEF Aimed
<1>19. Looped(ir', loops', H)
  BY <1>1, <1>3, <1>11, <1>13, LoopedGrows
<1>20. Labelled(ir', fns', labelMap', H)
  BY <1>1, <1>3, <1>4, <1>11, <1>13, LabelledGrows
<1>21. Purposed(ir', ctl', fns', labelMap')
  <2>6. PICK A, X : A = {ret} /\ X = {ip, ret}
    OBVIOUS
  <2>1. \A g \in Unfinished(fns) :
          fns[g].ret \in A \/ (g \in Unfinished(fns') /\ fns'[g].ret = fns[g].ret)
    <3> TAKE g \in Unfinished(fns)
    <3>1. g \in Fn /\ fns'[g].ret = fns[g].ret
      BY <1>3, <1>4 DEF Unfinished, SameLabels
    <3> QED BY <1>6, <1>7, <2>6, <3>1
  <2>2. ASSUME NEW i \in 1 .. Len(ctl), NEW q \in DOMAIN ctl[i].parts, NEW b \in Ats(ctl[i].parts[q].hops)
        PROVE  \E j \in 1 .. Len(ctl') : \E r \in DOMAIN ctl'[j].parts : b \in Ats(ctl'[j].parts[r].hops)
    <3>1. ctl[Len(ctl)].parts = <<>> /\ DOMAIN <<>> = {}
      BY <1>2 DEF Context, Framed
    <3>2. i # Len(ctl)
      BY <2>2, <3>1
    <3>3. i \in 1 .. Len(ctl') /\ ctl'[i] = ctl[i]
      BY <1>2, <3>2
    <3> QED BY <2>2, <3>3
  <2>3. \A l \in Label : labelMap[l] \in {0, labelMap'[l]}
    BY <1>3
  <2>4. \A b \in Blk(ir') \ Blk(ir) : b \in A \/ \E l \in Label : labelMap'[l] = b
    BY <1>13
  <2>5. Carried(ctl, ctl', A)
    BY <2>2 DEF Carried
  <2>7. Purposed(ir, ctl, fns, labelMap) /\ Grows(ir, ir', A, Top.fn, X, T)
    BY <1>1, <1>11, <2>6
  <2> QED BY <2>1, <2>3, <2>4, <2>5, <2>6, <2>7, PurposedGrows
<1> QED BY <1>16, <1>17, <1>18, <1>19, <1>20, <1>21 DEF Kept

(***************************************************************************)
(* The hops of a part.                                                     *)
(***************************************************************************)
Hops(m, m2, hops, T) ==
  /\ Grows(m, m2, Ats(hops), currFn, Sources(hops), T) /\ Blk(m2) = Blk(m)
  /\ \A h \in DOMAIN hops : T[Source(hops, h)] = hops[h].to
  /\ \A b \in Sources(hops) : m2.fn[b] = currFn

LEMMA JumpSteps ==
  ASSUME ~EmitMain, Len(fns) \in Nat,
         NEW m, Ir(m, Len(fns)), NEW c, Len(c) \in Nat \ {0}, c # <<>>, Framed(c, fns),
         currFn = Own(c, Len(c)),
         NEW lm, NEW K, Core(m, ip, c, fns, lm, K),
         1 \in DOMAIN c[Len(c)].parts, NEW hops, hops = c[Len(c)].parts[1].hops,
         hops \in Seq(HopT(Len(m.fn))), hops # <<>>,
         NEW m2, m2 = Jump(m, hops)
  PROVE  \E T : Hops(m, m2, hops, T)
<1>1. Saved(m, ip, c) /\ Straight(m, Live(ip, c)) /\ Frames(m, c, K)
  BY DEF Core
<1>2. Len(c) \in 1 .. Len(c) /\ Len(m.fn) \in Nat
  BY IrFacts
<1>3. Fresh(m, hops) /\ \A b \in Ats(hops) : b \in Blk(m) /\ m.fn[b] = 0
  <2>1. Distinct(c[Len(c)]) /\ Reserved(m, K, c[Len(c)], Len(c))
    BY <1>1, <1>2 DEF Frames
  <2> QED BY <1>1, <2>1, ReservedFresh
<1>4. ip \in Blk(m) /\ m.fn[ip] = currFn /\ currFn \in 1 .. Len(fns) /\ m.out[ip] = <<>>
  BY <1>1, LiveFacts
<1>5. currFn # 0 /\ ip \notin Ats(hops) /\ currFn \in 0 .. Len(fns) /\ m.fn[ip] # 0
  BY <1>3, <1>4
<1>6. /\ \A h, j \in DOMAIN hops : Source(hops, h) = Source(hops, j) => h = j
      /\ Sources(hops) = {ip} \cup (Ats(hops) \ {Landing(hops)})
  BY <1>2, <1>3, <1>5, SourcesAre DEF Fresh
<1>7. PICK T : \A h \in DOMAIN hops : T[Source(hops, h)] = hops[h].to
  <2>1. \A h, j \in DOMAIN hops : Source(hops, h) = Source(hops, j) => h = j
    BY <1>6
  <2> QED BY ONLY <2>1, JumpTargets
<1>8. Grows(m, m2, Ats(hops), currFn, Sources(hops), T)
  BY <1>3, <1>4, <1>5, <1>7, JumpGrows
<1>9. Blk(m2) = Blk(m)
  BY <1>5, JumpIs
<1>10. \A b \in Sources(hops) : m2.fn[b] = currFn
  <2>1. ip \in Blk(m2) /\ m2.fn[ip] = currFn
    BY <1>4, <1>5, <1>8, <1>9 DEF Grows
  <2>2. \A b \in Ats(hops) : m2.fn[b] = currFn
    BY <1>8 DEF Grows
  <2> QED BY <1>6, <2>1, <2>2
<1> QED BY <1>7, <1>8, <1>9, <1>10 DEF Hops

LEMMA JumpKept ==
  ASSUME ~EmitMain, Len(fns) \in Nat,
         NEW m, Ir(m, Len(fns)), NEW c, Len(c) \in Nat \ {0}, c # <<>>, Framed(c, fns),
         currFn = Own(c, Len(c)), c[Len(c)].kind # "fn",
         NEW lm, NEW K, Core(m, ip, c, fns, lm, K),
         NEW lp, NEW H, Kept(m, c, fns, lm, lp, H),
         1 \in DOMAIN c[Len(c)].parts, NEW hops, hops = c[Len(c)].parts[1].hops,
         hops \in Seq(HopT(Len(m.fn))), hops # <<>>,
         NEW d, Shortened(c, d), Carried(c, d, Ats(hops)),
         NEW m2, m2 = Jump(m, hops), NEW lp2, Looped(m, lp2, H)
  PROVE  Kept(m2, d, fns, lm, lp2, H)
<1>1. /\ Meant(m, H) /\ Founded(m, fns, H) /\ Aimed(m, c, H) /\ Labelled(m, fns, lm, H)
      /\ Purposed(m, c, fns, lm) /\ Straight(m, Live(ip, c))
  BY DEF Core, Kept
<1>0. PICK T : Hops(m, m2, hops, T)
  BY JumpSteps
<1>2. /\ Grows(m, m2, Ats(hops), currFn, Sources(hops), T) /\ Blk(m2) = Blk(m)
      /\ \A h \in DOMAIN hops : T[Source(hops, h)] = hops[h].to
      /\ \A b \in Sources(hops) : m2.fn[b] = currFn
  BY <1>0 DEF Hops
<1>3. Extends(m, m2, H, H)
  BY <1>1, <1>2 DEF Extends, Meant
<1>4. Intended(m, H, c[Len(c)].parts[1], currFn)
  <2>1. Own(c, Len(c)) = Own(c, Len(c) - 1)
    BY OwnStep
  <2>2. Len(c) \in 1 .. Len(c)
    OBVIOUS
  <2> QED BY <1>1, <2>1, <2>2 DEF Aimed
<1>5. \A h \in DOMAIN hops : \A t \in hops[h].to \cup {hops[h].at} : For(m, H, t, currFn)
  BY <1>4 DEF Intended
<1>6. Meant(m2, H)
  <2>1. \A b \in Ats(hops) : H[b] \in {0, currFn}
    BY <1>5 DEF Ats, For
  <2>2. ASSUME NEW b \in Sources(hops), NEW t \in T[b] PROVE For(m2, H, t, m2.fn[b])
    <3>1. PICK h \in DOMAIN hops : b = Source(hops, h)
      BY DEF Sources
    <3>2. t \in hops[h].to
      BY <1>2, <2>2, <3>1
    <3>3. For(m, H, t, currFn)
      BY <1>5, <3>2
    <3> QED BY <1>2, <3>3 DEF For
  <2> QED BY <1>1, <1>2, <1>3, <2>1, <2>2, MeantGrows
<1>7. Founded(m2, fns, H)
  BY <1>1, <1>2, <1>3, FoundedSame
<1>8. Aimed(m2, d, H)
  <2>1. \A part, g : Intended(m, H, part, g) => Intended(m2, H, part, g)
    BY <1>2, <1>3, IntendedGrows
  <2>2. ASSUME NEW i \in 1 .. Len(d), d[i].kind # "fn", NEW q \in DOMAIN d[i].parts
        PROVE  Intended(m2, H, d[i].parts[q], Own(d, i - 1))
    <3>1. i \in 1 .. Len(c) /\ c[i].kind # "fn" /\ Own(d, i - 1) = Own(c, i - 1)
      BY <2>2 DEF Shortened
    <3>2. \E r \in DOMAIN c[i].parts : d[i].parts[q] = c[i].parts[r]
      <4>1. CASE i = Len(c)
        BY <4>1 DEF Shortened
      <4>2. CASE i # Len(c)
        <5>1. d[i].parts = c[i].parts
          BY <4>2 DEF Shortened
        <5> QED BY <5>1
      <4> QED BY <4>1, <4>2
    <3>3. Intended(m, H, d[i].parts[q], Own(c, i - 1))
      BY <1>1, <3>1, <3>2 DEF Aimed
    <3> QED BY <2>1, <3>1, <3>3
  <2> QED BY <2>2 DEF Aimed
<1>9. Looped(m2, lp2, H)
  BY <1>2, <1>3, LoopedGrows
<1>10. Labelled(m2, fns, lm, H)
  <2>1. SameLabels(fns, fns)
    BY DEF SameLabels
  <2> QED BY <1>1, <1>2, <1>3, <2>1, LabelledGrows
<1>11. Purposed(m2, d, fns, lm)
  BY <1>1, <1>2, PurposedGrows
<1> QED BY <1>6, <1>7, <1>8, <1>9, <1>10, <1>11 DEF Kept

(* what a part leaves behind *)
LEMMA TailHolds ==
  ASSUME NEW S, NEW s \in Seq(S), s # <<>>, NEW q \in DOMAIN s, q # 1
  PROVE  \E r \in DOMAIN Tail(s) : Tail(s)[r] = s[q]
<1>1. /\ Tail(s) \in Seq(S) /\ Len(Tail(s)) = Len(s) - 1
      /\ \A i \in 1 .. Len(Tail(s)) : Tail(s)[i] = s[i + 1]
  BY HeadTailProperties
<1>2. Len(s) \in Nat /\ DOMAIN s = 1 .. Len(s) /\ DOMAIN Tail(s) = 1 .. Len(Tail(s))
  BY <1>1, LenProperties
<1>3. q - 1 \in 1 .. Len(Tail(s)) /\ (q - 1) + 1 = q
  BY <1>1, <1>2
<1> QED BY <1>1, <1>2, <1>3

LEMMA CarriedOn ==
  ASSUME NEW c, NEW d, Len(c) \in Nat \ {0}, Len(d) \in {Len(c), Len(c) - 1},
         \A i \in 1 .. Len(c) - 1 : d[i] = c[i],
         NEW hops, hops = c[Len(c)].parts[1].hops,
         \A q \in DOMAIN c[Len(c)].parts :
           q = 1 \/ (Len(d) = Len(c) /\ \E r \in DOMAIN d[Len(c)].parts : d[Len(c)].parts[r] = c[Len(c)].parts[q])
  PROVE  Carried(c, d, Ats(hops))
<1> SUFFICES ASSUME NEW i \in 1 .. Len(c), NEW q \in DOMAIN c[i].parts, NEW b \in Ats(c[i].parts[q].hops)
             PROVE  \/ b \in Ats(hops)
                    \/ \E j \in 1 .. Len(d) : \E r \in DOMAIN d[j].parts : b \in Ats(d[j].parts[r].hops)
  BY DEF Carried
<1>1. CASE i # Len(c)
  <2>1. i \in 1 .. Len(c) - 1 /\ i \in 1 .. Len(d)
    BY <1>1
  <2> QED BY <2>1
<1>2. CASE i = Len(c) /\ q = 1
  BY <1>2
<1>3. CASE i = Len(c) /\ q # 1
  <2>1. Len(d) = Len(c) /\ \E r \in DOMAIN d[i].parts : d[i].parts[r] = c[i].parts[q]
    BY <1>3
  <2> QED BY <2>1
<1> QED BY <1>1, <1>2, <1>3

LEMMA PartEndCarries ==
  ASSUME ~EmitMain, Typed, Context, EndPart \/ EndConstruct
  PROVE  Carried(ctl, ctl', Ats(NextPart.hops))
<1>1. /\ Pending /\ ip' = Landing(NextPart.hops) /\ UNCHANGED <<currFn, fnStack, fns, phase>>
  BY DEF EndPart, EndConstruct, UnchangedFn
<1>2. /\ ctl # <<>> /\ Top.parts # <<>> /\ Top.kind # "fn" /\ Top = ctl[Len(ctl)]
      /\ Len(ctl) \in Nat \ {0} /\ Len(ctl) \in 1 .. Len(ctl) /\ Len(ir.fn) \in Nat
  <2>1. ctl # <<>> /\ Top.parts # <<>> /\ Top.kind # "fn"
    BY <1>1, PartsLeft
  <2> QED BY <2>1, Sizes DEF Top
<1>3. /\ NextPart.hops # <<>> /\ NextPart.hops \in Seq(HopT(Len(ir.fn)))
      /\ (NextPart.in = "after" <=> Len(Top.parts) = 1)
  BY <1>1, PartsLeft
<1>4. ip' # 0
  <2>1. Landing(NextPart.hops) \in 1 .. Len(ir.fn)
    BY <1>2, <1>3, LandingIs
  <2> QED BY <1>1, <2>1
<1>5. NextPart = Top.parts[1]
  BY <1>2, NextIs
<1>6. PICK S : S = PartT(Len(ir.fn))
  OBVIOUS
<1>7. Top.parts \in Seq(S)
  BY <1>2, <1>6, Sizes DEF FrameT
<1>8. CASE EndPart
  <2> DEFINE fr == [Top EXCEPT !.in = NextPart.in, !.parts = Tail(@)]
  <2>1. NextPart.in # "after" /\ ctl' = Append(Outer, fr)
    BY <1>8 DEF EndPart
  <2>2. /\ fr \in FrameT(Len(ir.fn), Len(fns)) /\ Shaped(fr) /\ fr.parts = Tail(Top.parts)
        /\ fr.kind = Top.kind /\ fr.from = Top.from
    BY <1>1, <2>1, PartsLeft
  <2> HIDE DEF fr
  <2>3. /\ Len(ctl') = Len(ctl) /\ ctl'[Len(ctl)] = fr
        /\ \A i \in 1 .. Len(ctl) - 1 : ctl'[i] = ctl[i]
    BY <1>1, <1>2, <1>4, <2>1, <2>2, ReplacedContext
  <2>4. \A q \in DOMAIN Top.parts : q = 1 \/ \E r \in DOMAIN Tail(Top.parts) : Tail(Top.parts)[r] = Top.parts[q]
    BY <1>2, <1>7, TailHolds
  <2>5. ctl'[Len(ctl)].parts = Tail(Top.parts) /\ ctl[Len(ctl)].parts = Top.parts
    BY <1>2, <2>2, <2>3
  <2>6. \A q \in DOMAIN ctl[Len(ctl)].parts :
          q = 1 \/ (Len(ctl') = Len(ctl) /\ \E r \in DOMAIN ctl'[Len(ctl)].parts :
                                              ctl'[Len(ctl)].parts[r] = ctl[Len(ctl)].parts[q])
    BY <2>3, <2>4, <2>5
  <2>7. NextPart.hops = ctl[Len(ctl)].parts[1].hops
    BY <1>5, <2>5
  <2> QED BY <1>2, <2>3, <2>6, <2>7, CarriedOn
<1>9. CASE EndConstruct
  <2>1. ctl' = Outer /\ NextPart.in = "after"
    BY <1>9 DEF EndConstruct
  <2>2. Len(ctl') = Len(ctl) - 1
    BY <1>1, <1>2, <1>4, <2>1, PoppedContext
  <2>3. \A i \in 1 .. Len(ctl) - 1 : ctl'[i] = ctl[i]
    BY <1>1, <1>2, <1>4, <2>1, PoppedContext
  <2>4. \A q \in DOMAIN Top.parts : q = 1
    BY <1>3, <1>7, <2>1, LenProperties
  <2> QED BY <1>2, <1>5, <2>2, <2>3, <2>4, CarriedOn
<1> QED BY <1>8, <1>9

LEMMA LoopedMore ==
  ASSUME NEW S, NEW lp \in Seq(S), NEW more \in Seq(S), NEW m, NEW H, Looped(m, lp, H),
         NEW f, f # 0, \A j \in DOMAIN more : For(m, H, more[j].cond, f) /\ For(m, H, more[j].out, f)
  PROVE  Looped(m, lp \o more, H)
<1> DEFINE r == lp \o more
<1>1. /\ Len(lp) \in Nat /\ Len(more) \in Nat /\ Len(r) = Len(lp) + Len(more)
      /\ DOMAIN more = 1 .. Len(more)
      /\ \A j \in 1 .. Len(r) : r[j] = IF j <= Len(lp) THEN lp[j] ELSE more[j - Len(lp)]
  BY ConcatProperties, LenProperties
<1> HIDE DEF r
<1>2. ASSUME NEW j \in 1 .. Len(r)
      PROVE  /\ r[j].cond \in Blk(m) /\ r[j].out \in Blk(m)
             /\ H[r[j].cond] # 0 /\ H[r[j].out] = H[r[j].cond]
  <2>1. CASE j <= Len(lp)
    <3>1. j \in 1 .. Len(lp) /\ r[j] = lp[j]
      BY <1>1, <2>1
    <3> QED BY <3>1 DEF Looped
  <2>2. CASE ~(j <= Len(lp))
    <3>1. j - Len(lp) \in DOMAIN more /\ r[j] = more[j - Len(lp)]
      BY <1>1, <2>2
    <3> QED BY <3>1 DEF For
  <2> QED BY <2>1, <2>2
<1> QED BY <1>2 DEF Looped, r

LEMMA LoopedLess ==
  ASSUME NEW S, NEW lp \in Seq(S), NEW m, NEW H, Looped(m, lp, H)
  PROVE  Looped(m, SubSeq(lp, 1, Len(lp) - 1), H)
<1>1. Len(lp) \in Nat /\ \A i \in 1 .. Len(lp) - 1 : lp[i] \in S
  BY ElementOfSeq, LenProperties
<1> DEFINE r == SubSeq(lp, 1, Len(lp) - 1)
<1>2. /\ Len(r) = IF 1 <= Len(lp) - 1 THEN (Len(lp) - 1) - 1 + 1 ELSE 0
      /\ \A i \in 1 .. (Len(lp) - 1) - 1 + 1 : r[i] = lp[1 + i - 1]
  <2>1. 1 \in Int /\ Len(lp) - 1 \in Int
    BY <1>1
  <2> QED BY <1>1, <2>1, SubSeqProperties
<1> HIDE DEF r
<1>3. \A j \in 1 .. Len(r) : j \in 1 .. Len(lp) /\ r[j] = lp[j]
  BY <1>1, <1>2
<1> QED BY <1>3 DEF Looped, r

LEMMA PartEndsKept ==
  ASSUME ~EmitMain, Typed, Context, EndPart \/ EndConstruct,
         NEW K, Core(ir, ip, ctl, fns, labelMap, K),
         NEW H, Kept(ir, ctl, fns, labelMap, loops, H)
  PROVE  Kept(ir', ctl', fns', labelMap', loops', H)
<1> DEFINE hops == NextPart.hops
<1>1. /\ Len(ctl) \in Nat \ {0} /\ ctl # <<>> /\ ctl[Len(ctl)].kind # "fn"
      /\ 1 \in DOMAIN ctl[Len(ctl)].parts /\ hops = ctl[Len(ctl)].parts[1].hops
      /\ hops \in Seq(HopT(Len(ir.fn))) /\ hops # <<>>
      /\ ir' = Jump(ir, hops) /\ UNCHANGED <<labelMap, fns>> /\ Shortened(ctl, ctl')
  BY PartEnds
<1>2. Carried(ctl, ctl', Ats(hops))
  BY PartEndCarries
<1>3. /\ Ir(ir, Len(fns)) /\ Framed(ctl, fns) /\ currFn = Own(ctl, Len(ctl)) /\ Len(fns) \in Nat
  BY Sizes DEF Typed, BlocksTyped, Context, Stacked
<1>4. Pending
  BY DEF EndPart, EndConstruct
<1>5. PICK S : S = LoopT(Len(ir.fn))
  OBVIOUS
<1>6. loops \in Seq(S) /\ NextPart.loop \in Seq(S) /\ Looped(ir, loops, H)
  BY <1>4, <1>5, PartsLeft DEF PartT, Typed, TablesTyped, Kept
<1>7. Looped(ir, loops', H)
  <2>1. CASE EndPart
    <3>1. loops' = loops \o NextPart.loop
      BY <2>1 DEF EndPart
    <3>2. NextPart = ctl[Len(ctl)].parts[1] /\ Len(ctl) \in 1 .. Len(ctl)
      <4>1. Top.parts # <<>>
        BY <1>4, PartsLeft
      <4> QED BY <1>1, <4>1, NextIs DEF Top
    <3>3. Own(ctl, Len(ctl)) = Own(ctl, Len(ctl) - 1)
      BY <1>1, OwnStep
    <3>4. Intended(ir, H, NextPart, currFn)
      BY <1>1, <1>3, <3>2, <3>3 DEF Kept, Aimed
    <3>5. currFn # 0
      <4>1. Own(ctl, Len(ctl)) \in 1 .. Len(fns)
        BY <1>1, <1>3, <3>2, OwnIs
      <4> QED BY <1>3, <4>1
    <3>6. \A j \in DOMAIN NextPart.loop :
            For(ir, H, NextPart.loop[j].cond, currFn) /\ For(ir, H, NextPart.loop[j].out, currFn)
      BY <3>4 DEF Intended
    <3> QED BY <1>6, <3>1, <3>5, <3>6, LoopedMore
  <2>2. CASE EndConstruct
    <3>1. loops' = SubSeq(loops, 1, Len(loops) - 1) \/ loops' = loops
      BY <2>2 DEF EndConstruct
    <3> QED BY <1>6, <3>1, LoopedLess
  <2> QED BY <2>1, <2>2
<1> HIDE DEF hops
<1>8. Kept(ir', ctl', fns, labelMap, loops', H)
  BY <1>1, <1>2, <1>3, <1>7, JumpKept
<1> QED BY <1>1, <1>8

(***************************************************************************)
(* A construct begins.                                                     *)
(***************************************************************************)
LEMMA BegunCarries ==
  ASSUME ~EmitMain, Typed, Context, NEW kind, NEW n, NEW parts, NEW from, Begins(kind, n, parts, from),
         NEW c, WholeFrame(c, kind, parts, from)
  PROVE  Carried(c, ctl', Ats(parts[1].hops))
<1> DEFINE a == Len(ir.fn)
           full == Frame(kind, "stmts", parts, from)
           fr == Frame(kind, parts[1].in, Tail(parts), from)
           S == FrameT(a + n, Len(fns))
<1>1. n \in Nat /\ a \in Nat /\ Plan(parts, a, n) /\ kind \in Kinds /\ Len(fns) \in Nat
      /\ ctl' = Append(ctl, fr) /\ Len(ctl) \in Nat
  BY Sizes DEF Begins, Begin
<1>2. from \in 0 .. a + n
  BY <1>1 DEF Begins, Typed, BlocksTyped
<1>3. /\ parts[1].in \in {"stmts", "expr"} /\ Tail(parts) \in Seq(PartT(a + n))
      /\ parts \in Seq(PartT(a + n)) /\ parts # <<>>
  <2>1. parts[1].in \in {"stmts", "expr"} /\ Tail(parts) \in Seq(PartT(a + n)) /\ Len(parts) >= 2
    BY <1>1, PlanIs
  <2>2. parts \in Seq(PartT(a + n))
    BY <1>1 DEF Plan
  <2> QED BY <2>1, <2>2, EmptySeq
<1>4. fr \in S /\ full \in S /\ fr.parts = Tail(parts) /\ full.parts = parts
  BY <1>1, <1>2, <1>3 DEF Frame, FrameT, Kinds
<1>5. ctl \in Seq(S)
  BY <1>1, StillTyped, SMTT(30)
<1>6. c = Append(ctl, full)
  BY DEF WholeFrame
<1> HIDE DEF full, fr, S
<1>7. /\ Len(c) = Len(ctl) + 1 /\ c[Len(c)] = full /\ \A i \in 1 .. Len(ctl) : c[i] = ctl[i]
  BY <1>4, <1>5, <1>6, Pushed
<1>8. /\ Len(ctl') = Len(ctl) + 1 /\ ctl'[Len(ctl')] = fr /\ \A i \in 1 .. Len(ctl) : ctl'[i] = ctl[i]
  BY <1>1, <1>4, <1>5, Pushed
<1>9. PICK P : P = PartT(a + n)
  OBVIOUS
<1>10. \A q \in DOMAIN parts : q = 1 \/ \E r \in DOMAIN Tail(parts) : Tail(parts)[r] = parts[q]
  <2>1. parts \in Seq(P) /\ parts # <<>>
    BY <1>3, <1>9
  <2> QED BY <2>1, TailHolds
<1>11. /\ Len(c) \in Nat \ {0} /\ Len(ctl') = Len(c) /\ \A i \in 1 .. Len(c) - 1 : ctl'[i] = c[i]
       /\ c[Len(c)].parts = parts /\ ctl'[Len(c)].parts = Tail(parts)
  BY <1>1, <1>4, <1>7, <1>8
<1>12. \A q \in DOMAIN c[Len(c)].parts :
         q = 1 \/ (Len(ctl') = Len(c) /\ \E r \in DOMAIN ctl'[Len(c)].parts :
                                             ctl'[Len(c)].parts[r] = c[Len(c)].parts[q])
  BY <1>10, <1>11
<1>13. parts[1].hops = c[Len(c)].parts[1].hops
  BY <1>11
<1> QED BY <1>11, <1>12, <1>13, CarriedOn

LEMMA PlanKept ==
  ASSUME ~EmitMain, Typed, Context, NEW kind, NEW n, NEW parts, NEW from, Begins(kind, n, parts, from),
         NEW H, Kept(ir, ctl, fns, labelMap, loops, H),
         NEW c, WholeFrame(c, kind, parts, from), NEW m, m = NewBlocks(n),
         NEW live, Straight(ir, live),
         NEW H2, H2 = [b \in Blk(m) |-> IF b \in Blk(ir) THEN H[b] ELSE currFn]
  PROVE  Kept(m, c, fns, labelMap, loops, H2) /\ Looped(m, loops \o parts[1].loop, H2)
<1>1. /\ Meant(ir, H) /\ Founded(ir, fns, H) /\ Aimed(ir, ctl, H) /\ Looped(ir, loops, H)
      /\ Labelled(ir, fns, labelMap, H) /\ Purposed(ir, ctl, fns, labelMap)
  BY DEF Kept
<1>2. Len(ctl) \in Nat \ {0} /\ Len(c) = Len(ctl) + 1
  BY BegunStack
<1>3. c[Len(c)].parts = parts
  BY BegunStack
<1>4. \A i \in 1 .. Len(ctl) : c[i] = ctl[i]
  BY BegunStack
<1>5. \A i \in 0 .. Len(ctl) : Own(c, i) = Own(ctl, i)
  BY BegunStack
<1>6. /\ n \in Nat /\ Len(ir.fn) \in Nat /\ Len(fns) \in Nat /\ Plan(parts, Len(ir.fn), n)
      /\ Ir(ir, Len(fns)) /\ Framed(ctl, fns)
      /\ currFn \in Nat /\ currFn = Own(ctl, Len(ctl))
  BY Sizes DEF Begins, Typed, BlocksTyped, FnsTyped, Context, Stacked
<1>7. currFn # 0
  <2>1. Len(ctl) \in 1 .. Len(ctl) /\ ctl # <<>>
    BY <1>2, EmptySeq
  <2>2. Own(ctl, Len(ctl)) \in 1 .. Len(fns)
    BY <1>2, <1>6, <2>1, OwnIs
  <2> QED BY <1>6, <2>2
<1>8. PICK X, T : X = {} /\ T = <<>>
  OBVIOUS
<1>9. Grows(ir, m, X, 1, X, T) /\ Len(m.fn) = Len(ir.fn) + n
  BY <1>6, <1>8, NewBlocksIs, NewBlocksGrows
<1>10. Extends(ir, m, H, H2) /\ Blk(ir) \subseteq Blk(m)
  <2>1. Blk(ir) \subseteq Blk(m) /\ H \in [Blk(ir) -> Nat]
    BY <1>1, <1>9 DEF Grows, Meant
  <2> QED BY <1>6, <2>1 DEF Extends
<1>11. \A b \in Len(ir.fn) + 1 .. Len(ir.fn) + n : For(m, H2, b, currFn)
  BY <1>6, <1>9 DEF Blk, For
<1>12. ASSUME NEW q \in DOMAIN parts PROVE Intended(m, H2, parts[q], currFn)
  <2>1. Within(parts[q], Len(ir.fn), n)
    BY <1>6 DEF Plan
  <2> QED BY <1>11, <2>1 DEF Within, Intended
<1>13. Meant(m, H2)
  BY <1>1, <1>8, <1>9, <1>10, MeantGrows
<1>14. Founded(m, fns, H2)
  BY <1>1, <1>6, <1>9, <1>10, FoundedSame
<1>15. Aimed(m, c, H2)
  <2>1. \A part, g : Intended(ir, H, part, g) => Intended(m, H2, part, g)
    BY <1>9, <1>10, IntendedGrows
  <2>2. ASSUME NEW i \in 1 .. Len(c), c[i].kind # "fn", NEW q \in DOMAIN c[i].parts
        PROVE  Intended(m, H2, c[i].parts[q], Own(c, i - 1))
    <3>1. i - 1 \in 0 .. Len(ctl) /\ Own(c, i - 1) = Own(ctl, i - 1)
      <4>1. i - 1 \in 0 .. Len(ctl)
        BY <1>2
      <4> QED BY <1>5, <4>1
    <3>2. CASE i = Len(c)
      <4>1. i - 1 = Len(ctl)
        BY <1>2, <3>2
      <4> QED BY <1>3, <1>6, <1>12, <2>2, <3>1, <3>2, <4>1
    <3>3. CASE i # Len(c)
      <4>1. i \in 1 .. Len(ctl) /\ c[i] = ctl[i]
        BY <1>2, <1>4, <3>3
      <4>2. Intended(ir, H, ctl[i].parts[q], Own(ctl, i - 1))
        BY <1>1, <2>2, <4>1 DEF Aimed
      <4> QED BY <2>1, <3>1, <4>1, <4>2
    <3> QED BY <3>2, <3>3
  <2> QED BY <2>2 DEF Aimed
<1>16. Looped(m, loops, H2)
  BY <1>1, <1>9, <1>10, LoopedGrows
<1>17. Labelled(m, fns, labelMap, H2)
  <2>1. SameLabels(fns, fns)
    BY DEF SameLabels
  <2> QED BY <1>1, <1>9, <1>10, <2>1, LabelledGrows
<1>18. Purposed(m, c, fns, labelMap)
  <2>1. ASSUME NEW b \in Blk(m), b \notin Blk(ir)
        PROVE  \E i \in 1 .. Len(c) : \E q \in DOMAIN c[i].parts : b \in Ats(c[i].parts[q].hops)
    <3>1. b \in Len(ir.fn) + 1 .. Len(ir.fn) + n
      BY <1>6, <1>9, <2>1 DEF Blk
    <3>2. PICK q \in DOMAIN parts : \E h \in DOMAIN parts[q].hops : b = parts[q].hops[h].at
      BY <1>6, <3>1 DEF Plan, Covers
    <3>3. b \in Ats(parts[q].hops) /\ Len(c) \in 1 .. Len(c)
      BY <1>2, <3>2 DEF Ats
    <3> QED BY <1>3, <3>3
  <2>2. ASSUME NEW b \in Blk(ir), m.fn[b] = 0
        PROVE  \/ \E g \in Unfinished(fns) : b = fns[g].ret
               \/ \E l \in Label : labelMap[l] = b
               \/ \E i \in 1 .. Len(c) : \E q \in DOMAIN c[i].parts : b \in Ats(c[i].parts[q].hops)
    <3>1. ir.fn[b] = 0
      BY <1>8, <1>9, <1>10, <2>2 DEF Grows
    <3>2. \/ \E g \in Unfinished(fns) : b = fns[g].ret
          \/ \E l \in Label : labelMap[l] = b
          \/ \E i \in 1 .. Len(ctl) : \E q \in DOMAIN ctl[i].parts : b \in Ats(ctl[i].parts[q].hops)
      BY <1>1, <3>1 DEF Purposed
    <3>3. \A i \in 1 .. Len(ctl) : i \in 1 .. Len(c) /\ c[i] = ctl[i]
      BY <1>2, <1>4
    <3> QED BY <3>2, <3>3
  <2> QED BY <2>1, <2>2 DEF Purposed
<1>19. Looped(m, loops \o parts[1].loop, H2)
  <2>1. PICK S : S = LoopT(Len(m.fn))
    OBVIOUS
  <2>2. 1 \in DOMAIN parts /\ parts[1] \in PartT(Len(m.fn))
    <3>1. 1 \in DOMAIN parts /\ parts[1] \in PartT(Len(ir.fn) + n)
      BY <1>6, PlanIs
    <3> QED BY <1>9, <3>1
  <2>3. loops \in Seq(LoopT(Len(ir.fn) + n))
    BY <1>6, StillTyped
  <2>4. loops \in Seq(S) /\ parts[1].loop \in Seq(S)
    BY <1>9, <2>1, <2>2, <2>3 DEF PartT
  <2>5. Intended(m, H2, parts[1], currFn)
    BY <1>12, <2>2
  <2>6. \A j \in DOMAIN parts[1].loop :
          For(m, H2, parts[1].loop[j].cond, currFn) /\ For(m, H2, parts[1].loop[j].out, currFn)
    BY <2>5 DEF Intended
  <2> QED BY <1>7, <1>16, <2>4, <2>6, LoopedMore
<1> QED BY <1>13, <1>14, <1>15, <1>16, <1>17, <1>18, <1>19 DEF Kept

LEMMA BeginsKept ==
  ASSUME ~EmitMain, Typed, Context, NEW kind, NEW n, NEW parts, NEW from, Begins(kind, n, parts, from),
         NEW K, Core(ir, ip, ctl, fns, labelMap, K),
         NEW H, Kept(ir, ctl, fns, labelMap, loops, H)
  PROVE  Kept(ir', ctl', fns', labelMap', loops', IntendedFor(H))
<1> DEFINE a == Len(ir.fn)
           c == Append(ctl, Frame(kind, "stmts", parts, from))
           m == NewBlocks(n)
           H2 == IntendedFor(H)
           hops == parts[1].hops
<1>1. /\ n \in Nat /\ a \in Nat /\ Plan(parts, a, n) /\ Len(fns) \in Nat
      /\ ir' = Jump(m, hops) /\ loops' = loops \o parts[1].loop /\ UNCHANGED <<labelMap, fns>>
      /\ Ir(ir, Len(fns)) /\ currFn \in 0 .. Len(fns) /\ currFn = Own(ctl, Len(ctl))
  BY Sizes DEF Begins, Begin, UnchangedFn, Typed, BlocksTyped, FnsTyped, Context, Stacked
<1>2. Ir(m, Len(fns)) /\ Len(m.fn) = a + n
  BY <1>1, NewBlocksIs
<1>3. 1 \in DOMAIN parts /\ parts[1] \in PartT(a + n) /\ hops # <<>>
  BY <1>1, PlanIs
<1>4. hops \in Seq(HopT(Len(m.fn)))
  BY <1>2, <1>3 DEF PartT
<1>5. WholeFrame(c, kind, parts, from) /\ m = NewBlocks(n)
  BY DEF WholeFrame
<1>6. H2 = [b \in Blk(ir') |-> IF b \in Blk(ir) THEN H[b] ELSE currFn]
  BY DEF IntendedFor
<1>7. PICK lp2 : lp2 = loops \o parts[1].loop
  OBVIOUS
<1> HIDE DEF c, m, H2, hops
<1>8. /\ Len(ctl) \in Nat \ {0} /\ Len(c) = Len(ctl) + 1 /\ c # <<>>
      /\ c[Len(c)].kind # "fn" /\ c[Len(c)].parts = parts
      /\ Own(c, Len(c)) = Own(ctl, Len(ctl)) /\ Framed(c, fns) /\ Shortened(c, ctl')
  <2>1. Len(ctl) \in Nat \ {0} /\ Len(c) = Len(ctl) + 1 /\ c # <<>>
    BY <1>5, BegunStack
  <2>2. c[Len(c)].kind # "fn" /\ c[Len(c)].parts = parts /\ Own(c, Len(c)) = Own(ctl, Len(ctl)) /\ Framed(c, fns)
    BY <1>5, BegunStack
  <2>3. Shortened(c, ctl')
    BY <1>5, BegunStack
  <2> QED BY <2>1, <2>2, <2>3
<1>9. Blk(ir') = Blk(m)
  BY <1>1, <1>2, <1>4, JumpIs
<1>10. H2 = [b \in Blk(m) |-> IF b \in Blk(ir) THEN H[b] ELSE currFn]
  BY <1>6, <1>9
<1>11. PICK K2 : K2 = [b \in Blk(m) |-> IF b \in Blk(ir) THEN K[b] ELSE ForFrame(Len(c))]
  OBVIOUS
<1>12. Core(m, ip, c, fns, labelMap, K2)
  BY <1>5, <1>11, PlanCore
<1>13. PICK live : Straight(ir, live)
  BY DEF Core
<1>14. Kept(m, c, fns, labelMap, loops, H2)
  BY <1>5, <1>10, <1>13, PlanKept
<1>15. Looped(m, lp2, H2)
  BY <1>5, <1>7, <1>10, <1>13, PlanKept
<1>16. Carried(c, ctl', Ats(hops))
  BY <1>5, BegunCarries DEF hops
<1>17. Kept(ir', ctl', fns, labelMap, lp2, H2)
  <2>1. Len(c) \in Nat \ {0} /\ c # <<>> /\ currFn = Own(c, Len(c)) /\ c[Len(c)].kind # "fn"
        /\ 1 \in DOMAIN c[Len(c)].parts /\ hops = c[Len(c)].parts[1].hops
    BY <1>1, <1>3, <1>8 DEF hops
  <2> QED BY <1>1, <1>2, <1>3, <1>4, <1>8, <1>12, <1>14, <1>15, <1>16, <2>1, JumpKept
<1> QED BY <1>1, <1>7, <1>17 DEF H2

(***************************************************************************)
(* Every step keeps Kept.                                                  *)
(***************************************************************************)
LEMMA RestFns ==
  ASSUME ~EmitMain, Typed, Context, RejectFunction \/ EndUnit \/ UNCHANGED vars
  PROVE  SameLabels(fns, fns') /\ Unfinished(fns') = Unfinished(fns)
<1>1. CASE RejectFunction
  <2>1. phase = "walk" /\ ctl # <<>> /\ Top.kind = "fn" /\ Top = ctl[Len(ctl)] /\ Len(ctl) \in 1 .. Len(ctl)
        /\ fns' = [fns EXCEPT ![Top.fn].final = "rejected"]
    BY <1>1, Sizes DEF RejectFunction, Top
  <2>2. Top.fn \in Fn
    BY <2>1, OthersAround
  <2>3. fns[Top.fn].final = "open"
    BY <2>1 DEF Context, Opened
  <2>4. /\ Len(fns') = Len(fns)
        /\ \A h \in Fn : fns'[h] = IF h = Top.fn THEN [fns[Top.fn] EXCEPT !.final = "rejected"] ELSE fns[h]
    BY <2>1, <2>2, FinalUpdate
  <2>5. ASSUME NEW h \in Fn
        PROVE  /\ fns'[h].entry = fns[h].entry /\ fns'[h].ret = fns[h].ret
               /\ fns'[h].defs = fns[h].defs /\ fns'[h].uses = fns[h].uses
               /\ fns'[h].final = IF h = Top.fn THEN "rejected" ELSE fns[h].final
    <3>1. fns[h] \in FnT(Len(ir.fn))
      BY Sizes
    <3> QED BY <2>4, <3>1 DEF FnT
  <2>6. Fn = 1 .. Len(fns)
    BY Sizes
  <2> QED BY <2>2, <2>3, <2>4, <2>5, <2>6 DEF Unfinished, SameLabels
<1>2. CASE EndUnit \/ UNCHANGED vars
  <2>1. fns' = fns
    BY <1>2 DEF EndUnit, vars
  <2> QED BY <2>1 DEF SameLabels
<1> QED BY <1>1, <1>2

LEMMA RestKept ==
  ASSUME ~EmitMain, Typed, Context, RejectFunction \/ EndUnit \/ UNCHANGED vars,
         NEW H, Kept(ir, ctl, fns, labelMap, loops, H)
  PROVE  Kept(ir', ctl', fns', labelMap', loops', H)
<1>1. ir' = ir /\ ctl' = ctl /\ labelMap' = labelMap /\ loops' = loops
  BY DEF RejectFunction, EndUnit, vars
<1>2. SameLabels(fns, fns') /\ Unfinished(fns') = Unfinished(fns)
  BY RestFns
<1>3. Founded(ir, fns', H)
  BY <1>2 DEF Kept, Founded, SameLabels
<1>4. Labelled(ir, fns', labelMap, H)
  BY <1>2 DEF Kept, Labelled, SameLabels, Mentions, Awaited
<1>5. Purposed(ir, ctl, fns', labelMap)
  <2>1. \A f \in Unfinished(fns) : fns'[f].ret = fns[f].ret
    BY <1>2 DEF Unfinished, SameLabels
  <2> QED BY <1>2, <2>1 DEF Kept, Purposed
<1>6. Meant(ir, H) /\ Aimed(ir, ctl, H) /\ Looped(ir, loops, H)
  BY DEF Kept
<1>7. Kept(ir, ctl, fns', labelMap, loops, H)
  BY <1>3, <1>4, <1>5, <1>6 DEF Kept
<1> QED BY <1>1, <1>7

(* the blocks have their purposes, and their functions *)
Belonging ==
  /\ \E K : Core(ir, ip, ctl, fns, labelMap, K)
  /\ \E H : Kept(ir, ctl, fns, labelMap, loops, H)

LEMMA KeptInit == ASSUME ~EmitMain, Init PROVE \E H : Kept(ir, ctl, fns, labelMap, loops, H)
<1>1. ir = [fn |-> <<>>, out |-> <<>>] /\ fns = <<>> /\ ctl = <<>> /\ labelMap = [l \in Label |-> 0]
      /\ loops = <<>>
  BY DEF Init
<1>2. Len(ir.fn) = 0 /\ Len(fns) = 0 /\ Len(ctl) = 0 /\ Len(loops) = 0
  BY <1>1, EmptySeq
<1>3. Blk(ir) = {} /\ 1 .. Len(fns) = {} /\ 1 .. Len(ctl) = {} /\ 1 .. Len(loops) = {}
  BY <1>2 DEF Blk
<1>4. PICK H : H = [b \in Blk(ir) |-> 0]
  OBVIOUS
<1>5. H \in [Blk(ir) -> Nat]
  BY <1>4
<1>6. Meant(ir, H) /\ Founded(ir, fns, H) /\ Aimed(ir, ctl, H) /\ Looped(ir, loops, H)
      /\ Purposed(ir, ctl, fns, labelMap)
  BY <1>3, <1>5 DEF Meant, Founded, Aimed, Looped, Purposed
<1>7. Labelled(ir, fns, labelMap, H)
  BY <1>1, <1>3 DEF Labelled
<1> QED BY <1>6, <1>7 DEF Kept

LEMMA BelongingInit == ASSUME ~EmitMain, Init PROVE Belonging
<1>1. \E K : Core(ir, ip, ctl, fns, labelMap, K)
  BY SoundInit DEF Sound
<1> QED BY <1>1, KeptInit DEF Belonging

LEMMA BelongingStep ==
  ASSUME ~EmitMain, ~InnerBreaks, ~SharedLabels, Typed, Context, Belonging, [Next]_vars
  PROVE  Belonging'
<1>0. PICK K : Core(ir, ip, ctl, fns, labelMap, K)
  BY DEF Belonging
<1>1. PICK H : Kept(ir, ctl, fns, labelMap, loops, H)
  BY DEF Belonging
<1>2. \E K2 : Core(ir', ip', ctl', fns', labelMap', K2)
  <2>1. Sound
    BY <1>0 DEF Sound
  <2> QED BY <2>1, SoundStep DEF Sound
<1>3. CASE Diverting
  <2>1. Kept(ir', ctl', fns', labelMap', loops', IntendedFor(H))
    BY <1>0, <1>1, <1>3, DivertingKept
  <2> QED BY <1>2, <2>1 DEF Belonging
<1>4. ASSUME NEW kind, NEW n, NEW parts, NEW from, Begins(kind, n, parts, from) PROVE Belonging'
  <2>1. Kept(ir', ctl', fns', labelMap', loops', IntendedFor(H))
    BY <1>0, <1>1, <1>4, BeginsKept
  <2> QED BY <1>2, <2>1 DEF Belonging
<1>5. CASE EndPart \/ EndConstruct
  <2>1. Kept(ir', ctl', fns', labelMap', loops', H)
    BY <1>0, <1>1, <1>5, PartEndsKept
  <2> QED BY <1>2, <2>1 DEF Belonging
<1>6. ASSUME NEW valued \in Valued, EnterFunction(valued) PROVE Belonging'
  <2>1. Kept(ir', ctl', fns', labelMap', loops', EnteredFor(H))
    BY <1>0, <1>1, <1>6, EnterKept
  <2> QED BY <1>2, <2>1 DEF Belonging
<1>7. CASE LeaveFunction
  <2>1. Kept(ir', ctl', fns', labelMap', loops', H)
    BY <1>0, <1>1, <1>7, LeaveKept
  <2> QED BY <1>2, <2>1 DEF Belonging
<1>8. CASE RejectFunction \/ EndUnit \/ UNCHANGED vars
  <2>1. Kept(ir', ctl', fns', labelMap', loops', H)
    BY <1>1, <1>8, RestKept
  <2> QED BY <1>2, <2>1 DEF Belonging
<1> QED BY <1>3, <1>4, <1>5, <1>6, <1>7, <1>8, StepKinds DEF Beginning

(* The function of a place is that of a frame at or below it. *)
LEMMA OwnAt ==
  ASSUME ~EmitMain, NEW c, NEW F, Len(c) \in Nat, Len(F) \in Nat, Framed(c, F),
         NEW i \in 1 .. Len(c)
  PROVE  \E j \in 1 .. i : c[j].kind = "fn" /\ Own(c, i) = c[j].fn
<1>1. c[1].kind = "fn" /\ i \in Nat
  <2>1. c # <<>>
    BY EmptySeq
  <2> QED BY <2>1 DEF Framed
<1>2. FnAt(c, i) \in SUBSET (1 .. i) /\ FnAt(c, i) # {}
  BY <1>1 DEF FnAt
<1>3. PICK x \in FnAt(c, i) : \A y \in FnAt(c, i) : y <= x
  BY <1>1, <1>2, Greatest
<1>4. \A j \in FnAt(c, i) : (\A k \in FnAt(c, i) : k <= j) => j = x
  BY <1>3 DEF FnAt
<1>5. (CHOOSE j \in FnAt(c, i) : \A k \in FnAt(c, i) : k <= j) = x
  BY <1>3, <1>4
<1>6. Own(c, i) = c[x].fn
  BY <1>2, <1>5 DEF Own
<1> QED BY <1>3, <1>6 DEF FnAt

(* The blocks that are not finished are of functions on the stack. *)
LEMMA LiveUnfinished ==
  ASSUME ~EmitMain, Typed, Context, NEW K, Core(ir, ip, ctl, fns, labelMap, K),
         NEW b \in Live(ip, ctl)
  PROVE  ir.fn[b] \in Unfinished(fns)
<1>1. Saved(ir, ip, ctl) /\ Framed(ctl, fns) /\ Opened(ctl, fns, phase)
  BY DEF Core, Context
<1>2. Len(ctl) \in Nat /\ Len(fns) \in Nat
  BY Sizes
<1>3. ASSUME NEW i \in 1 .. Len(ctl), ctl # <<>> PROVE Own(ctl, i) \in Unfinished(fns)
  <2>1. \E j \in 1 .. i : ctl[j].kind = "fn" /\ Own(ctl, i) = ctl[j].fn
    BY <1>1, <1>2, <1>3, OwnAt
  <2> QED BY <1>1, <1>2, <2>1 DEF Opened, Framed, Unfinished
<1>4. CASE b \in SavedBlocks(ctl)
  <2>1. PICK i \in 2 .. Len(ctl) : ctl[i].kind = "fn" /\ b = ctl[i].from
    BY <1>4 DEF SavedBlocks
  <2>2. ir.fn[b] = Own(ctl, i - 1) /\ i - 1 \in 1 .. Len(ctl) /\ ctl # <<>>
    <3>1. Len(ctl) # 0
      BY <1>2, <2>1
    <3> QED BY <1>1, <1>2, <2>1, <3>1, EmptySeq DEF Saved, InBody
  <2> QED BY <1>3, <2>2
<1>5. CASE b \notin SavedBlocks(ctl)
  <2>1. ctl # <<>> /\ b = ip
    BY <1>5 DEF Live
  <2>2. ir.fn[b] = Own(ctl, Len(ctl)) /\ Len(ctl) \in 1 .. Len(ctl)
    BY <1>1, <2>1, Sizes DEF Saved, InBody
  <2> QED BY <1>3, <2>1, <2>2
<1> QED BY <1>4, <1>5

(* What is to be inserted by a frame is of a function on the stack. *)
LEMMA AimedUnfinished ==
  ASSUME ~EmitMain, Typed, Context, NEW H, Aimed(ir, ctl, H),
         NEW i \in 1 .. Len(ctl), NEW q \in DOMAIN ctl[i].parts, NEW b \in Ats(ctl[i].parts[q].hops)
  PROVE  H[b] \in Unfinished(fns)
<1>1. Framed(ctl, fns) /\ Opened(ctl, fns, phase) /\ Len(ctl) \in Nat /\ Len(fns) \in Nat
  BY Sizes DEF Context
<1>2. ctl[i].kind # "fn"
  <2>1. DOMAIN <<>> = {}
    OBVIOUS
  <2> QED BY <1>1, <2>1 DEF Framed
<1>3. Intended(ir, H, ctl[i].parts[q], Own(ctl, i - 1))
  BY <1>2 DEF Aimed
<1>4. H[b] = Own(ctl, i - 1)
  BY <1>3 DEF Intended, Ats, For
<1>5. Own(ctl, i) = Own(ctl, i - 1)
  BY <1>1, <1>2, OwnIs
<1>6. PICK j \in 1 .. i : ctl[j].kind = "fn" /\ Own(ctl, i) = ctl[j].fn
  BY <1>1, OwnAt
<1>7. j \in 1 .. Len(ctl)
  OBVIOUS
<1> QED BY <1>1, <1>4, <1>5, <1>6, <1>7 DEF Opened, Framed, Unfinished

(* In a complete function nothing created for it is left uninserted. *)
LEMMA NothingLeft ==
  ASSUME ~EmitMain, Typed, Context, NEW H, Kept(ir, ctl, fns, labelMap, loops, H),
         NEW f \in Fn, Complete(f), NEW t, For(ir, H, t, f)
  PROVE  ir.fn[t] = f
<1>1. Fn = 1 .. Len(fns) /\ f # 0 /\ f \notin Unfinished(fns) /\ t \in Blk(ir) /\ H[t] = f
  BY Sizes DEF Complete, Unfinished, For
<1>2. CASE ir.fn[t] # 0
  BY <1>1, <1>2 DEF Kept, Meant
<1>3. ASSUME NEW g \in Unfinished(fns), t = fns[g].ret PROVE FALSE
  <2>1. H[t] = g
    BY <1>3 DEF Kept, Founded, For, Unfinished
  <2> QED BY <1>1, <1>3, <2>1
<1>4. ASSUME ir.fn[t] = 0, NEW l \in Label, labelMap[l] = t PROVE FALSE
  <2>1. labelMap[l] # 0
    BY <1>1, <1>4 DEF Blk
  <2>2. PICK g \in 1 .. Len(fns) : /\ For(ir, H, labelMap[l], g)
                                   /\ ir.fn[labelMap[l]] = 0 => Awaited(fns, g, l)
    BY <2>1 DEF Kept, Labelled
  <2>3. g = f /\ Awaited(fns, f, l)
    BY <1>1, <1>4, <2>2 DEF For
  <2> QED BY <2>3 DEF Awaited, Complete
<1>5. ASSUME NEW i \in 1 .. Len(ctl), NEW q \in DOMAIN ctl[i].parts, t \in Ats(ctl[i].parts[q].hops)
      PROVE  FALSE
  <2>1. H[t] \in Unfinished(fns)
    BY <1>5, AimedUnfinished DEF Kept
  <2> QED BY <1>1, <2>1
<1>6. CASE ir.fn[t] = 0
  BY <1>1, <1>3, <1>4, <1>5, <1>6 DEF Kept, Purposed
<1> QED BY <1>2, <1>6

LEMMA BelongingVerifies ==
  ASSUME ~EmitMain, Typed, Context, Belonging
  PROVE  FinishedFunctionsVerify
<1>1. PICK K : Core(ir, ip, ctl, fns, labelMap, K)
  BY DEF Belonging
<1>2. PICK H : Kept(ir, ctl, fns, labelMap, loops, H)
  BY DEF Belonging
<1> SUFFICES ASSUME NEW f \in Fn, Complete(f)
             PROVE  /\ \A b \in Body(f) : Len(ir.out[b]) = 1
                    /\ Successors(Body(f)) \subseteq Body(f) \ {fns[f].entry}
                    /\ {fns[f].entry, fns[f].ret} \subseteq Body(f)
  BY DEF FinishedFunctionsVerify
<1>3. f \in 1 .. Len(fns) /\ f # 0 /\ f \notin Unfinished(fns) /\ Block = Blk(ir)
  BY Sizes DEF Complete, Unfinished
<1>4. ASSUME NEW b \in Body(f) PROVE Len(ir.out[b]) = 1
  <2>1. b \in Blk(ir) /\ ir.fn[b] = f
    BY <1>3 DEF Body
  <2>2. b \notin Live(ip, ctl)
    BY <1>1, <1>3, <2>1, LiveUnfinished
  <2> QED BY <1>1, <1>3, <2>1, <2>2 DEF Core, Straight
<1>5. ASSUME NEW t \in Successors(Body(f)) PROVE t \in Body(f) \ {fns[f].entry}
  <2>1. PICK b \in Body(f) : \E i \in DOMAIN ir.out[b] : t \in ir.out[b][i]
    BY DEF Successors
  <2>2. b \in Blk(ir) /\ ir.fn[b] = f
    BY <1>3 DEF Body
  <2>3. t \in TargetsOf(ir, b)
    BY <2>1, InReached DEF TargetsOf
  <2>4. For(ir, H, t, f)
    BY <1>2, <2>2, <2>3 DEF Kept, Meant
  <2>5. ir.fn[t] = f
    BY <1>2, <2>4, NothingLeft
  <2>6. t # fns[f].entry
    BY <1>2, <1>3, <2>4 DEF Kept, Founded, For
  <2> QED BY <1>3, <2>4, <2>5, <2>6 DEF Body, For
<1>6. InBody(ir, fns[f].entry, f) /\ InBody(ir, fns[f].ret, f)
  BY <1>2, <1>3 DEF Kept, Founded
<1> QED BY <1>3, <1>4, <1>5, <1>6 DEF InBody, Body

(* A function that has been generated, all of whose labels are defined,     *)
(* passes the verifier (llvm::verifyFunction in                             *)
(* walk_fn_define_full_withsym_generic): every block of it ends in its only *)
(* terminator, no branch leaves it or goes to its entry, and the entry and  *)
(* the return block are in it, whatever functions are defined inside it.    *)
(* That takes a compilation without -main, and sources that break out of no *)
(* loop around their function and use no label name in two functions.       *)
THEOREM FunctionsVerify ==
  ASSUME ~EmitMain, ~InnerBreaks, ~SharedLabels
  PROVE  Spec => []FinishedFunctionsVerify
<1>1. Init => Typed /\ Context /\ Belonging
  BY TypedInit, BelongingInit
<1>2. Typed /\ Context /\ Belonging /\ [Next]_vars => (Typed /\ Context /\ Belonging)'
  BY TypedStep, BelongingStep
<1>3. Typed /\ Context /\ Belonging => FinishedFunctionsVerify
  BY BelongingVerifies
<1> QED BY <1>1, <1>2, <1>3, PTL DEF Spec

LEMMA BelongingBranches ==
  ASSUME Typed, Belonging
  PROVE  BranchesStayInFunction
<1>1. PICK H : Kept(ir, ctl, fns, labelMap, loops, H)
  BY DEF Belonging
<1> SUFFICES ASSUME NEW b \in Block, ir.fn[b] # 0, NEW t \in Successors({b})
             PROVE  ir.fn[t] \in {0, ir.fn[b]}
  BY DEF BranchesStayInFunction
<1>2. Block = Blk(ir)
  BY Sizes
<1>3. \E i \in DOMAIN ir.out[b] : t \in ir.out[b][i]
  BY DEF Successors
<1>4. t \in TargetsOf(ir, b)
  BY <1>3, InReached DEF TargetsOf
<1>5. t \in Blk(ir) /\ H[t] = ir.fn[b]
  BY <1>1, <1>2, <1>4 DEF Kept, Meant, For
<1>6. ir.fn[t] # 0 => H[t] \in {0, ir.fn[t]}
  BY <1>1, <1>5 DEF Kept, Meant
<1> QED BY <1>5, <1>6

(* At no moment does a block branch into another function, one that is      *)
(* still being generated included.  What FnCodegenSharedLabel and           *)
(* FnCodegenInnerBreak refute is thus due to the label_map and the          *)
(* g_loop_controls that are not put aside for an inner function, and to     *)
(* nothing else in the walk.                                                *)
THEOREM BranchesStay ==
  ASSUME ~EmitMain, ~InnerBreaks, ~SharedLabels
  PROVE  Spec => []BranchesStayInFunction
<1>1. Init => Typed /\ Context /\ Belonging
  BY TypedInit, BelongingInit
<1>2. Typed /\ Context /\ Belonging /\ [Next]_vars => (Typed /\ Context /\ Belonging)'
  BY TypedStep, BelongingStep
<1>3. Typed /\ Belonging => BranchesStayInFunction
  BY BelongingBranches
<1> QED BY <1>1, <1>2, <1>3, PTL DEF Spec

=============================================================================
