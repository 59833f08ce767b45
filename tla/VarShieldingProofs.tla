------------------------- MODULE VarShieldingProofs -------------------------
(***************************************************************************)
(* Proofs about VarShielding, for every set of names and parameters and    *)
(* every bound on tables, statements and walks.                            *)
(*                                                                         *)
(* The argument.  An entry with n variants is, at any moment, the cycle    *)
(* 1 .. n cut at some offset k (Ring).  During a walk the offset of an     *)
(* entry is the number of its variants that were registered when the       *)
(* parser met the element being walked (Offset), so `current' is the       *)
(* variant in force there; after the last element the offset is n, which   *)
(* is the cut the parser left.                                             *)
(***************************************************************************)
EXTENDS VarShielding, SequenceTheorems, TLAPS

(* the variant i places after `current', in a ring of n cut at k *)
Place(n, k, i) == IF k + i = 0 THEN n ELSE IF k + i <= n THEN k + i ELSE k + i - n

Ring(l, c, n, k) ==
  /\ k \in 0 .. n
  /\ IF n = 0 THEN l = <<>> /\ c = 0
     ELSE /\ Len(l) = n - 1
          /\ c = Place(n, k, 0)
          /\ \A i \in 1 .. n - 1 : l[i] = Place(n, k, i)

(***************************************************************************)
(* The rotations of one entry.                                             *)
(***************************************************************************)

(* varshielding_rotate_variable(.., 1) moves the cut one variant on. *)
LEMMA RotateForwardMovesCut ==
  ASSUME NEW l \in Seq(Nat), NEW c \in Nat, NEW n \in Nat, NEW k \in 0 .. n - 1,
         Ring(l, c, n, k)
  PROVE  Ring(RotFwdList(l, c), RotFwdCurrent(l, c), n, k + 1)
<1>1. CASE Len(l) = 0
  BY <1>1 DEF Ring, Place, RotFwdList, RotFwdCurrent
<1>2. CASE Len(l) > 0
  <2>1. n > 1 /\ Len(l) = n - 1
    BY <1>2 DEF Ring
  <2>2. RotFwdList(l, c) = Append(Tail(l), c) /\ RotFwdCurrent(l, c) = l[1]
    BY <1>2 DEF RotFwdList, RotFwdCurrent
  <2>3. Len(Append(Tail(l), c)) = n - 1
    BY <2>1
  <2>4. l[1] = Place(n, k + 1, 0)
    BY <2>1 DEF Ring, Place
  <2>5. \A i \in 1 .. n - 1 : Append(Tail(l), c)[i] = Place(n, k + 1, i)
    <3> TAKE i \in 1 .. n - 1
    <3>1. CASE i < n - 1
      BY <3>1, <2>1 DEF Ring, Place
    <3>2. CASE i = n - 1
      BY <3>2, <2>1 DEF Ring, Place
    <3>3. i < n - 1 \/ i = n - 1
      BY <2>1
    <3> QED BY <3>1, <3>2, <3>3
  <2> QED BY <2>1, <2>2, <2>3, <2>4, <2>5 DEF Ring
<1> QED BY <1>1, <1>2

(* varshielding_rotate_variable(.., 0) moves it one variant back. *)
LEMMA RotateBackMovesCut ==
  ASSUME NEW l \in Seq(Nat), NEW c \in Nat, NEW n \in Nat, NEW k \in 1 .. n,
         Ring(l, c, n, k)
  PROVE  Ring(RotBackList(l, c), RotBackCurrent(l, c), n, k - 1)
<1>1. CASE Len(l) = 0
  BY <1>1 DEF Ring, Place, RotBackList, RotBackCurrent
<1>2. CASE Len(l) > 0
  <2>1. n > 1 /\ Len(l) = n - 1
    BY <1>2 DEF Ring
  <2> DEFINE m == <<c>> \o SubSeq(l, 1, n - 2)
  <2>2. RotBackList(l, c) = m /\ RotBackCurrent(l, c) = l[n - 1]
    BY <1>2, <2>1 DEF RotBackList, RotBackCurrent
  <2>3. /\ Len(m) = n - 1
        /\ m[1] = c
        /\ \A i \in 2 .. n - 1 : m[i] = l[i - 1]
    BY <2>1
  <2>4. l[n - 1] = Place(n, k - 1, 0)
    BY <2>1 DEF Ring, Place
  <2>5. \A i \in 1 .. n - 1 : m[i] = Place(n, k - 1, i)
    <3> TAKE i \in 1 .. n - 1
    <3>1. CASE i = 1
      BY <3>1, <2>1, <2>3 DEF Ring, Place
    <3>2. CASE i > 1
      BY <3>2, <2>1, <2>3 DEF Ring, Place
    <3> QED BY <3>1, <3>2
  <2> QED BY <2>1, <2>2, <2>3, <2>4, <2>5 DEF Ring
<1> QED BY <1>1, <1>2

(* Rotating forward and back again changes nothing, wherever the cut is. *)
LEMMA RotateForthAndBack ==
  ASSUME NEW l \in Seq(Nat), NEW c \in Nat
  PROVE  LET fl == RotFwdList(l, c)
             fc == RotFwdCurrent(l, c)
         IN  RotBackList(fl, fc) = l /\ RotBackCurrent(fl, fc) = c
<1> DEFINE fl == RotFwdList(l, c)
           fc == RotFwdCurrent(l, c)
<1>1. CASE Len(l) = 0
  BY <1>1 DEF RotFwdList, RotFwdCurrent, RotBackList, RotBackCurrent
<1>2. CASE Len(l) > 0
  <2>1. fl = Append(Tail(l), c) /\ fc = l[1]
    BY <1>2 DEF RotFwdList, RotFwdCurrent
  <2>2. fl \in Seq(Nat) /\ Len(fl) = Len(l) /\ fl[Len(fl)] = c
    BY <2>1, <1>2
  <2>3. \A i \in 1 .. Len(l) - 1 : fl[i] = l[i + 1]
    BY <2>1, <1>2
  <2> DEFINE m == <<fc>> \o SubSeq(fl, 1, Len(fl) - 1)
  <2>4. RotBackList(fl, fc) = m /\ RotBackCurrent(fl, fc) = c
    BY <2>2, <1>2 DEF RotBackList, RotBackCurrent
  <2>5. m = l
    <3>1. m \in Seq(Nat) /\ Len(m) = Len(l)
      BY <2>1, <2>2, <1>2
    <3>2. \A i \in 1 .. Len(l) : m[i] = l[i]
      BY <2>1, <2>2, <2>3, <1>2
    <3> HIDE DEF m
    <3> QED BY <3>1, <3>2, SeqEqual
  <2> QED BY <2>4, <2>5
<1> QED BY <1>1, <1>2

(* register_variable on a ring cut where the parser keeps it. *)
LEMMA RegisterExtendsRing ==
  ASSUME NEW l \in Seq(Nat), NEW c \in Nat, NEW n \in Nat, Ring(l, c, n, 0)
  PROVE  Ring(IF n > 0 THEN Append(l, c) ELSE l, n + 1, n + 1, 0)
BY DEF Ring, Place

(* The two ends of the cycle are the same cut. *)
LEMMA FullTurn ==
  ASSUME NEW l \in Seq(Nat), NEW c \in Nat, NEW n \in Nat
  PROVE  Ring(l, c, n, n) <=> Ring(l, c, n, 0)
BY DEF Ring, Place

(***************************************************************************)
(* The inductive invariant.                                                *)
(***************************************************************************)

(* the variants registered just before the parser recorded element p *)
Snap(p) == IF p <= Len(prog) THEN prog[p].reg ELSE reg

Binds(p) == prog[p].op \in {"letend", "letzero"}

AtEntry == [e \in Entry |-> IF e \in ParamEntry THEN 1 ELSE 0]

(* blocks nest: a block's table is younger than every table around it, and *)
(* a right-hand side belongs to the block its let stands in                *)
FramesInv ==
  /\ Len(frames) >= 1
  /\ mode # "parse" => Len(frames) = 1
  /\ \A j \in 1 .. Len(frames) :
       /\ frames[j].tab <= ntab
       /\ frames[j].kind = "block" =>
            \A i \in 1 .. j - 1 : frames[i].tab < frames[j].tab
       /\ frames[j].kind = "let" =>
            /\ j > 1
            /\ frames[j - 1].kind = "block"
            /\ frames[j - 1].tab = frames[j].tab

(* while a right-hand side is open, nothing is registered in a table that  *)
(* its names can come from                                                 *)
OpenLetInv ==
  \A j \in 1 .. Len(frames) :
    /\ frames[j].kind = "block" => frames[j].at = 0
    /\ frames[j].kind = "let" =>
         /\ frames[j].at \in 1 .. Len(prog)
         /\ prog[frames[j].at].op = "letbegin"
         /\ prog[frames[j].at].ents \subseteq {frames[j].tab} \X Name
         /\ \A i \in 1 .. j : \A n \in Name :
              prog[frames[j].at].reg[<<frames[i].tab, n>>] = reg[<<frames[i].tab, n>>]

(* the snapshots count the bindings before them *)
SnapInv ==
  /\ Snap(1) = AtEntry
  /\ \A p \in 1 .. Len(prog) : \A e \in Entry :
       /\ prog[p].reg[e] <= reg[e]
       /\ Snap(p + 1)[e] = prog[p].reg[e]
                             + IF Binds(p) /\ e \in prog[p].ents THEN 1 ELSE 0

UseInv ==
  \A p \in 1 .. Len(prog) : prog[p].op = "use" =>
    \A e \in prog[p].ents :
      /\ prog[p].reg[e] > 0
      /\ prog[p].let > 0 =>
           /\ prog[p].let \in 1 .. Len(prog)
           /\ prog[prog[p].let].reg[e] = prog[p].reg[e]

CallInv ==
  \A p \in 1 .. Len(prog) : prog[p].op = "call" => prog[p].ents = ParamEntry

(* a let whose right-hand side is complete has registered its variants *)
LetInv ==
  \A p \in 1 .. Len(prog) : prog[p].op = "letbegin" =>
    \/ \E j \in 1 .. Len(frames) : frames[j].kind = "let" /\ frames[j].at = p
    \/ \A e \in prog[p].ents : prog[p].reg[e] < reg[e]

ParserInv ==
  FramesInv /\ OpenLetInv /\ SnapInv /\ UseInv /\ CallInv /\ LetInv

(* where the ring of an entry is cut *)
Offset(e) ==
  IF mode # "walk" THEN 0
  ELSE Snap(pc)[e]
         + IF step \in {"forward", "typed"} /\ e \in prog[pc].ents THEN 1 ELSE 0

WalkInv ==
  /\ IF mode = "walk" THEN pc \in 1 .. Len(prog) + 1 ELSE pc = 0
  /\ step # "start" => At("letbegin")
  /\ \A e \in Entry : Ring(varlist[e], current[e], reg[e], Offset(e))

ObsInv == UseDenotesLexicalBinding /\ FormalTypeIsDeclared

IInv == TypeOK /\ ParserInv /\ WalkInv /\ ObsInv

(***************************************************************************)
(* Typing.                                                                 *)
(***************************************************************************)
LEMMA RotationTypes ==
  ASSUME NEW l \in Seq(Nat), NEW c \in Nat
  PROVE  /\ RotFwdList(l, c) \in Seq(Nat) /\ RotFwdCurrent(l, c) \in Nat
         /\ RotBackList(l, c) \in Seq(Nat) /\ RotBackCurrent(l, c) \in Nat
<1>1. CASE Len(l) = 0
  BY <1>1 DEF RotFwdList, RotFwdCurrent, RotBackList, RotBackCurrent
<1>2. CASE Len(l) > 0
  <2>1. Tail(l) \in Seq(Nat) /\ l[1] \in Nat /\ l[Len(l)] \in Nat
    BY <1>2
  <2>2. SubSeq(l, 1, Len(l) - 1) \in Seq(Nat) /\ <<c>> \in Seq(Nat)
    BY <1>2
  <2>3. <<c>> \o SubSeq(l, 1, Len(l) - 1) \in Seq(Nat)
    BY <2>2
  <2> QED BY <1>2, <2>1, <2>3 DEF RotFwdList, RotFwdCurrent, RotBackList, RotBackCurrent
<1> QED BY <1>1, <1>2

(* The parameters of the function are entries of its table (add_fn_args). *)
LEMMA ParamEntryIsEntry == ParamEntry \subseteq Entry
BY ParamAssumption, BoundAssumption DEF ParamEntry, Entry, Table

(* varshielding_rotate_capattern keeps the types of the lists. *)
LEMMA RotateTypes ==
  ASSUME TypeOK, NEW S, RotateForward(S) \/ RotateBack(S)
  PROVE  varlist' \in [Entry -> Seq(Nat)] /\ current' \in [Entry -> Nat]
<1>1. \A e \in Entry : varlist[e] \in Seq(Nat) /\ current[e] \in Nat
  BY DEF TypeOK
<1>2. \A e \in Entry :
        /\ RotFwdList(varlist[e], current[e]) \in Seq(Nat)
        /\ RotFwdCurrent(varlist[e], current[e]) \in Nat
        /\ RotBackList(varlist[e], current[e]) \in Seq(Nat)
        /\ RotBackCurrent(varlist[e], current[e]) \in Nat
  BY <1>1, RotationTypes
<1>3. CASE RotateForward(S)
  BY <1>1, <1>2, <1>3 DEF RotateForward
<1>4. CASE RotateBack(S)
  BY <1>1, <1>2, <1>4 DEF RotateBack
<1> QED BY <1>3, <1>4

(* Reading the type of a parameter keeps the types of the lists. *)
LEMMA ReadFormalTypes ==
  ASSUME TypeOK, NEW e \in Entry, NEW kind, ReadFormalType(kind, e)
  PROVE  varlist' = varlist /\ current' = current /\ current[e] \in Nat
         /\ obs' = Observation(kind, e, RotFwdCurrent(varlist[e], current[e]), 1)
<1>1. varlist[e] \in Seq(Nat) /\ current[e] \in Nat
  BY DEF TypeOK
<1>2. /\ varlist' = [varlist EXCEPT ![e] = varlist[e]]
      /\ current' = [current EXCEPT ![e] = current[e]]
      /\ obs' = Observation(kind, e, RotFwdCurrent(varlist[e], current[e]), 1)
  BY <1>1, RotateForthAndBack DEF ReadFormalType
<1>3. [varlist EXCEPT ![e] = varlist[e]] = varlist /\ [current EXCEPT ![e] = current[e]] = current
  BY DEF TypeOK
<1> QED BY <1>1, <1>2, <1>3

(* register_variable keeps the types of the lists. *)
LEMMA RegisterTypes ==
  ASSUME TypeOK, NEW S, Register(S)
  PROVE  /\ reg' \in [Entry -> Nat]
         /\ varlist' \in [Entry -> Seq(Nat)]
         /\ current' \in [Entry -> Nat]
<1>1. \A e \in Entry : varlist[e] \in Seq(Nat) /\ current[e] \in Nat /\ reg[e] \in Nat
  BY DEF TypeOK
<1>2. \A e \in Entry : Append(varlist[e], current[e]) \in Seq(Nat)
  BY <1>1
<1> QED BY <1>1, <1>2 DEF Register

(* what TypeOK says of the parts *)
LEMMA Parts ==
  ASSUME TypeOK
  PROVE  /\ Len(frames) \in Nat /\ Len(prog) \in Nat
         /\ \A i \in 1 .. Len(frames) :
              /\ frames[i] \in FrameType
              /\ frames[i].kind \in {"block", "let"}
              /\ frames[i].tab \in Table /\ frames[i].tab \in Nat
              /\ frames[i].at \in Nat
         /\ \A p \in 1 .. Len(prog) :
              /\ prog[p].op \in {"use", "call", "letbegin", "letend", "letzero"}
              /\ prog[p].ents \in SUBSET Entry
              /\ prog[p].let \in Nat
              /\ prog[p].reg \in [Entry -> Nat]
         /\ \A e \in Entry : varlist[e] \in Seq(Nat) /\ current[e] \in Nat /\ reg[e] \in Nat
         /\ ntab \in Nat
<1>1. Len(frames) \in Nat /\ Len(prog) \in Nat
  BY LenProperties DEF TypeOK
<1>2. ASSUME NEW i \in 1 .. Len(frames) PROVE frames[i] \in FrameType
  BY ElementOfSeq DEF TypeOK
<1>3. ASSUME NEW p \in 1 .. Len(prog) PROVE prog[p] \in ElementType
  BY ElementOfSeq DEF TypeOK
<1>4. \A e \in Entry : varlist[e] \in Seq(Nat) /\ current[e] \in Nat /\ reg[e] \in Nat
  BY DEF TypeOK
<1>5. \A x \in FrameType : /\ x.kind \in {"block", "let"}
                           /\ x.tab \in Table /\ x.tab \in Nat
                           /\ x.at \in Nat
  BY DEF FrameType, Table
<1>6. \A x \in ElementType : /\ x.op \in {"use", "call", "letbegin", "letend", "letzero"}
                             /\ x.ents \in SUBSET Entry
                             /\ x.let \in Nat
                             /\ x.reg \in [Entry -> Nat]
  BY DEF ElementType
<1> QED BY <1>1, <1>2, <1>3, <1>4, <1>5, <1>6 DEF TypeOK, Table

(* The state after the prototype has been parsed is well typed. *)
LEMMA InitTypeOK == Init => TypeOK
<1> SUFFICES ASSUME Init PROVE TypeOK
  OBVIOUS
<1>1. [kind |-> "block", tab |-> 1, at |-> 0] \in FrameType /\ ntab \in Table
  BY BoundAssumption DEF FrameType, Table, Init
<1>2. frames \in Seq(FrameType)
  BY <1>1 DEF Init
<1>3. prog \in Seq(ElementType) /\ \A e \in Entry : <<>> \in Seq(Nat)
  BY DEF Init
<1>4. reg \in [Entry -> Nat] /\ varlist \in [Entry -> Seq(Nat)] /\ current \in [Entry -> Nat]
  BY <1>3 DEF Init
<1>5. obs \in ObsType
  BY DEF Init, ObsType, NoObservation
<1> QED BY <1>1, <1>2, <1>3, <1>4, <1>5 DEF Init, TypeOK

(* Every step of the parser and of the walk keeps the state well typed. *)
LEMMA NextTypeOK == TypeOK /\ ParserInv /\ WalkInv /\ [Next]_vars => TypeOK'
<1> SUFFICES ASSUME TypeOK, ParserInv, WalkInv, [Next]_vars PROVE TypeOK'
  OBVIOUS
<1>t. /\ frames \in Seq(FrameType) /\ prog \in Seq(ElementType) /\ obs \in ObsType
      /\ reg \in [Entry -> Nat]
      /\ Len(frames) \in Nat \ {0} /\ Len(prog) \in Nat
      /\ Top \in FrameType
      /\ Top.kind \in {"block", "let"} /\ Top.tab \in Table /\ Top.at \in Nat
      /\ \A i \in 1 .. Len(frames) : frames[i] \in FrameType /\ frames[i].tab \in Table
  BY Parts DEF TypeOK, ParserInv, FramesInv, Top
<1>u. ASSUME NEW op \in {"use", "call", "letbegin", "letend", "letzero"},
             NEW S \in SUBSET Entry, NEW k \in Nat
      PROVE  Append(prog, Element(op, S, k)) \in Seq(ElementType)
  <2> Element(op, S, k) \in ElementType
    BY <1>t DEF Element, ElementType
  <2> QED BY <1>t, AppendProperties
<1>o. ASSUME NEW kind \in {"use", "type", "bind", "formal", "recursive", "self"},
             NEW e \in Entry, NEW g \in Nat, NEW w \in Nat
      PROVE  Observation(kind, e, g, w) \in ObsType
  BY DEF Observation, ObsType
<1>n. NoObservation \in ObsType
  BY DEF NoObservation, ObsType
<1>b. ASSUME NEW P \in Pattern
      PROVE  {Top.tab} \X P \in SUBSET Entry
  BY <1>t DEF Pattern, Entry
<1>s. SubSeq(frames, 1, Len(frames) - 1) \in Seq(FrameType)
  BY <1>t, SubSeqProperties
<1>1. CASE OpenBlock
  <2>1. [kind |-> "block", tab |-> ntab + 1, at |-> 0] \in FrameType /\ ntab + 1 \in Table
    BY <1>1, BoundAssumption DEF OpenBlock, TypeOK, Table, FrameType
  <2>2. frames' \in Seq(FrameType) /\ ntab' \in Table
    BY <1>1, <1>t, <2>1 DEF OpenBlock
  <2> QED BY <1>1, <2>2 DEF OpenBlock, Parsing, TypeOK
<1>2. CASE CloseBlock
  BY <1>2, <1>s DEF CloseBlock, Parsing, TypeOK
<1>3. ASSUME NEW n \in Name, ParseUse(n) PROVE TypeOK'
  <2>1. PICK i \in Visible(n) :
           prog' = Append(prog, Element("use", {<<frames[i].tab, n>>}, Top.at))
    BY <1>3 DEF ParseUse
  <2>2. {<<frames[i].tab, n>>} \in SUBSET Entry
    BY <1>t DEF Visible, Entry
  <2>3. prog' \in Seq(ElementType)
    BY <1>t, <1>u, <2>1, <2>2
  <2> QED BY <1>3, <2>3 DEF ParseUse, Parsing, TypeOK
<1>4. CASE ParseRecursiveCall
  <2>1. prog' \in Seq(ElementType)
    BY <1>4, <1>u, ParamEntryIsEntry DEF ParseRecursiveCall
  <2> QED BY <1>4, <2>1 DEF ParseRecursiveCall, Parsing, TypeOK
<1>5. ASSUME NEW P \in Pattern, BeginLet(P) PROVE TypeOK'
  <2>1. prog' \in Seq(ElementType)
    BY <1>5, <1>u, <1>b DEF BeginLet
  <2>2. [kind |-> "let", tab |-> Top.tab, at |-> Len(prog) + 1] \in FrameType
    BY <1>t DEF FrameType
  <2>3. frames' \in Seq(FrameType)
    BY <1>5, <1>t, <2>2, AppendProperties DEF BeginLet
  <2> QED BY <1>5, <2>1, <2>3 DEF BeginLet, Parsing, TypeOK
<1>6. ASSUME NEW P \in Pattern, ParseLetZero(P) PROVE TypeOK'
  <2>1. prog' \in Seq(ElementType)
    BY <1>6, <1>u, <1>b DEF ParseLetZero
  <2>2. /\ reg' \in [Entry -> Nat]
        /\ varlist' \in [Entry -> Seq(Nat)]
        /\ current' \in [Entry -> Nat]
    BY <1>6, RegisterTypes DEF ParseLetZero
  <2> QED BY <1>6, <2>1, <2>2 DEF ParseLetZero, Parsing, TypeOK
<1>7. CASE EndLet
  <2> DEFINE S == prog[Top.at].ents
  <2>1. S \in SUBSET Entry
    <3>1. Top.at \in 1 .. Len(prog)
      BY <1>7, <1>t DEF EndLet, ParserInv, OpenLetInv, Top
    <3> QED BY <3>1, Parts
  <2>2. prog' \in Seq(ElementType)
    BY <1>7, <1>u, <2>1 DEF EndLet
  <2>3. /\ reg' \in [Entry -> Nat]
        /\ varlist' \in [Entry -> Seq(Nat)]
        /\ current' \in [Entry -> Nat]
    BY <1>7, RegisterTypes DEF EndLet
  <2> QED BY <1>7, <2>2, <2>3, <1>s DEF EndLet, Parsing, TypeOK
<1>8. CASE EndParse
  BY <1>8 DEF EndParse, TypeOK
<1>9. CASE ReadFormal
  <2>1. PICK e \in Entry : ReadFormalType("formal", e)
    BY <1>9, ParamEntryIsEntry DEF ReadFormal
  <2>2. obs' \in ObsType
    <3>1. RotFwdCurrent(varlist[e], current[e]) \in Nat
      BY RotationTypes, Parts
    <3>2. Observation("formal", e, RotFwdCurrent(varlist[e], current[e]), 1) \in ObsType
      BY <3>1, <1>o
    <3> QED BY <2>1, <3>2, ReadFormalTypes
  <2> QED BY <1>9, <2>1, <2>2, ReadFormalTypes DEF ReadFormal, parser, TypeOK
<1>10. CASE ReadSelf
  <2>1. obs' \in ObsType
    BY <1>10, <1>o, ParamEntryIsEntry DEF ReadSelf, TypeOK
  <2> QED BY <1>10, <2>1 DEF ReadSelf, parser, shield, TypeOK
<1>11. CASE EnterFunction
  BY <1>11, <1>n, RotateTypes DEF EnterFunction, parser, TypeOK
<1>12. CASE LeaveFunction
  BY <1>12, <1>n DEF LeaveFunction, parser, shield, TypeOK
<1>13. CASE WalkUse
  <2>1. pc \in 1 .. Len(prog)
    BY <1>13 DEF WalkUse, At, WalkInv
  <2>2. PICK e \in prog[pc].ents :
           obs' = Observation("use", e, current[e], prog[pc].reg[e])
    BY <1>13 DEF WalkUse
  <2>3. e \in Entry /\ current[e] \in Nat /\ prog[pc].reg[e] \in Nat
    BY <2>1, <2>2, Parts
  <2>4. obs' \in ObsType
    BY <2>2, <2>3, <1>o
  <2> QED BY <1>13, <2>4 DEF WalkUse, Walking, parser, shield, TypeOK
<1>14. CASE WalkRecursiveCall
  <2>1. pc \in 1 .. Len(prog)
    BY <1>14 DEF WalkRecursiveCall, At, WalkInv
  <2>2. PICK e \in prog[pc].ents : ReadFormalType("recursive", e)
    BY <1>14 DEF WalkRecursiveCall
  <2>3. e \in Entry
    BY <2>1, <2>2, Parts
  <2>4. Observation("recursive", e, RotFwdCurrent(varlist[e], current[e]), 1) \in ObsType
    BY <2>3, <1>o, RotationTypes, Parts
  <2>5. varlist' = varlist /\ current' = current /\ obs' \in ObsType
    BY <2>2, <2>3, <2>4, ReadFormalTypes
  <2> QED BY <1>14, <2>5 DEF WalkRecursiveCall, Walking, parser, TypeOK
<1>15. CASE LetForward
  BY <1>15, RotateTypes DEF LetForward, Walking, parser, TypeOK
<1>16. CASE InferBack
  BY <1>16, RotateTypes DEF InferBack, Walking, parser, TypeOK
<1>17. CASE InferRead
  <2>1. pc \in 1 .. Len(prog)
    BY <1>17 DEF InferRead, At, WalkInv
  <2>2. PICK i \in pc + 1 .. Len(prog) : \E e \in prog[i].ents :
           obs' = Observation("use", e, current[e], prog[i].reg[e])
    BY <1>17 DEF InferRead
  <2>5. PICK e \in prog[i].ents :
           obs' = Observation("use", e, current[e], prog[i].reg[e])
    BY <2>2
  <2>3. e \in Entry /\ current[e] \in Nat /\ prog[i].reg[e] \in Nat
    BY <2>1, <2>5, Parts
  <2>4. obs' \in ObsType
    BY <2>5, <2>3, <1>o
  <2> QED BY <1>17, <2>4 DEF InferRead, Walking, parser, shield, TypeOK
<1>18. CASE InferForward
  <2>1. pc \in 1 .. Len(prog)
    BY <1>18 DEF InferForward, At, WalkInv
  <2>2. varlist' \in [Entry -> Seq(Nat)] /\ current' \in [Entry -> Nat]
    BY <1>18, RotateTypes DEF InferForward
  <2>3. PICK e \in prog[pc].ents :
           obs' = Observation("type", e, current'[e], prog[pc].reg[e] + 1)
    BY <1>18 DEF InferForward
  <2>4. e \in Entry /\ current'[e] \in Nat /\ prog[pc].reg[e] + 1 \in Nat
    BY <2>1, <2>2, <2>3, Parts
  <2>5. obs' \in ObsType
    BY <2>3, <2>4, <1>o
  <2> QED BY <1>18, <2>2, <2>5 DEF InferForward, Walking, parser, TypeOK
<1>19. CASE LetWalkRight
  BY <1>19, RotateTypes DEF LetWalkRight, Walking, parser, TypeOK
<1>20. CASE LetBind
  <2>1. pc \in 1 .. Len(prog)
    BY <1>20 DEF LetBind, At, WalkInv
  <2>2. varlist' \in [Entry -> Seq(Nat)] /\ current' \in [Entry -> Nat]
    BY <1>20, RotateTypes DEF LetBind
  <2>3. PICK e \in prog[pc].ents :
           obs' = Observation("bind", e, current'[e], prog[pc].reg[e] + 1)
    BY <1>20 DEF LetBind
  <2>4. e \in Entry /\ current'[e] \in Nat /\ prog[pc].reg[e] + 1 \in Nat
    BY <2>1, <2>2, <2>3, Parts
  <2>5. obs' \in ObsType
    BY <2>3, <2>4, <1>o
  <2> QED BY <1>20, <2>2, <2>5 DEF LetBind, Walking, parser, TypeOK
<1>21. CASE UNCHANGED vars
  BY <1>21 DEF vars, TypeOK
<1> QED
  BY <1>1, <1>2, <1>3, <1>4, <1>5, <1>6, <1>7, <1>8, <1>9, <1>10, <1>11, <1>12,
     <1>13, <1>14, <1>15, <1>16, <1>17, <1>18, <1>19, <1>20, <1>21 DEF Next

(***************************************************************************)
(* The parser's part of the invariant.                                     *)
(***************************************************************************)

(* What recording an element does to the snapshots: every binding          *)
(* statement records the counts before it registers.                       *)
LEMMA Recording ==
  ASSUME TypeOK, SnapInv,
         NEW op \in {"use", "call", "letbegin", "letend", "letzero"},
         NEW S \in SUBSET Entry, NEW k \in Nat,
         prog' = Append(prog, Element(op, S, k)),
         reg' = [e \in Entry |-> IF op \in {"letend", "letzero"} /\ e \in S
                                   THEN reg[e] + 1 ELSE reg[e]]
  PROVE  /\ SnapInv'
         /\ Len(prog') = Len(prog) + 1
         /\ \A p \in 1 .. Len(prog) : prog'[p] = prog[p]
         /\ prog'[Len(prog) + 1] = Element(op, S, k)
         /\ \A e \in Entry : reg[e] <= reg'[e]
<1>1. Element(op, S, k) \in ElementType /\ Element(op, S, k).reg = reg
      /\ Element(op, S, k).op = op /\ Element(op, S, k).ents = S
  BY DEF Element, ElementType, TypeOK
<1>2. /\ Len(prog') = Len(prog) + 1
      /\ \A p \in 1 .. Len(prog) : prog'[p] = prog[p]
      /\ prog'[Len(prog) + 1] = Element(op, S, k)
      /\ Len(prog) \in Nat
  BY <1>1, AppendProperties, Parts DEF TypeOK
<1>3. \A e \in Entry : reg[e] <= reg'[e] /\ reg[e] \in Nat /\ reg'[e] \in Nat
  BY Parts
<1>n. PICK n \in Nat : n = Len(prog)
  BY <1>2
<1>4. (\A p \in 1 .. n + 1 : Snap(p)' = Snap(p)) /\ Snap(n + 2)' = reg' /\ Snap(n + 1) = reg
  <2>1. ASSUME NEW p \in 1 .. n + 1 PROVE Snap(p)' = Snap(p)
    <3>1. CASE p \in 1 .. n
      BY <3>1, <1>n, <1>2 DEF Snap
    <3>2. CASE p = n + 1
      BY <3>2, <1>n, <1>1, <1>2 DEF Snap
    <3> QED BY <3>1, <3>2
  <2>2. Snap(n + 2)' = reg' /\ Snap(n + 1) = reg
    BY <1>n, <1>2 DEF Snap
  <2> QED BY <2>1, <2>2
<1>5. ASSUME NEW p \in 1 .. Len(prog'), NEW e \in Entry
      PROVE  /\ prog'[p].reg[e] <= reg'[e]
             /\ Snap(p + 1)'[e] = prog'[p].reg[e]
                                    + IF Binds(p)' /\ e \in prog'[p].ents THEN 1 ELSE 0
  <2>1. CASE p \in 1 .. Len(prog)
    <3>1. prog'[p] = prog[p]
      BY <2>1, <1>2
    <3>2. Snap(p + 1)' = Snap(p + 1)
      BY <2>1, <1>n, <1>4
    <3>3. prog[p].reg[e] \in Nat
      BY <2>1, Parts
    <3>4. /\ prog[p].reg[e] <= reg[e]
          /\ Snap(p + 1)[e] = prog[p].reg[e]
                                + IF Binds(p) /\ e \in prog[p].ents THEN 1 ELSE 0
      BY <2>1 DEF SnapInv
    <3>5. Binds(p)' <=> Binds(p)
      BY <3>1 DEF Binds
    <3>6. prog'[p].reg[e] <= reg'[e]
      BY <3>1, <3>3, <3>4, <1>3
    <3> QED BY <3>1, <3>2, <3>4, <3>5, <3>6
  <2>2. CASE p = Len(prog) + 1
    BY <2>2, <1>n, <1>1, <1>2, <1>3, <1>4 DEF Binds
  <2> QED BY <2>1, <2>2, <1>2
<1>6. Snap(1)' = AtEntry
  BY <1>4, <1>n DEF SnapInv
<1>7. AtEntry' = AtEntry
  BY DEF AtEntry
<1> QED BY <1>2, <1>3, <1>5, <1>6, <1>7 DEF SnapInv

(* The elements recorded before are as they were; lets whose right-hand    *)
(* side is complete stay complete.                                         *)
LEMMA RecordingKeeps ==
  ASSUME TypeOK, UseInv, CallInv, NEW el,
         Len(prog') = Len(prog) + 1,
         \A p \in 1 .. Len(prog) : prog'[p] = prog[p],
         prog'[Len(prog) + 1] = el,
         el.op = "call" => el.ents = ParamEntry,
         el.op = "use" =>
           \A e \in el.ents :
             /\ el.reg[e] > 0
             /\ el.let > 0 => /\ el.let \in 1 .. Len(prog)
                              /\ prog[el.let].reg[e] = el.reg[e]
  PROVE  UseInv' /\ CallInv'
<1>1. Len(prog) \in Nat
  BY Parts
<1>2. ASSUME NEW p \in 1 .. Len(prog')
      PROVE  /\ prog'[p].op = "call" => prog'[p].ents = ParamEntry
             /\ prog'[p].op = "use" =>
                  \A e \in prog'[p].ents :
                    /\ prog'[p].reg[e] > 0
                    /\ prog'[p].let > 0 =>
                         /\ prog'[p].let \in 1 .. Len(prog')
                         /\ prog'[prog'[p].let].reg[e] = prog'[p].reg[e]
  <2>1. CASE p \in 1 .. Len(prog)
    BY <2>1, <1>1 DEF UseInv, CallInv
  <2>2. CASE p = Len(prog) + 1
    BY <2>2, <1>1
  <2> QED BY <2>1, <2>2, <1>1
<1> QED BY <1>2 DEF UseInv, CallInv, ParamEntry

(* Recording one more element leaves the open right-hand sides in place. *)
LEMMA LetsKeep ==
  ASSUME TypeOK, LetInv,
         Len(prog') = Len(prog) + 1,
         \A p \in 1 .. Len(prog) : prog'[p] = prog[p],
         prog'[Len(prog) + 1].op # "letbegin",
         \A e \in Entry : reg'[e] \in Nat /\ reg[e] <= reg'[e],
         frames' = frames
  PROVE  LetInv'
<1>1. Len(prog) \in Nat
  BY Parts
<1>2. ASSUME NEW p \in 1 .. Len(prog'), prog'[p].op = "letbegin"
      PROVE  \/ \E j \in 1 .. Len(frames') : frames'[j].kind = "let" /\ frames'[j].at = p
             \/ \A e \in prog'[p].ents : prog'[p].reg[e] < reg'[e]
  <2>1. p \in 1 .. Len(prog) /\ prog'[p] = prog[p]
    BY <1>1, <1>2
  <2>2. \A e \in prog[p].ents : prog[p].reg[e] \in Nat /\ reg[e] \in Nat /\ e \in Entry
    BY <2>1, Parts
  <2> QED BY <1>2, <2>1, <2>2 DEF LetInv
<1> QED BY <1>2 DEF LetInv

(* A pushed frame is the last one (push_new_symtable). *)
LEMMA Pushing ==
  ASSUME TypeOK, NEW f \in FrameType, frames' = Append(frames, f)
  PROVE  /\ Len(frames') = Len(frames) + 1
         /\ \A i \in 1 .. Len(frames) : frames'[i] = frames[i]
         /\ frames'[Len(frames) + 1] = f
BY AppendProperties DEF TypeOK

(* Popping a frame leaves the others as they were (pop_symtable). *)
LEMMA Popping ==
  ASSUME TypeOK, Len(frames) > 1, frames' = SubSeq(frames, 1, Len(frames) - 1)
  PROVE  /\ Len(frames') = Len(frames) - 1
         /\ \A i \in 1 .. Len(frames') : frames'[i] = frames[i]
<1>1. Len(frames) \in Nat /\ \A i \in 1 .. Len(frames) - 1 : frames[i] \in FrameType
  BY Parts
<1> QED BY <1>1, SubSeqProperties

(* Popping a frame keeps the nesting of the remaining blocks. *)
LEMMA PoppingKeepsFrames ==
  ASSUME TypeOK, FramesInv, Len(frames) > 1, mode' = "parse", ntab' = ntab,
         frames' = SubSeq(frames, 1, Len(frames) - 1)
  PROVE  FramesInv'
<1>1. Len(frames) \in Nat
  BY Parts
<1>2. /\ Len(frames') = Len(frames) - 1
      /\ \A i \in 1 .. Len(frames') : frames'[i] = frames[i]
  BY Popping
<1> QED BY <1>1, <1>2 DEF FramesInv

(* An open let is undisturbed as long as nothing is registered in a table  *)
(* its right-hand side can see.                                            *)
LEMMA OpenLetsKeep ==
  ASSUME TypeOK, OpenLetInv,
         Len(frames') \in 0 .. Len(frames),
         \A i \in 1 .. Len(frames') : frames'[i] = frames[i],
         Len(prog') \in Nat, Len(prog') >= Len(prog),
         \A p \in 1 .. Len(prog) : prog'[p] = prog[p],
         \A j \in 1 .. Len(frames') : frames[j].kind = "let" =>
           \A i \in 1 .. j : \A n \in Name :
             reg'[<<frames[i].tab, n>>] = reg[<<frames[i].tab, n>>]
  PROVE  OpenLetInv'
<1>1. Len(frames) \in Nat /\ Len(prog) \in Nat
  BY Parts
<1>2. ASSUME NEW j \in 1 .. Len(frames')
      PROVE  /\ frames'[j].kind = "block" => frames'[j].at = 0
             /\ frames'[j].kind = "let" =>
                  /\ frames'[j].at \in 1 .. Len(prog')
                  /\ prog'[frames'[j].at].op = "letbegin"
                  /\ prog'[frames'[j].at].ents \subseteq {frames'[j].tab} \X Name
                  /\ \A i \in 1 .. j : \A n \in Name :
                       prog'[frames'[j].at].reg[<<frames'[i].tab, n>>]
                         = reg'[<<frames'[i].tab, n>>]
  <2>1. j \in 1 .. Len(frames) /\ \A i \in 1 .. j : frames'[i] = frames[i]
    BY <1>1
  <2>2. CASE frames[j].kind = "block"
    BY <2>1, <2>2 DEF OpenLetInv
  <2>3. CASE frames[j].kind = "let"
    <3>1. frames[j].at \in 1 .. Len(prog) /\ prog'[frames[j].at] = prog[frames[j].at]
      BY <2>1, <2>3 DEF OpenLetInv
    <3>2. frames[j].at \in 1 .. Len(prog')
      BY <1>1, <3>1
    <3>3. /\ prog[frames[j].at].op = "letbegin"
          /\ prog[frames[j].at].ents \subseteq {frames[j].tab} \X Name
      BY <2>1, <2>3 DEF OpenLetInv
    <3>4. ASSUME NEW i \in 1 .. j, NEW n \in Name
          PROVE  prog'[frames[j].at].reg[<<frames'[i].tab, n>>]
                   = reg'[<<frames'[i].tab, n>>]
      <4>1. frames'[i] = frames[i]
        BY <2>1
      <4>2. prog[frames[j].at].reg[<<frames[i].tab, n>>] = reg[<<frames[i].tab, n>>]
        BY <2>1, <2>3 DEF OpenLetInv
      <4>3. reg'[<<frames[i].tab, n>>] = reg[<<frames[i].tab, n>>]
        BY <2>3
      <4> QED BY <3>1, <4>1, <4>2, <4>3
    <3>5. frames'[j] = frames[j]
      OBVIOUS
    <3> QED BY <2>3, <3>1, <3>2, <3>3, <3>4, <3>5
  <2>4. frames[j].kind \in {"block", "let"}
    BY <2>1, Parts
  <2> QED BY <2>1, <2>2, <2>3, <2>4
<1> QED BY <1>2 DEF OpenLetInv

(* Opening a block keeps the invariant of the parser. *)
LEMMA OpenBlockParserInv ==
  ASSUME TypeOK, TypeOK', ParserInv, OpenBlock
  PROVE  ParserInv'
<1> DEFINE f == [kind |-> "block", tab |-> ntab + 1, at |-> 0]
<1>1. PICK n \in Nat : n = Len(frames)
  BY Parts
<1>2. frames' = Append(frames, f) /\ f \in FrameType /\ ntab' = ntab + 1
  BY BoundAssumption DEF OpenBlock, FrameType, Table, TypeOK
<1>3. /\ Len(frames') = n + 1
      /\ \A i \in 1 .. n : frames'[i] = frames[i]
      /\ frames'[n + 1].kind = "block"
      /\ frames'[n + 1].tab = ntab + 1
      /\ frames'[n + 1].at = 0
  BY <1>1, <1>2, Pushing
<1>4. reg' = reg /\ prog' = prog /\ mode = "parse" /\ mode' = "parse"
  BY DEF OpenBlock, Parsing
<1>5. FramesInv'
  <2>1. ASSUME NEW j \in 1 .. Len(frames')
        PROVE  /\ frames'[j].tab <= ntab'
               /\ frames'[j].kind = "block" =>
                    \A i \in 1 .. j - 1 : frames'[i].tab < frames'[j].tab
               /\ frames'[j].kind = "let" =>
                    /\ j > 1
                    /\ frames'[j - 1].kind = "block"
                    /\ frames'[j - 1].tab = frames'[j].tab
    <3>1. \A i \in 1 .. n : frames[i].tab \in Nat /\ frames[i].tab <= ntab /\ ntab \in Nat
      BY <1>1, Parts DEF ParserInv, FramesInv
    <3>2. CASE j \in 1 .. n
      BY <1>1, <1>2, <1>3, <3>1, <3>2 DEF ParserInv, FramesInv
    <3>3. CASE j = n + 1
      BY <1>1, <1>2, <1>3, <3>1, <3>3, Parts
    <3> QED BY <3>2, <3>3, <1>3
  <2> QED BY <2>1, <1>1, <1>3, <1>4 DEF FramesInv
<1>6. OpenLetInv'
  <2>1. ASSUME NEW j \in 1 .. n
        PROVE  frames'[j] = frames[j] /\ \A i \in 1 .. j : frames'[i] = frames[i]
    BY <1>3
  <2>2. ASSUME NEW j \in 1 .. n + 1
        PROVE  /\ frames'[j].kind = "block" => frames'[j].at = 0
               /\ frames'[j].kind = "let" =>
                    /\ frames'[j].at \in 1 .. Len(prog)
                    /\ prog[frames'[j].at].op = "letbegin"
                    /\ prog[frames'[j].at].ents \subseteq {frames'[j].tab} \X Name
                    /\ \A i \in 1 .. j : \A m \in Name :
                         prog[frames'[j].at].reg[<<frames'[i].tab, m>>]
                           = reg[<<frames'[i].tab, m>>]
    <3>1. CASE j \in 1 .. n
      BY <3>1, <2>1, <1>1 DEF ParserInv, OpenLetInv
    <3>2. CASE j = n + 1
      BY <3>2, <1>3
    <3> QED BY <3>1, <3>2
  <2> QED BY <2>2, <1>1, <1>3, <1>4 DEF OpenLetInv
<1>7. LetInv'
  BY <1>1, <1>3, <1>4 DEF ParserInv, LetInv
<1> QED
  BY <1>4, <1>5, <1>6, <1>7
  DEF ParserInv, SnapInv, UseInv, CallInv, Snap, Binds, AtEntry

(* Closing a block keeps the invariant of the parser. *)
LEMMA CloseBlockParserInv ==
  ASSUME TypeOK, ParserInv, CloseBlock
  PROVE  ParserInv'
<1>1. /\ reg' = reg /\ prog' = prog /\ ntab' = ntab /\ mode' = "parse"
      /\ Len(frames) > 1 /\ frames[Len(frames)].kind = "block"
      /\ frames' = SubSeq(frames, 1, Len(frames) - 1)
  BY DEF CloseBlock, Parsing, Top
<1>2. PICK n \in Nat : n = Len(frames)
  BY Parts
<1>3. Len(frames') = n - 1 /\ \A i \in 1 .. n - 1 : frames'[i] = frames[i]
  BY <1>1, <1>2, Popping
<1>4. FramesInv'
  BY <1>1, PoppingKeepsFrames DEF ParserInv
<1>5. OpenLetInv'
  BY <1>1, <1>2, <1>3, OpenLetsKeep DEF ParserInv
<1>6. LetInv'
  <2>1. ASSUME NEW p \in 1 .. Len(prog), NEW j \in 1 .. n,
               frames[j].kind = "let", frames[j].at = p
        PROVE  j \in 1 .. Len(frames') /\ frames'[j].kind = "let" /\ frames'[j].at = p
    BY <2>1, <1>1, <1>2, <1>3
  <2> QED BY <2>1, <1>1, <1>2 DEF ParserInv, LetInv
<1> QED
  BY <1>1, <1>4, <1>5, <1>6
  DEF ParserInv, SnapInv, UseInv, CallInv, Snap, Binds, AtEntry

(* Recording a use or a call: nothing is registered, no frame moves. *)
LEMMA ReferenceParserInv ==
  ASSUME TypeOK, ParserInv, NEW op \in {"use", "call"},
         NEW S \in SUBSET Entry, NEW k \in Nat,
         mode' = mode, frames' = frames, ntab' = ntab, reg' = reg,
         prog' = Append(prog, Element(op, S, k)),
         op = "call" => S = ParamEntry,
         op = "use" =>
           \A e \in S : /\ reg[e] > 0
                        /\ k > 0 => k \in 1 .. Len(prog) /\ prog[k].reg[e] = reg[e]
  PROVE  ParserInv'
<1> DEFINE el == Element(op, S, k)
<1>1. reg' = [e \in Entry |-> IF op \in {"letend", "letzero"} /\ e \in S
                                THEN reg[e] + 1 ELSE reg[e]]
  BY DEF TypeOK
<1>2. /\ SnapInv'
      /\ Len(prog') = Len(prog) + 1
      /\ \A p \in 1 .. Len(prog) : prog'[p] = prog[p]
      /\ prog'[Len(prog) + 1] = el
  BY <1>1, Recording DEF ParserInv
<1>3. el.op = op /\ el.ents = S /\ el.let = k /\ el.reg = reg
  BY DEF Element
<1>4. UseInv' /\ CallInv'
  <2> HIDE DEF el
  <2> QED BY <1>2, <1>3, RecordingKeeps DEF ParserInv
<1>5. LetInv'
  BY <1>2, <1>3, LetsKeep, Parts DEF ParserInv
<1>6. OpenLetInv'
  BY <1>2, OpenLetsKeep, Parts DEF ParserInv
<1>7. FramesInv'
  BY DEF ParserInv, FramesInv
<1> QED BY <1>2, <1>4, <1>5, <1>6, <1>7 DEF ParserInv

(* Parsing a reference keeps the invariant of the parser. *)
LEMMA ParseUseParserInv ==
  ASSUME TypeOK, ParserInv, NEW n \in Name, ParseUse(n)
  PROVE  ParserInv'
<1>1. PICK i \in Visible(n) :
         prog' = Append(prog, Element("use", {<<frames[i].tab, n>>}, Top.at))
  BY DEF ParseUse
<1> DEFINE e == <<frames[i].tab, n>>
<1>2. i \in 1 .. Len(frames) /\ reg[e] > 0 /\ e \in Entry
  BY Parts DEF Visible, Entry
<1>3. Len(frames) \in Nat \ {0} /\ Top \in FrameType /\ Top.at \in Nat
  BY Parts DEF ParserInv, FramesInv, Top
<1>4. Top.at > 0 => Top.at \in 1 .. Len(prog) /\ prog[Top.at].reg[e] = reg[e]
  <2>1. Top.at > 0 => Top.kind = "let"
    BY <1>3, Parts DEF ParserInv, OpenLetInv, Top
  <2> QED BY <1>2, <1>3, <2>1 DEF ParserInv, OpenLetInv, Top
<1>5. mode' = mode /\ frames' = frames /\ ntab' = ntab /\ reg' = reg
  BY DEF ParseUse, Parsing
<1>6. {e} \in SUBSET Entry
  BY <1>2
<1> QED
  BY <1>1, <1>2, <1>3, <1>4, <1>5, <1>6, ReferenceParserInv

(* Parsing a recursive call keeps the invariant of the parser. *)
LEMMA ParseRecursiveCallParserInv ==
  ASSUME TypeOK, ParserInv, ParseRecursiveCall
  PROVE  ParserInv'
<1>1. /\ mode' = mode /\ frames' = frames /\ ntab' = ntab /\ reg' = reg
      /\ prog' = Append(prog, Element("call", ParamEntry, 0))
  BY DEF ParseRecursiveCall, Parsing
<1> QED BY <1>1, ParamEntryIsEntry, ReferenceParserInv

(* A let without a right-hand side keeps the invariant of the parser. *)
LEMMA ParseLetZeroParserInv ==
  ASSUME TypeOK, TypeOK', ParserInv, NEW P \in Pattern, ParseLetZero(P)
  PROVE  ParserInv'
<1> DEFINE S == {Top.tab} \X P
           el == Element("letzero", S, 0)
<1>1. Len(frames) \in Nat \ {0} /\ Top.tab \in Table /\ S \in SUBSET Entry
  BY Parts DEF ParserInv, FramesInv, Top, Pattern, Entry
<1>2. /\ mode' = mode /\ frames' = frames /\ ntab' = ntab
      /\ prog' = Append(prog, el) /\ Top.kind = "block"
      /\ reg' = [e \in Entry |-> IF e \in S THEN reg[e] + 1 ELSE reg[e]]
  BY DEF ParseLetZero, Parsing, Register
<1>3. /\ SnapInv'
      /\ Len(prog') = Len(prog) + 1
      /\ \A p \in 1 .. Len(prog) : prog'[p] = prog[p]
      /\ prog'[Len(prog) + 1] = el
      /\ \A e \in Entry : reg[e] <= reg'[e]
  <2>1. reg' = [e \in Entry |-> IF "letzero" \in {"letend", "letzero"} /\ e \in S
                                  THEN reg[e] + 1 ELSE reg[e]]
    BY <1>2
  <2> HIDE DEF S
  <2> QED BY <1>1, <1>2, <2>1, Recording DEF ParserInv
<1>4. el.op = "letzero"
  BY DEF Element
<1>5. UseInv' /\ CallInv'
  <2> HIDE DEF el
  <2> QED BY <1>3, <1>4, RecordingKeeps DEF ParserInv
<1>6. LetInv'
  <2> HIDE DEF el
  <2>1. \A e \in Entry : reg'[e] \in Nat
    BY DEF TypeOK
  <2> QED BY <1>2, <1>3, <1>4, <2>1, LetsKeep DEF ParserInv
<1>7. OpenLetInv'
  <2>1. ASSUME NEW j \in 1 .. Len(frames), frames[j].kind = "let",
               NEW i \in 1 .. j, NEW n \in Name
        PROVE  reg'[<<frames[i].tab, n>>] = reg[<<frames[i].tab, n>>]
    <3>1. i < Len(frames) /\ i \in 1 .. Len(frames)
      BY <1>1, <1>2, <2>1 DEF Top
    <3>2. frames[i].tab < Top.tab /\ frames[i].tab \in Nat /\ frames[i].tab \in Table
      BY <1>1, <1>2, <3>1, Parts DEF ParserInv, FramesInv, Top
    <3>3. <<frames[i].tab, n>> \notin S
      BY <3>2
    <3>4. <<frames[i].tab, n>> \in Entry
      BY <3>2 DEF Entry
    <3> QED BY <1>2, <3>3, <3>4
  <2> HIDE DEF el
  <2>2. /\ Len(frames') \in 0 .. Len(frames)
        /\ \A i \in 1 .. Len(frames') : frames'[i] = frames[i]
        /\ Len(prog') \in Nat /\ Len(prog') >= Len(prog)
    BY <1>2, <1>3, Parts
  <2> QED BY <1>2, <1>3, <2>1, <2>2, OpenLetsKeep DEF ParserInv
<1>8. FramesInv'
  BY <1>2 DEF ParserInv, FramesInv
<1> QED BY <1>3, <1>5, <1>6, <1>7, <1>8 DEF ParserInv

(* Meeting the pattern of a let keeps the invariant of the parser. *)
LEMMA BeginLetParserInv ==
  ASSUME TypeOK, TypeOK', ParserInv, NEW P \in Pattern, BeginLet(P)
  PROVE  ParserInv'
<1> DEFINE S == {Top.tab} \X P
           el == Element("letbegin", S, 0)
           f == [kind |-> "let", tab |-> Top.tab, at |-> Len(prog) + 1]
<1>1. PICK n \in Nat : n = Len(frames)
  BY Parts
<1>2. /\ Len(frames) \in Nat \ {0} /\ Top.tab \in Table /\ S \in SUBSET Entry
      /\ Top = frames[n] /\ Top.kind = "block"
  BY <1>1, Parts DEF ParserInv, FramesInv, Top, Pattern, Entry, BeginLet
<1>3. /\ mode' = mode /\ mode = "parse" /\ ntab' = ntab /\ reg' = reg
      /\ prog' = Append(prog, el) /\ frames' = Append(frames, f)
  BY DEF BeginLet, Parsing
<1>4. /\ SnapInv'
      /\ Len(prog') = Len(prog) + 1
      /\ \A p \in 1 .. Len(prog) : prog'[p] = prog[p]
      /\ prog'[Len(prog) + 1] = el
  <2>1. reg' = [e \in Entry |-> IF "letbegin" \in {"letend", "letzero"} /\ e \in S
                                  THEN reg[e] + 1 ELSE reg[e]]
    BY <1>3 DEF TypeOK
  <2> HIDE DEF S
  <2> QED BY <1>2, <1>3, <2>1, Recording DEF ParserInv
<1>5. el.op = "letbegin" /\ el.reg = reg /\ el.ents = S
  BY DEF Element
<1>6. UseInv' /\ CallInv'
  <2> HIDE DEF el
  <2> QED BY <1>4, <1>5, RecordingKeeps DEF ParserInv
<1>7. /\ Len(frames') = n + 1
      /\ \A i \in 1 .. n : frames'[i] = frames[i]
      /\ frames'[n + 1].kind = "let"
      /\ frames'[n + 1].tab = Top.tab
      /\ frames'[n + 1].at = Len(prog) + 1
  <2>1. f \in FrameType
    BY <1>2, Parts DEF FrameType
  <2> QED BY <1>1, <1>3, <2>1, Pushing
<1>8. FramesInv'
  <2>1. ASSUME NEW j \in 1 .. Len(frames')
        PROVE  /\ frames'[j].tab <= ntab'
               /\ frames'[j].kind = "block" =>
                    \A i \in 1 .. j - 1 : frames'[i].tab < frames'[j].tab
               /\ frames'[j].kind = "let" =>
                    /\ j > 1
                    /\ frames'[j - 1].kind = "block"
                    /\ frames'[j - 1].tab = frames'[j].tab
    <3>1. CASE j \in 1 .. n
      BY <1>1, <1>3, <1>7, <3>1 DEF ParserInv, FramesInv
    <3>2. CASE j = n + 1
      BY <1>1, <1>2, <1>3, <1>7, <3>2 DEF ParserInv, FramesInv
    <3> QED BY <3>1, <3>2, <1>7
  <2> QED BY <2>1, <1>1, <1>3, <1>7 DEF FramesInv
<1>9. OpenLetInv'
  <2>1. ASSUME NEW j \in 1 .. Len(frames')
        PROVE  /\ frames'[j].kind = "block" => frames'[j].at = 0
               /\ frames'[j].kind = "let" =>
                    /\ frames'[j].at \in 1 .. Len(prog')
                    /\ prog'[frames'[j].at].op = "letbegin"
                    /\ prog'[frames'[j].at].ents \subseteq {frames'[j].tab} \X Name
                    /\ \A i \in 1 .. j : \A m \in Name :
                         prog'[frames'[j].at].reg[<<frames'[i].tab, m>>]
                           = reg'[<<frames'[i].tab, m>>]
    <3>1. CASE j \in 1 .. n
      <4>1. j \in 1 .. Len(frames) /\ \A i \in 1 .. j : frames'[i] = frames[i]
        BY <1>1, <1>7, <3>1
      <4>2. CASE frames[j].kind = "block"
        BY <4>1, <4>2 DEF ParserInv, OpenLetInv
      <4>3. CASE frames[j].kind = "let"
        <5>1. frames[j].at \in 1 .. Len(prog) /\ prog'[frames[j].at] = prog[frames[j].at]
          BY <1>4, <4>1, <4>3 DEF ParserInv, OpenLetInv
        <5>2. frames[j].at \in 1 .. Len(prog')
          BY <1>4, <5>1, Parts
        <5>3. /\ prog[frames[j].at].op = "letbegin"
              /\ prog[frames[j].at].ents \subseteq {frames[j].tab} \X Name
              /\ \A i \in 1 .. j : \A m \in Name :
                   prog[frames[j].at].reg[<<frames[i].tab, m>>] = reg[<<frames[i].tab, m>>]
          BY <4>1, <4>3 DEF ParserInv, OpenLetInv
        <5> HIDE DEF el, S, f
        <5>4. frames'[j] = frames[j]
          BY <1>7, <3>1
        <5>5. ASSUME NEW i \in 1 .. j, NEW m \in Name
              PROVE  prog'[frames[j].at].reg[<<frames'[i].tab, m>>]
                       = reg'[<<frames'[i].tab, m>>]
          <6>1. frames'[i] = frames[i]
            BY <4>1
          <6> QED BY <1>3, <5>1, <5>3, <6>1
        <5> QED BY <4>3, <5>1, <5>2, <5>3, <5>4, <5>5
      <4> QED BY <4>1, <4>2, <4>3, Parts
    <3>2. CASE j = n + 1
      <4>1. S \subseteq {Top.tab} \X Name
        BY DEF Pattern
      <4> HIDE DEF el, S, f
      <4>2. frames'[j].kind = "let" /\ frames'[j].tab = Top.tab /\ frames'[j].at = Len(prog) + 1
        BY <1>7, <3>2
      <4>3. frames'[j].at \in 1 .. Len(prog') /\ prog'[frames'[j].at] = el
        BY <1>4, <4>2, Parts
      <4> QED BY <1>3, <1>5, <4>1, <4>2, <4>3
    <3> QED BY <3>1, <3>2, <1>7
  <2> QED BY <2>1 DEF OpenLetInv
<1>10. LetInv'
  <2> HIDE DEF el, S
  <2>1. ASSUME NEW p \in 1 .. Len(prog'), prog'[p].op = "letbegin"
        PROVE  \/ \E j \in 1 .. Len(frames') : frames'[j].kind = "let" /\ frames'[j].at = p
               \/ \A e \in prog'[p].ents : prog'[p].reg[e] < reg'[e]
    <3>1. CASE p \in 1 .. Len(prog)
      BY <1>1, <1>3, <1>4, <1>7, <2>1, <3>1 DEF ParserInv, LetInv
    <3>2. CASE p = Len(prog) + 1
      BY <1>7, <3>2
    <3> QED BY <1>4, <3>1, <3>2, Parts
  <2> QED BY <2>1 DEF LetInv
<1> QED BY <1>4, <1>6, <1>8, <1>9, <1>10 DEF ParserInv

(* make_let_stmt keeps the invariant of the parser. *)
LEMMA EndLetParserInv ==
  ASSUME TypeOK, TypeOK', ParserInv, EndLet
  PROVE  ParserInv'
<1> DEFINE S == prog[Top.at].ents
           el == Element("letend", S, 0)
<1>1. PICK n \in Nat : n = Len(frames)
  BY Parts
<1>2. /\ n > 1 /\ Top = frames[n] /\ Top.kind = "let" /\ Top.tab \in Table
      /\ frames[n - 1].kind = "block" /\ frames[n - 1].tab = Top.tab
      /\ Top.at \in 1 .. Len(prog)
      /\ S \subseteq {Top.tab} \X Name /\ S \in SUBSET Entry
  BY <1>1, Parts DEF ParserInv, FramesInv, OpenLetInv, Top, Entry, EndLet
<1>3. /\ mode' = "parse" /\ ntab' = ntab
      /\ prog' = Append(prog, el) /\ frames' = SubSeq(frames, 1, Len(frames) - 1)
      /\ reg' = [e \in Entry |-> IF e \in S THEN reg[e] + 1 ELSE reg[e]]
  BY DEF EndLet, Parsing, Register
<1>4. /\ SnapInv'
      /\ Len(prog') = Len(prog) + 1
      /\ \A p \in 1 .. Len(prog) : prog'[p] = prog[p]
      /\ prog'[Len(prog) + 1] = el
      /\ \A e \in Entry : reg[e] <= reg'[e]
  <2>1. reg' = [e \in Entry |-> IF "letend" \in {"letend", "letzero"} /\ e \in S
                                  THEN reg[e] + 1 ELSE reg[e]]
    BY <1>3
  <2> HIDE DEF S
  <2> QED BY <1>2, <1>3, <2>1, Recording DEF ParserInv
<1>5. el.op = "letend"
  BY DEF Element
<1>6. UseInv' /\ CallInv'
  <2> HIDE DEF el
  <2> QED BY <1>4, <1>5, RecordingKeeps DEF ParserInv
<1>7. Len(frames') = n - 1 /\ \A i \in 1 .. n - 1 : frames'[i] = frames[i]
  BY <1>1, <1>2, <1>3, Popping
<1>8. FramesInv'
  BY <1>1, <1>2, <1>3, PoppingKeepsFrames DEF ParserInv
<1>9. OpenLetInv'
  <2>1. ASSUME NEW j \in 1 .. n - 1, frames[j].kind = "let",
               NEW i \in 1 .. j, NEW m \in Name
        PROVE  reg'[<<frames[i].tab, m>>] = reg[<<frames[i].tab, m>>]
    <3>1. j < n - 1 /\ i \in 1 .. n - 2 /\ i \in 1 .. Len(frames) /\ n - 1 \in 1 .. Len(frames)
      BY <1>1, <1>2, <2>1
    <3>5. \A x \in 1 .. (n - 1) - 1 : frames[x].tab < frames[n - 1].tab
      BY <1>2, <3>1 DEF ParserInv, FramesInv
    <3>2. frames[i].tab < Top.tab /\ frames[i].tab \in Nat /\ frames[i].tab \in Table
      BY <1>1, <1>2, <3>1, <3>5, Parts
    <3>3. <<frames[i].tab, m>> \notin S
      BY <1>2, <3>2 DEF Table
    <3>4. <<frames[i].tab, m>> \in Entry
      BY <3>2 DEF Entry
    <3> QED BY <1>3, <3>3, <3>4
  <2> HIDE DEF el
  <2>2. /\ Len(frames') \in 0 .. Len(frames)
        /\ \A i \in 1 .. Len(frames') : frames'[i] = frames[i]
        /\ Len(prog') \in Nat /\ Len(prog') >= Len(prog)
    BY <1>1, <1>2, <1>4, <1>7, Parts
  <2> QED BY <1>4, <1>7, <2>1, <2>2, OpenLetsKeep DEF ParserInv
<1>10. LetInv'
  <2> HIDE DEF el
  <2>1. ASSUME NEW p \in 1 .. Len(prog'), prog'[p].op = "letbegin"
        PROVE  \/ \E j \in 1 .. Len(frames') : frames'[j].kind = "let" /\ frames'[j].at = p
               \/ \A e \in prog'[p].ents : prog'[p].reg[e] < reg'[e]
    <3>1. p \in 1 .. Len(prog) /\ prog'[p] = prog[p]
      BY <1>4, <1>5, <2>1, Parts
    <3>2. \A e \in prog[p].ents :
            e \in Entry /\ prog[p].reg[e] \in Nat /\ reg[e] \in Nat /\ prog[p].reg[e] <= reg[e]
      BY <3>1, Parts DEF ParserInv, SnapInv
    <3>3. CASE p = Top.at
      BY <1>3, <3>1, <3>2, <3>3
    <3>4. CASE \A e \in prog[p].ents : prog[p].reg[e] < reg[e]
      BY <1>3, <3>1, <3>2, <3>4
    <3>5. ASSUME p # Top.at, NEW j \in 1 .. Len(frames), frames[j].kind = "let", frames[j].at = p
          PROVE  j \in 1 .. Len(frames') /\ frames'[j].kind = "let" /\ frames'[j].at = p
      BY <3>5, <1>1, <1>2, <1>7
    <3> QED BY <2>1, <3>1, <3>3, <3>4, <3>5 DEF ParserInv, LetInv
  <2> QED BY <2>1 DEF LetInv
<1> QED BY <1>4, <1>6, <1>8, <1>9, <1>10 DEF ParserInv

(* The invariant of the parser holds when the body is begun. *)
LEMMA InitParserInv == Init => ParserInv
<1> SUFFICES ASSUME Init PROVE ParserInv
  OBVIOUS
<1>1. /\ Len(frames) = 1 /\ frames[1].kind = "block" /\ frames[1].tab = 1
      /\ frames[1].at = 0 /\ ntab = 1 /\ mode = "parse"
      /\ Len(prog) = 0 /\ reg = AtEntry
  BY DEF Init, AtEntry
<1> QED
  BY <1>1 DEF ParserInv, FramesInv, OpenLetInv, SnapInv, UseInv, CallInv, LetInv, Snap

(* Every step keeps the invariant of the parser. *)
LEMMA NextParserInv == TypeOK /\ TypeOK' /\ ParserInv /\ [Next]_vars => ParserInv'
<1> SUFFICES ASSUME TypeOK, TypeOK', ParserInv, [Next]_vars PROVE ParserInv'
  OBVIOUS
<1>1. ASSUME UNCHANGED parser, mode' # "parse" => mode # "parse" \/ Len(frames) = 1
      PROVE  ParserInv'
  <2>1. frames' = frames /\ ntab' = ntab /\ reg' = reg /\ prog' = prog
    BY <1>1 DEF parser
  <2>2. FramesInv'
    BY <1>1, <2>1 DEF ParserInv, FramesInv
  <2>3. OpenLetInv' /\ LetInv'
    BY <2>1 DEF ParserInv, OpenLetInv, LetInv
  <2>4. SnapInv' /\ UseInv' /\ CallInv'
    BY <2>1 DEF ParserInv, SnapInv, UseInv, CallInv, Snap, Binds, AtEntry
  <2> QED BY <2>2, <2>3, <2>4 DEF ParserInv
<1>2. CASE EndParse
  BY <1>1, <1>2 DEF EndParse, parser
<1>3. CASE ReadFormal \/ ReadSelf \/ EnterFunction
  BY <1>1, <1>3 DEF ReadFormal, ReadSelf, EnterFunction
<1>4. CASE LeaveFunction
  BY <1>1, <1>4 DEF LeaveFunction
<1>5. CASE \/ WalkUse \/ WalkRecursiveCall \/ LetForward \/ InferBack \/ InferRead
           \/ InferForward \/ LetWalkRight \/ LetBind
  BY <1>1, <1>5 DEF WalkUse, WalkRecursiveCall, LetForward, InferBack, InferRead,
                    InferForward, LetWalkRight, LetBind, Walking
<1>6. CASE UNCHANGED vars
  BY <1>1, <1>6 DEF vars, parser
<1> QED
  BY <1>2, <1>3, <1>4, <1>5, <1>6, OpenBlockParserInv, CloseBlockParserInv,
     ParseUseParserInv, ParseRecursiveCallParserInv, ParseLetZeroParserInv,
     BeginLetParserInv, EndLetParserInv
  DEF Next

(***************************************************************************)
(* The walk's part of the invariant.                                       *)
(***************************************************************************)
LEMMA ForwardRings ==
  ASSUME TypeOK, NEW S, RotateForward(S), NEW e \in Entry, NEW k,
         Ring(varlist[e], current[e], reg[e], k),
         e \in S => k < reg[e]
  PROVE  Ring(varlist'[e], current'[e], reg[e], IF e \in S THEN k + 1 ELSE k)
<1>1. varlist[e] \in Seq(Nat) /\ current[e] \in Nat /\ reg[e] \in Nat /\ k \in 0 .. reg[e]
  BY Parts DEF Ring
<1>2. CASE e \in S
  <2>1. k \in 0 .. reg[e] - 1
    BY <1>1, <1>2
  <2>2. Ring(RotFwdList(varlist[e], current[e]), RotFwdCurrent(varlist[e], current[e]),
             reg[e], k + 1)
    BY <1>1, <2>1, RotateForwardMovesCut
  <2> QED BY <1>2, <2>2 DEF RotateForward
<1>3. CASE e \notin S
  BY <1>3 DEF RotateForward
<1> QED BY <1>2, <1>3

(* Rotating the entries of a pattern back moves each of their cuts back. *)
LEMMA BackRings ==
  ASSUME TypeOK, NEW S, RotateBack(S), NEW e \in Entry, NEW k,
         Ring(varlist[e], current[e], reg[e], k),
         e \in S => k > 0
  PROVE  Ring(varlist'[e], current'[e], reg[e], IF e \in S THEN k - 1 ELSE k)
<1>1. varlist[e] \in Seq(Nat) /\ current[e] \in Nat /\ reg[e] \in Nat /\ k \in 0 .. reg[e]
  BY Parts DEF Ring
<1>2. CASE e \in S
  <2>1. k \in 1 .. reg[e]
    BY <1>1, <1>2
  <2>2. Ring(RotBackList(varlist[e], current[e]), RotBackCurrent(varlist[e], current[e]),
             reg[e], k - 1)
    BY <1>1, <2>1, RotateBackMovesCut
  <2> QED BY <1>2, <2>2 DEF RotateBack
<1>3. CASE e \notin S
  BY <1>3 DEF RotateBack
<1> QED BY <1>2, <1>3

(* Registering the names of a pattern extends each of their rings. *)
LEMMA RegisterRings ==
  ASSUME TypeOK, NEW S, Register(S), NEW e \in Entry,
         Ring(varlist[e], current[e], reg[e], 0)
  PROVE  Ring(varlist'[e], current'[e], reg'[e], 0)
<1>1. varlist[e] \in Seq(Nat) /\ current[e] \in Nat /\ reg[e] \in Nat
  BY Parts
<1>2. CASE e \in S
  <2>1. /\ varlist'[e] = IF reg[e] > 0 THEN Append(varlist[e], current[e]) ELSE varlist[e]
        /\ current'[e] = reg[e] + 1 /\ reg'[e] = reg[e] + 1
    BY <1>2 DEF Register
  <2> QED BY <1>1, <2>1, RegisterExtendsRing
<1>3. CASE e \notin S
  BY <1>3 DEF Register
<1> QED BY <1>2, <1>3

(* where a walk stands, and what the snapshots around it are *)
LEMMA WalkPosition ==
  ASSUME TypeOK, ParserInv, WalkInv, NEW op, At(op)
  PROVE  /\ pc \in 1 .. Len(prog) /\ mode = "walk"
         /\ prog[pc].ents \subseteq Entry
         /\ op # "letbegin" => step = "start"
         /\ \A e \in Entry :
              /\ Snap(pc)[e] = prog[pc].reg[e]
              /\ Snap(pc)[e] \in Nat /\ reg[e] \in Nat /\ Snap(pc)[e] <= reg[e]
              /\ Snap(pc + 1)[e] = Snap(pc)[e]
                                     + IF Binds(pc) /\ e \in prog[pc].ents THEN 1 ELSE 0
              /\ Snap(pc + 1)[e] \in Nat /\ Snap(pc + 1)[e] <= reg[e]
<1>1. pc \in 1 .. Len(prog) /\ mode = "walk"
  BY Parts DEF At, WalkInv
<1>2. op # "letbegin" => step = "start"
  BY DEF At, WalkInv
<1>3. ASSUME NEW e \in Entry
      PROVE  /\ Snap(pc)[e] = prog[pc].reg[e]
             /\ Snap(pc)[e] \in Nat /\ reg[e] \in Nat /\ Snap(pc)[e] <= reg[e]
             /\ Snap(pc + 1)[e] = Snap(pc)[e]
                                    + IF Binds(pc) /\ e \in prog[pc].ents THEN 1 ELSE 0
  <2>1. Snap(pc) = prog[pc].reg /\ prog[pc].reg[e] \in Nat /\ reg[e] \in Nat
    BY <1>1, Parts DEF Snap
  <2> QED BY <1>1, <2>1 DEF ParserInv, SnapInv
<1>4. ASSUME NEW e \in Entry
      PROVE  Snap(pc + 1)[e] \in Nat /\ Snap(pc + 1)[e] <= reg[e]
  <2>1. pc + 1 \in 1 .. Len(prog) \/ Snap(pc + 1) = reg
    BY <1>1, Parts DEF Snap
  <2>2. CASE pc + 1 \in 1 .. Len(prog)
    BY <2>2, Parts DEF Snap, ParserInv, SnapInv
  <2>3. CASE Snap(pc + 1) = reg
    BY <2>3, Parts
  <2> QED BY <2>1, <2>2, <2>3
<1> QED BY <1>1, <1>2, <1>3, <1>4, Parts

(* Outside a walk the parser's cut is kept. *)
LEMMA ParsingWalkInv ==
  ASSUME TypeOK, WalkInv, mode = "parse", UNCHANGED <<mode, pc, step>>,
         \/ UNCHANGED <<reg, varlist, current>>
         \/ \E S \in SUBSET Entry : Register(S)
  PROVE  WalkInv'
<1>1. step' = "start" /\ pc' = 0 /\ mode' = "parse"
  BY DEF WalkInv, At
<1>2. ASSUME NEW e \in Entry PROVE Ring(varlist'[e], current'[e], reg'[e], Offset(e)')
  <2>1. Offset(e) = 0 /\ Offset(e)' = 0 /\ Ring(varlist[e], current[e], reg[e], 0)
    BY <1>1 DEF Offset, WalkInv
  <2>2. CASE UNCHANGED <<reg, varlist, current>>
    BY <2>1, <2>2
  <2>3. CASE \E S \in SUBSET Entry : Register(S)
    BY <2>1, <2>3, RegisterRings
  <2> QED BY <2>2, <2>3
<1>3. Entry' = Entry
  BY DEF Entry, Table
<1> QED BY <1>1, <1>2, <1>3 DEF WalkInv

(* An element that is passed without a rotation. *)
LEMMA PassingWalkInv ==
  ASSUME TypeOK, ParserInv, WalkInv, NEW op \in {"use", "call"}, At(op),
         UNCHANGED <<mode, parser, step, varlist, current>>, pc' = pc + 1
  PROVE  WalkInv'
<1>1. reg' = reg /\ prog' = prog /\ varlist' = varlist /\ current' = current
  BY DEF parser
<1>2. step = "start" /\ step' = "start" /\ mode' = "walk" /\ pc' \in 1 .. Len(prog') + 1
  BY <1>1, WalkPosition, Parts
<1>3. ASSUME NEW e \in Entry PROVE Offset(e)' = Offset(e)
  <2>1. Snap(pc + 1)[e] = Snap(pc)[e] /\ Snap(pc)[e] \in Nat
    BY WalkPosition DEF Binds, At
  <2>2. Snap(pc)' = Snap(pc + 1)
    BY <1>1 DEF Snap
  <2> QED BY <1>2, <2>1, <2>2, WalkPosition DEF Offset
<1>4. Entry' = Entry
  BY DEF Entry, Table
<1> QED BY <1>1, <1>2, <1>3, <1>4 DEF WalkInv

(* every parameter has a variant, and no walk starts before it *)
LEMMA EntryVariants ==
  ASSUME TypeOK, ParserInv
  PROVE  Snap(1) = AtEntry /\ \A e \in Entry : AtEntry[e] \in Nat /\ AtEntry[e] <= reg[e]
<1>1. Snap(1) = AtEntry
  BY DEF ParserInv, SnapInv
<1>2. CASE Len(prog) = 0
  BY <1>1, <1>2, Parts DEF Snap, AtEntry
<1>3. CASE Len(prog) > 0
  <2>1. 1 \in 1 .. Len(prog) /\ prog[1].reg = AtEntry
    BY <1>1, <1>3, Parts DEF Snap
  <2>2. \A e \in Entry : prog[1].reg[e] <= reg[e] /\ prog[1].reg[e] \in Nat
    BY <2>1, Parts DEF ParserInv, SnapInv
  <2> QED BY <1>1, <2>1, <2>2
<1> QED BY <1>2, <1>3, Parts

(* a let that is being walked has registered its variants *)
LEMMA LetRegistered ==
  ASSUME TypeOK, ParserInv, WalkInv, At("letbegin")
  PROVE  \A e \in prog[pc].ents : Snap(pc)[e] < reg[e]
<1>1. pc \in 1 .. Len(prog) /\ mode = "walk" /\ prog[pc].op = "letbegin"
      /\ \A e \in Entry : Snap(pc)[e] = prog[pc].reg[e]
  BY WalkPosition DEF At
<1>2. \A j \in 1 .. Len(frames) : frames[j].kind # "let"
  <2>1. Len(frames) = 1
    BY <1>1 DEF ParserInv, FramesInv
  <2>2. \A j \in 1 .. Len(frames) : frames[j].kind = "let" => j > 1
    BY DEF ParserInv, FramesInv
  <2> QED BY <2>1, <2>2
<1> QED BY <1>1, <1>2, Parts DEF ParserInv, LetInv

(* Entering the function puts every parameter at its first variant. *)
LEMMA EnterWalkInv ==
  ASSUME TypeOK, ParserInv, WalkInv, EnterFunction
  PROVE  WalkInv'
<1>1. /\ mode = "idle" /\ pc = 0 /\ step = "start"
      /\ mode' = "walk" /\ pc' = 1 /\ step' = "start"
      /\ reg' = reg /\ prog' = prog /\ RotateForward(ParamEntry)
  BY DEF EnterFunction, parser, WalkInv, At
<1>2. ASSUME NEW e \in Entry PROVE Ring(varlist'[e], current'[e], reg'[e], Offset(e)')
  <2>1. Ring(varlist[e], current[e], reg[e], 0)
    BY <1>1 DEF WalkInv, Offset
  <2>2. Ring(varlist'[e], current'[e], reg[e], IF e \in ParamEntry THEN 1 ELSE 0)
    <3>1. e \in ParamEntry => 0 < reg[e]
      BY EntryVariants, Parts DEF AtEntry
    <3> QED BY <1>1, <2>1, <3>1, ForwardRings
  <2>3. Snap(1)' = Snap(1) /\ Snap(pc)' = Snap(1)'
    BY <1>1 DEF Snap
  <2>4. Offset(e)' = IF e \in ParamEntry THEN 1 ELSE 0
    BY <1>1, <2>3, EntryVariants DEF Offset, AtEntry
  <2> QED BY <1>1, <2>2, <2>4
<1>3. Entry' = Entry /\ pc' \in 1 .. Len(prog') + 1
  BY <1>1, Parts DEF Entry, Table
<1> QED BY <1>1, <1>2, <1>3 DEF WalkInv

(* After the last element every entry has made a full turn. *)
LEMMA LeaveWalkInv ==
  ASSUME TypeOK, WalkInv, LeaveFunction
  PROVE  WalkInv'
<1>1. /\ mode = "walk" /\ pc = Len(prog) + 1 /\ step = "start"
      /\ mode' = "idle" /\ pc' = 0 /\ step' = "start"
      /\ reg' = reg /\ varlist' = varlist /\ current' = current
  BY Parts DEF LeaveFunction, parser, shield, WalkInv, At
<1>2. ASSUME NEW e \in Entry PROVE Ring(varlist'[e], current'[e], reg'[e], Offset(e)')
  <2>1. Snap(pc) = reg /\ reg[e] \in Nat
    BY <1>1, Parts DEF Snap
  <2>2. Offset(e) = reg[e] /\ Offset(e)' = 0
    BY <1>1, <2>1 DEF Offset
  <2>3. Ring(varlist[e], current[e], reg[e], reg[e])
    BY <2>2 DEF WalkInv
  <2> QED BY <1>1, <2>2, <2>3, FullTurn, Parts
<1>3. Entry' = Entry
  BY DEF Entry, Table
<1> QED BY <1>1, <1>2, <1>3 DEF WalkInv

(* Inside a let: the walk does not move on, the pattern rotates. *)
LEMMA LetRotationWalkInv ==
  ASSUME TypeOK, ParserInv, WalkInv, At("letbegin"), UNCHANGED <<mode, parser, pc>>,
         \/ /\ step \in {"start", "infer"} /\ RotateForward(prog[pc].ents)
            /\ step' \in {"forward", "typed"}
         \/ /\ step \in {"forward", "typed"} /\ RotateBack(prog[pc].ents)
            /\ step' = "infer"
         \/ step' = step /\ UNCHANGED <<varlist, current>>
  PROVE  WalkInv'
<1>1. /\ mode = "walk" /\ mode' = "walk" /\ pc' = pc /\ pc \in 1 .. Len(prog)
      /\ reg' = reg /\ prog' = prog
  BY WalkPosition DEF parser
<1>2. Snap(pc)' = Snap(pc)
  BY <1>1 DEF Snap
<1>3. ASSUME NEW e \in Entry PROVE Ring(varlist'[e], current'[e], reg'[e], Offset(e)')
  <2>1. Ring(varlist[e], current[e], reg[e], Offset(e)) /\ Snap(pc)[e] \in Nat
    BY WalkPosition DEF WalkInv
  <2>2. CASE /\ step \in {"start", "infer"} /\ RotateForward(prog[pc].ents)
             /\ step' \in {"forward", "typed"}
    <3>1. e \in prog[pc].ents => Snap(pc)[e] < reg[e]
      BY LetRegistered
    <3>2. Offset(e) = Snap(pc)[e]
      BY <1>1, <2>1, <2>2 DEF Offset
    <3>3. Offset(e)' = IF e \in prog[pc].ents THEN Snap(pc)[e] + 1 ELSE Snap(pc)[e]
      BY <1>1, <1>2, <2>1, <2>2 DEF Offset
    <3> QED BY <1>1, <2>1, <2>2, <3>1, <3>2, <3>3, ForwardRings
  <2>3. CASE /\ step \in {"forward", "typed"} /\ RotateBack(prog[pc].ents)
             /\ step' = "infer"
    <3>1. Offset(e) = IF e \in prog[pc].ents THEN Snap(pc)[e] + 1 ELSE Snap(pc)[e]
      BY <1>1, <2>1, <2>3 DEF Offset
    <3>2. Offset(e)' = Snap(pc)[e]
      BY <1>1, <1>2, <2>1, <2>3 DEF Offset
    <3>3. Ring(varlist'[e], current'[e], reg[e],
               IF e \in prog[pc].ents THEN Offset(e) - 1 ELSE Offset(e))
      BY <2>1, <2>3, <3>1, BackRings
    <3> QED BY <1>1, <2>1, <3>1, <3>2, <3>3
  <2>4. CASE step' = step /\ UNCHANGED <<varlist, current>>
    BY <1>1, <1>2, <2>1, <2>4 DEF Offset
  <2> QED BY <2>2, <2>3, <2>4
<1>4. Entry' = Entry /\ At("letbegin")'
  BY <1>1 DEF Entry, Table, At
<1> QED BY <1>1, <1>3, <1>4, Parts DEF WalkInv

(* To the next element: the pattern rotates back (walk_stack of the right- *)
(* hand side follows) or forward (the binding takes place).                *)
LEMMA LetAdvanceWalkInv ==
  ASSUME TypeOK, ParserInv, WalkInv, LetWalkRight \/ LetBind
  PROVE  WalkInv'
<1>1. PICK op \in {"letbegin", "letend", "letzero"} :
        /\ At(op)
        /\ op = "letbegin" => step = "typed" /\ RotateBack(prog[pc].ents)
        /\ op # "letbegin" => RotateForward(prog[pc].ents)
  BY DEF LetWalkRight, LetBind
<1>2. /\ mode = "walk" /\ mode' = "walk" /\ pc \in 1 .. Len(prog) /\ pc' = pc + 1
      /\ step' = "start" /\ reg' = reg /\ prog' = prog /\ prog[pc].op = op
  BY <1>1, WalkPosition DEF LetWalkRight, LetBind, Walking, parser, At
<1>3. Snap(pc)' = Snap(pc + 1)
  BY <1>2 DEF Snap
<1>4. ASSUME NEW e \in Entry PROVE Ring(varlist'[e], current'[e], reg'[e], Offset(e)')
  <2>1. /\ Ring(varlist[e], current[e], reg[e], Offset(e))
        /\ Snap(pc)[e] \in Nat /\ reg[e] \in Nat
        /\ Snap(pc + 1)[e] = Snap(pc)[e]
                               + IF Binds(pc) /\ e \in prog[pc].ents THEN 1 ELSE 0
        /\ Snap(pc + 1)[e] \in Nat /\ Snap(pc + 1)[e] <= reg[e]
    BY <1>1, WalkPosition DEF WalkInv
  <2>2. Offset(e)' = Snap(pc + 1)[e]
    BY <1>2, <1>3, <2>1 DEF Offset
  <2>3. CASE op = "letbegin"
    <3>1. Offset(e) = IF e \in prog[pc].ents THEN Snap(pc)[e] + 1 ELSE Snap(pc)[e]
      BY <1>1, <1>2, <2>1, <2>3 DEF Offset
    <3>2. Snap(pc + 1)[e] = Snap(pc)[e]
      BY <1>2, <2>1, <2>3 DEF Binds
    <3>3. Ring(varlist'[e], current'[e], reg[e],
               IF e \in prog[pc].ents THEN Offset(e) - 1 ELSE Offset(e))
      BY <1>1, <2>1, <2>3, <3>1, BackRings
    <3> QED BY <1>2, <2>1, <2>2, <3>1, <3>2, <3>3
  <2>4. CASE op # "letbegin"
    <3>1. Offset(e) = Snap(pc)[e]
      BY <1>1, <1>2, <2>1, <2>4, WalkPosition DEF Offset
    <3>2. Snap(pc + 1)[e] = IF e \in prog[pc].ents THEN Snap(pc)[e] + 1 ELSE Snap(pc)[e]
      BY <1>2, <2>1, <2>4 DEF Binds
    <3>3. Ring(varlist'[e], current'[e], reg[e],
               IF e \in prog[pc].ents THEN Offset(e) + 1 ELSE Offset(e))
      BY <1>1, <2>1, <2>4, <3>1, <3>2, ForwardRings
    <3> QED BY <1>2, <2>2, <3>1, <3>2, <3>3
  <2> QED BY <2>3, <2>4
<1>5. Entry' = Entry /\ pc' \in 1 .. Len(prog') + 1
  BY <1>2, Parts DEF Entry, Table
<1> QED BY <1>2, <1>4, <1>5 DEF WalkInv

(* The invariant of the walk holds before anything is parsed. *)
LEMMA InitWalkInv == Init => WalkInv
<1> SUFFICES ASSUME Init PROVE WalkInv
  OBVIOUS
<1>1. \A e \in Entry : Ring(varlist[e], current[e], reg[e], Offset(e))
  BY DEF Init, Ring, Offset, Place
<1> QED BY <1>1 DEF Init, WalkInv

(* Every step keeps the invariant of the walk. *)
LEMMA NextWalkInv == TypeOK /\ ParserInv /\ WalkInv /\ [Next]_vars => WalkInv'
<1> SUFFICES ASSUME TypeOK, ParserInv, WalkInv, [Next]_vars PROVE WalkInv'
  OBVIOUS
<1>1. ASSUME Parsing, \/ UNCHANGED <<reg, varlist, current>>
                      \/ \E S \in SUBSET Entry : Register(S)
      PROVE  WalkInv'
  BY <1>1, ParsingWalkInv DEF Parsing
<1>2. ASSUME UNCHANGED <<mode, parser, shield, pc, step>> PROVE WalkInv'
  <2>1. Entry' = Entry
    BY DEF Entry, Table
  <2> QED BY <1>2, <2>1 DEF parser, shield, WalkInv, Offset, Snap, At
<1>3. CASE OpenBlock \/ CloseBlock \/ ParseRecursiveCall
  BY <1>1, <1>3 DEF OpenBlock, CloseBlock, ParseRecursiveCall
<1>4. CASE \E n \in Name : ParseUse(n)
  BY <1>1, <1>4 DEF ParseUse
<1>5. ASSUME NEW P \in Pattern, BeginLet(P) \/ ParseLetZero(P) PROVE WalkInv'
  <2>1. {Top.tab} \X P \in SUBSET Entry
    BY Parts DEF ParserInv, FramesInv, Top, Pattern, Entry
  <2> QED BY <1>1, <1>5, <2>1 DEF BeginLet, ParseLetZero
<1>6. CASE EndLet
  <2>1. prog[Top.at].ents \in SUBSET Entry
    BY <1>6, Parts DEF ParserInv, FramesInv, OpenLetInv, Top, EndLet
  <2> QED BY <1>1, <1>6, <2>1 DEF EndLet
<1>7. CASE EndParse
  <2>1. Entry' = Entry
    BY DEF Entry, Table
  <2> QED BY <1>7, <2>1 DEF EndParse, WalkInv, Offset, At
<1>8. CASE ReadFormal
  <2>1. PICK e \in Entry : ReadFormalType("formal", e)
    BY <1>8, ParamEntryIsEntry DEF ReadFormal
  <2> QED BY <1>2, <1>8, <2>1, ReadFormalTypes DEF ReadFormal, shield
<1>9. CASE ReadSelf
  BY <1>2, <1>9 DEF ReadSelf
<1>10. CASE WalkUse
  BY <1>10, PassingWalkInv DEF WalkUse, Walking, shield
<1>11. CASE WalkRecursiveCall
  <2>1. PICK e \in Entry : ReadFormalType("recursive", e)
    BY <1>11, WalkPosition DEF WalkRecursiveCall
  <2> QED BY <1>11, <2>1, ReadFormalTypes, PassingWalkInv DEF WalkRecursiveCall, Walking
<1>12. CASE LetForward \/ InferBack \/ InferRead \/ InferForward
  BY <1>12, LetRotationWalkInv
  DEF LetForward, InferBack, InferRead, InferForward, Walking, shield
<1>13. CASE UNCHANGED vars
  BY <1>2, <1>13 DEF vars, parser, shield
<1> QED
  BY <1>3, <1>4, <1>5, <1>6, <1>7, <1>8, <1>9, <1>10, <1>11, <1>12, <1>13,
     EnterWalkInv, LeaveWalkInv, LetAdvanceWalkInv
  DEF Next

(***************************************************************************)
(* What the generator finds.                                               *)
(***************************************************************************)
LEMMA RingCurrent ==
  ASSUME NEW l, NEW c, NEW n \in Nat, NEW k \in Nat, k > 0, Ring(l, c, n, k)
  PROVE  c = k
BY DEF Ring, Place

(* where the rings of the names directly in a right-hand side are cut while *)
(* it is being typed, and those of the pattern after a rotation            *)
LEMMA UseCut ==
  ASSUME TypeOK, ParserInv, WalkInv, mode = "walk",
         NEW i \in 1 .. Len(prog), prog[i].op = "use", NEW e \in prog[i].ents,
         \/ i = pc
         \/ At("letbegin") /\ step = "infer" /\ prog[i].let = pc
  PROVE  /\ e \in Entry /\ current[e] = prog[i].reg[e]
         /\ Snap(pc)[e] = prog[i].reg[e] /\ prog[i].reg[e] > 0
<1>1. /\ e \in Entry /\ prog[i].reg[e] \in Nat /\ prog[i].reg[e] > 0
      /\ prog[i].let > 0 => prog[prog[i].let].reg[e] = prog[i].reg[e]
      /\ reg[e] \in Nat
  BY Parts DEF ParserInv, UseInv
<1>2. Snap(pc)[e] = prog[i].reg[e] /\ Offset(e) = Snap(pc)[e]
  <2>1. CASE i = pc
    <3>1. At("use")
      BY <2>1, Parts DEF At
    <3> QED BY <1>1, <2>1, <3>1, WalkPosition DEF Offset
  <2>2. CASE At("letbegin") /\ step = "infer" /\ prog[i].let = pc
    BY <1>1, <2>2, WalkPosition DEF Offset
  <2> QED BY <2>1, <2>2
<1>3. Ring(varlist[e], current[e], reg[e], prog[i].reg[e])
  BY <1>1, <1>2 DEF WalkInv
<1> QED BY <1>1, <1>2, <1>3, RingCurrent

(* The variant a pattern binds is the one after those registered before it. *)
LEMMA PatternCut ==
  ASSUME TypeOK, ParserInv, WalkInv, TypeOK', WalkInv', InferForward \/ LetBind,
         NEW e \in prog[pc].ents
  PROVE  /\ e \in Entry /\ prog[pc].reg[e] = Snap(pc)[e] /\ Snap(pc)[e] \in Nat
         /\ current'[e] = Snap(pc)[e] + 1
<1>1. PICK op \in {"letbegin", "letend", "letzero"} :
        /\ At(op)
        /\ op = "letbegin" => pc' = pc /\ step' = "typed"
        /\ op # "letbegin" => pc' = pc + 1 /\ step' = step
  BY DEF InferForward, LetBind, Walking
<1>2. /\ e \in Entry /\ prog[pc].reg[e] = Snap(pc)[e] /\ Snap(pc)[e] \in Nat
      /\ mode' = "walk" /\ prog' = prog /\ reg' = reg /\ prog[pc].op = op
      /\ reg[e] \in Nat
      /\ Snap(pc + 1)[e] = Snap(pc)[e] + IF Binds(pc) THEN 1 ELSE 0
  BY <1>1, WalkPosition DEF InferForward, LetBind, Walking, parser, At
<1>3. Offset(e)' = Snap(pc)[e] + 1
  <2>1. CASE op = "letbegin"
    BY <1>1, <1>2, <2>1 DEF Offset, Snap
  <2>2. CASE op # "letbegin"
    <3>1. Snap(pc)' = Snap(pc + 1) /\ step' = "start"
      BY <1>1, <1>2, <2>2, WalkPosition DEF Snap
    <3> QED BY <1>1, <1>2, <2>2, <3>1 DEF Offset, Binds
  <2> QED BY <2>1, <2>2
<1>4. Entry' = Entry
  BY DEF Entry, Table
<1>5. Ring(varlist'[e], current'[e], reg[e], Snap(pc)[e] + 1)
  BY <1>2, <1>3, <1>4 DEF WalkInv
<1> QED BY <1>2, <1>5, RingCurrent

(* Whatever a step looks up is what lexical scoping says is in force. *)
LEMMA NextObsInv ==
  TypeOK /\ ParserInv /\ WalkInv /\ ObsInv /\ TypeOK' /\ WalkInv' /\ [Next]_vars => ObsInv'
<1> SUFFICES ASSUME TypeOK, ParserInv, WalkInv, ObsInv, TypeOK', WalkInv', [Next]_vars
             PROVE  ObsInv'
  OBVIOUS
<1> USE DEF ObsInv, UseDenotesLexicalBinding, FormalTypeIsDeclared
<1>1. CASE UNCHANGED obs
  BY <1>1
<1>2. CASE obs' = NoObservation
  BY <1>2 DEF NoObservation
<1>3. ASSUME NEW kind, NEW e, NEW g, obs' = Observation(kind, e, g, g) PROVE ObsInv'
  BY <1>3 DEF Observation
<1>4. ASSUME NEW kind \in {"self", "recursive"}, NEW e, NEW g, NEW w,
             obs' = Observation(kind, e, g, w)
      PROVE  ObsInv'
  BY <1>4 DEF Observation
<1>5. CASE OpenBlock \/ CloseBlock \/ (\E n \in Name : ParseUse(n)) \/ ParseRecursiveCall
           \/ (\E P \in Pattern : BeginLet(P) \/ ParseLetZero(P)) \/ EndLet \/ EndParse
           \/ LetForward \/ InferBack \/ LetWalkRight \/ UNCHANGED vars
  BY <1>1, <1>5
  DEF OpenBlock, CloseBlock, ParseUse, ParseRecursiveCall, BeginLet, ParseLetZero, EndLet,
      EndParse, LetForward, InferBack, LetWalkRight, vars, Parsing
<1>6. CASE ReadFormal
  <2>1. PICK e \in ParamEntry : ReadFormalType("formal", e)
    BY <1>6 DEF ReadFormal
  <2>2. e \in Entry /\ mode = "idle"
    BY <1>6, ParamEntryIsEntry DEF ReadFormal
  <2>3. reg[e] \in Nat /\ reg[e] > 0
    BY <2>1, <2>2, EntryVariants, Parts DEF AtEntry
  <2>4. Ring(varlist[e], current[e], reg[e], 0)
    BY <2>2 DEF WalkInv, Offset
  <2>5. Ring(RotFwdList(varlist[e], current[e]), RotFwdCurrent(varlist[e], current[e]),
             reg[e], 0 + 1)
    BY <2>2, <2>3, <2>4, RotateForwardMovesCut, Parts
  <2>6. RotFwdCurrent(varlist[e], current[e]) = 1
    BY <2>3, <2>5, RingCurrent
  <2> QED BY <1>3, <2>1, <2>2, <2>6, ReadFormalTypes
<1>7. CASE ReadSelf
  BY <1>4, <1>7 DEF ReadSelf
<1>8. CASE EnterFunction \/ LeaveFunction
  BY <1>2, <1>8 DEF EnterFunction, LeaveFunction
<1>9. CASE WalkUse
  <2>1. PICK e \in prog[pc].ents : obs' = Observation("use", e, current[e], prog[pc].reg[e])
    BY <1>9 DEF WalkUse
  <2>2. current[e] = prog[pc].reg[e]
    BY <1>9, <2>1, UseCut, WalkPosition DEF WalkUse, At
  <2> QED BY <1>3, <2>1, <2>2
<1>10. CASE WalkRecursiveCall
  <2>1. PICK e \in Entry : ReadFormalType("recursive", e)
    BY <1>10, WalkPosition DEF WalkRecursiveCall
  <2> QED BY <1>4, <2>1, ReadFormalTypes
<1>11. CASE InferRead
  <2>1. PICK i \in pc + 1 .. Len(prog) :
          /\ prog[i].op = "use" /\ prog[i].let = pc
          /\ \E e \in prog[i].ents : obs' = Observation("use", e, current[e], prog[i].reg[e])
    BY <1>11 DEF InferRead
  <2>2. PICK e \in prog[i].ents : obs' = Observation("use", e, current[e], prog[i].reg[e])
    BY <2>1
  <2>3. At("letbegin") /\ step = "infer" /\ mode = "walk" /\ i \in 1 .. Len(prog)
    BY <1>11, <2>1, WalkPosition DEF InferRead
  <2>4. current[e] = prog[i].reg[e]
    BY <2>1, <2>3, UseCut
  <2> QED BY <1>3, <2>2, <2>4
<1>12. CASE InferForward
  <2>1. PICK e \in prog[pc].ents :
          obs' = Observation("type", e, current'[e], prog[pc].reg[e] + 1)
    BY <1>12 DEF InferForward
  <2>2. current'[e] = prog[pc].reg[e] + 1
    BY <1>12, PatternCut
  <2> QED BY <1>3, <2>1, <2>2
<1>13. CASE LetBind
  <2>1. PICK e \in prog[pc].ents :
          obs' = Observation("bind", e, current'[e], prog[pc].reg[e] + 1)
    BY <1>13 DEF LetBind
  <2>2. current'[e] = prog[pc].reg[e] + 1
    BY <1>13, PatternCut
  <2> QED BY <1>3, <2>1, <2>2
<1> QED
  BY <1>5, <1>6, <1>7, <1>8, <1>9, <1>10, <1>11, <1>12, <1>13 DEF Next

(* The inductive invariant holds in every reachable state. *)
LEMMA Invariance == Spec => []IInv
<1>1. Init => IInv
  <2>1. Init => ObsInv
    BY DEF Init, NoObservation, ObsInv, UseDenotesLexicalBinding, FormalTypeIsDeclared
  <2> QED BY <2>1, InitTypeOK, InitParserInv, InitWalkInv DEF IInv
<1>2. IInv /\ [Next]_vars => IInv'
  BY NextTypeOK, NextParserInv, NextWalkInv, NextObsInv DEF IInv
<1> QED BY <1>1, <1>2, PTL DEF Spec

(***************************************************************************)
(* The theorems.                                                           *)
(***************************************************************************)

(* Whatever is parsed and however often it is walked, the lists hold       *)
(* variants and the parser's stacks hold open constructs.                  *)
THEOREM TypeCorrect == Spec => []TypeOK
<1>1. IInv => TypeOK
  BY DEF IInv
<1> QED BY <1>1, Invariance, PTL

(* Every use of a name denotes the binding that was the latest when the    *)
(* parser met it, and every binding types and stores to its own variants   *)
(* (walk_id, walk_letbind), for any names, nesting and number of walks.    *)
THEOREM UsesDenoteLexicalBindings == Spec => []UseDenotesLexicalBinding
<1>1. IInv => UseDenotesLexicalBinding
  BY DEF IInv, ObsInv
<1> QED BY <1>1, Invariance, PTL

(* A walk leaves every entry as the parser left it, so a body can be       *)
(* walked again (walk_fn_define_full_withsym_generic).                     *)
THEOREM WalksRestoreParserState == Spec => []WalkRestoresParserState
<1>1. IInv => WalkRestoresParserState
  <2> SUFFICES ASSUME IInv, mode = "idle", NEW e \in Entry
               PROVE  /\ current[e] = reg[e]
                      /\ varlist[e] = [i \in 1 .. (IF reg[e] = 0 THEN 0 ELSE reg[e] - 1) |-> i]
    BY DEF WalkRestoresParserState
  <2>1. /\ Ring(varlist[e], current[e], reg[e], 0)
        /\ varlist[e] \in Seq(Nat) /\ reg[e] \in Nat
    BY Parts DEF IInv, WalkInv, Offset
  <2>2. CASE reg[e] = 0
    BY <2>1, <2>2 DEF Ring
  <2>3. CASE reg[e] > 0
    <3>1. /\ current[e] = reg[e] /\ Len(varlist[e]) = reg[e] - 1
          /\ \A i \in 1 .. reg[e] - 1 : varlist[e][i] = i
      BY <2>1, <2>3 DEF Ring, Place
    <3>2. varlist[e] = [i \in 1 .. Len(varlist[e]) |-> varlist[e][i]]
      BY <2>1, LenProperties
    <3>3. varlist[e] = [i \in 1 .. reg[e] - 1 |-> varlist[e][i]]
      BY <3>1, <3>2
    <3>4. [i \in 1 .. reg[e] - 1 |-> varlist[e][i]] = [i \in 1 .. reg[e] - 1 |-> i]
      BY <3>1
    <3>5. varlist[e] = [i \in 1 .. reg[e] - 1 |-> i]
      BY <3>3, <3>4
    <3> QED BY <2>1, <2>3, <3>1, <3>5
  <2> QED BY <2>1, <2>2, <2>3
<1> QED BY <1>1, Invariance, PTL

(* Reading a formal parameter's type while the function is not being       *)
(* walked finds the declared variant (walk_fn_declare_full_withsym,        *)
(* post_check_fn_proto, check_and_determine_param_type).                   *)
THEOREM FormalTypesAreDeclared == Spec => []FormalTypeIsDeclared
<1>1. IInv => FormalTypeIsDeclared
  BY DEF IInv, ObsInv
<1> QED BY <1>1, Invariance, PTL

(***************************************************************************)
(* The rotated lists implement sequential re-binding (LexicalBinding).     *)
(***************************************************************************)

(* the binding that is in force, as the invariant knows it *)
LEMMA InForceIs ==
  ASSUME TypeOK, ParserInv, WalkInv, NEW e \in Entry
  PROVE  InForce(e) = IF mode = "walk" THEN Snap(pc)[e] ELSE AtEntry[e]
<1>1. CASE mode # "walk"
  BY <1>1 DEF InForce, AtEntry
<1>2. CASE mode = "walk"
  <2>1. Registered = Snap(pc)
    BY DEF Registered, Snap
  <2>2. Snap(pc)[e] \in Nat /\ reg[e] \in Nat /\ varlist[e] \in Seq(Nat) /\ current[e] \in Nat
    <3>1. pc \in 1 .. Len(prog) \/ Snap(pc) = reg
      BY <1>2, Parts DEF WalkInv, Snap
    <3> QED BY <3>1, Parts DEF Snap
  <2>3. CASE Snap(pc)[e] = 0
    BY <1>2, <2>1, <2>3 DEF InForce
  <2>4. CASE Snap(pc)[e] > 0 /\ step \in {"forward", "typed"} /\ e \in prog[pc].ents
    <3>1. Ring(varlist[e], current[e], reg[e], Snap(pc)[e] + 1)
      BY <1>2, <2>4 DEF WalkInv, Offset
    <3>2. Snap(pc)[e] + 1 \in 1 .. reg[e]
      BY <2>2, <3>1 DEF Ring
    <3>3. Ring(RotBackList(varlist[e], current[e]), RotBackCurrent(varlist[e], current[e]),
               reg[e], (Snap(pc)[e] + 1) - 1)
      BY <2>2, <3>1, <3>2, RotateBackMovesCut
    <3>4. RotBackCurrent(varlist[e], current[e]) = Snap(pc)[e]
      BY <2>2, <2>4, <3>3, RingCurrent
    <3> QED BY <1>2, <2>1, <2>2, <2>4, <3>4 DEF InForce
  <2>5. CASE Snap(pc)[e] > 0 /\ ~(step \in {"forward", "typed"} /\ e \in prog[pc].ents)
    <3>1. Ring(varlist[e], current[e], reg[e], Snap(pc)[e])
      BY <1>2, <2>2, <2>5 DEF WalkInv, Offset
    <3>2. current[e] = Snap(pc)[e]
      BY <2>2, <2>5, <3>1, RingCurrent
    <3> QED BY <1>2, <2>1, <2>2, <2>5, <3>2 DEF InForce
  <2> QED BY <2>2, <2>3, <2>4, <2>5
<1> QED BY <1>1, <1>2

(* the image of a state under the refinement *)
inforceBar == [e \in Entry |-> InForce(e)]
Position == IF mode = "walk" THEN Snap(pc) ELSE AtEntry

(* The refinement mapping reads the number of the binding in force. *)
LEMMA InForceBar == IInv => inforceBar = [e \in Entry |-> Position[e]]
<1> SUFFICES ASSUME IInv PROVE inforceBar = [e \in Entry |-> Position[e]]
  OBVIOUS
<1>1. \A e \in Entry : InForce(e) = Position[e]
  BY InForceIs DEF IInv, Position
<1> QED BY <1>1 DEF inforceBar

(* Initial states map to initial states of the sequential semantics. *)
LEMMA LexicalInit == Init => Lexical!Init
<1> SUFFICES ASSUME Init PROVE Lexical!Init
  OBVIOUS
<1>1. \A e \in Entry : InForce(e) = IF e \in ParamEntry THEN 1 ELSE 0
  BY DEF Init, InForce
<1>2. obs.kind = "none"
  BY DEF Init, NoObservation
<1> QED BY <1>1, <1>2 DEF Lexical!Init, Lexical!AtEntry, Lexical!Nothing

(* Every step maps to a step of the sequential semantics or to a stutter. *)
LEMMA LexicalNext == IInv /\ IInv' /\ [Next]_vars => [Lexical!Next]_(Lexical!bindingVars)
<1> SUFFICES ASSUME IInv, IInv', [Next]_vars
             PROVE  [Lexical!Next]_(Lexical!bindingVars)
  OBVIOUS
<1> DEFINE seenBar == IF obs.kind \in {"use", "type", "bind"}
                        THEN [ent |-> obs.ent, got |-> obs.got]
                        ELSE [ent |-> {}, got |-> 0]
<1>a. inforceBar = [e \in Entry |-> Position[e]] /\ inforceBar' = [e \in Entry |-> Position'[e]]
  <2>1. (inforceBar = [e \in Entry |-> Position[e]])'
    BY InForceBar, PTL
  <2>2. Entry' = Entry
    BY DEF Entry, Table
  <2> QED BY <2>1, <2>2, InForceBar
<1>b. ASSUME UNCHANGED inforceBar, UNCHANGED seenBar
      PROVE  [Lexical!Next]_(Lexical!bindingVars)
  BY <1>b DEF inforceBar, Lexical!bindingVars
<1>c. ASSUME UNCHANGED inforceBar, seenBar' = [ent |-> {}, got |-> 0]
      PROVE  [Lexical!Next]_(Lexical!bindingVars)
  BY <1>c DEF inforceBar, Lexical!Next, Lexical!Forget, Lexical!Nothing
<1>d. ASSUME inforceBar' = [e \in Entry |-> IF e \in ParamEntry THEN 1 ELSE 0],
             obs' = NoObservation
      PROVE  [Lexical!Next]_(Lexical!bindingVars)
  BY <1>d DEF inforceBar, NoObservation,
              Lexical!Next, Lexical!Restart, Lexical!AtEntry, Lexical!Nothing
<1>e. ASSUME UNCHANGED inforceBar, NEW e \in Entry, inforceBar[e] > 0,
             NEW w, obs' = Observation("use", e, inforceBar[e], w)
      PROVE  [Lexical!Next]_(Lexical!bindingVars)
  <2>1. seenBar' = [ent |-> {e}, got |-> inforceBar[e]]
    BY <1>e DEF Observation
  <2>2. Lexical!Refer(e)
    BY <1>e, <2>1 DEF inforceBar, Lexical!Refer
  <2> QED BY <2>2 DEF Lexical!Next
<1>f. ASSUME UNCHANGED inforceBar, NEW e \in Entry,
             NEW w, obs' = Observation("type", e, inforceBar[e] + 1, w)
      PROVE  [Lexical!Next]_(Lexical!bindingVars)
  <2>1. seenBar' = [ent |-> {e}, got |-> inforceBar[e] + 1]
    BY <1>f DEF Observation
  <2>2. Lexical!Foresee(e)
    BY <1>f, <2>1 DEF inforceBar, Lexical!Foresee
  <2> QED BY <2>2 DEF Lexical!Next
<1>g. ASSUME NEW S \in SUBSET Entry, NEW e \in S, NEW w,
             inforceBar' = [x \in Entry |-> IF x \in S THEN inforceBar[x] + 1 ELSE inforceBar[x]],
             obs' = Observation("bind", e, inforceBar'[e], w)
      PROVE  [Lexical!Next]_(Lexical!bindingVars)
  <2>1. seenBar' = [ent |-> {e}, got |-> inforceBar'[e]]
    BY <1>g DEF Observation
  <2>2. Lexical!Rebind(S)
    BY <1>g, <2>1 DEF inforceBar, Lexical!Rebind
  <2> QED BY <2>2 DEF Lexical!Next
<1>h. TypeOK /\ ParserInv /\ WalkInv /\ TypeOK' /\ ParserInv' /\ WalkInv'
  BY DEF IInv
<1>i. \A e \in Entry : inforceBar[e] = Position[e] /\ inforceBar'[e] = Position'[e]
  BY <1>a
<1>j. AtEntry' = AtEntry
  BY DEF AtEntry
<1>1. CASE OpenBlock \/ CloseBlock \/ (\E n \in Name : ParseUse(n)) \/ ParseRecursiveCall
           \/ (\E P \in Pattern : BeginLet(P) \/ ParseLetZero(P)) \/ EndLet
  <2>1. mode = "parse" /\ mode' = "parse" /\ obs' = obs
    BY <1>1 DEF OpenBlock, CloseBlock, ParseUse, ParseRecursiveCall, BeginLet,
                ParseLetZero, EndLet, Parsing
  <2> QED BY <1>a, <1>b, <1>j, <2>1 DEF Position
<1>2. CASE EndParse
  <2>1. mode = "parse" /\ mode' = "idle" /\ obs' = obs
    BY <1>2 DEF EndParse
  <2> QED BY <1>a, <1>b, <1>j, <2>1 DEF Position
<1>3. CASE ReadFormal \/ ReadSelf
  <2>1. mode = "idle" /\ mode' = "idle" /\ obs'.kind \in {"formal", "self"}
    BY <1>3, <1>h, ReadFormalTypes, ParamEntryIsEntry DEF ReadFormal, ReadSelf, ReadFormalType, Observation
  <2> QED BY <1>a, <1>c, <1>j, <2>1 DEF Position
<1>4. CASE EnterFunction
  <2>1. mode' = "walk" /\ pc' = 1 /\ prog' = prog /\ reg' = reg /\ obs' = NoObservation
    BY <1>4 DEF EnterFunction, parser
  <2>2. Snap(pc)' = AtEntry
    BY <1>h, <2>1, EntryVariants DEF Snap
  <2> QED BY <1>a, <1>d, <2>1, <2>2 DEF Position, AtEntry
<1>5. CASE LeaveFunction
  <2>1. mode' = "idle" /\ obs' = NoObservation
    BY <1>5 DEF LeaveFunction
  <2> QED BY <1>a, <1>d, <1>j, <2>1 DEF Position, AtEntry
<1>6. CASE WalkUse \/ WalkRecursiveCall \/ LetWalkRight
  <2>1. PICK op \in {"use", "call", "letbegin"} : At(op)
    BY <1>6 DEF WalkUse, WalkRecursiveCall, LetWalkRight
  <2>2. /\ mode = "walk" /\ mode' = "walk" /\ pc' = pc + 1
        /\ prog' = prog /\ reg' = reg /\ prog[pc].op = op
    BY <1>6, <2>1, <1>h, WalkPosition
    DEF WalkUse, WalkRecursiveCall, LetWalkRight, Walking, parser, At
  <2>3. Snap(pc)' = Snap(pc + 1)
    BY <2>2 DEF Snap
  <2>4. \A e \in Entry : Snap(pc + 1)[e] = Snap(pc)[e]
    BY <1>h, <2>1, <2>2, WalkPosition DEF Binds
  <2>5. UNCHANGED inforceBar
    BY <1>a, <2>2, <2>3, <2>4 DEF Position
  <2>6. CASE WalkUse
    <3>1. PICK e \in prog[pc].ents : obs' = Observation("use", e, current[e], prog[pc].reg[e])
      BY <2>6 DEF WalkUse
    <3>2. /\ e \in Entry /\ current[e] = prog[pc].reg[e]
          /\ Snap(pc)[e] = prog[pc].reg[e] /\ prog[pc].reg[e] > 0
      BY <1>h, <2>6, <3>1, UseCut, WalkPosition DEF WalkUse, At
    <3> QED BY <1>e, <1>i, <2>2, <2>5, <3>1, <3>2 DEF Position
  <2>7. CASE WalkRecursiveCall
    <3>1. PICK e \in Entry : ReadFormalType("recursive", e)
      BY <1>h, <2>7, WalkPosition DEF WalkRecursiveCall
    <3>2. obs'.kind = "recursive"
      BY <3>1 DEF ReadFormalType, Observation
    <3> QED BY <1>c, <2>5, <3>2
  <2>8. CASE LetWalkRight
    BY <1>b, <2>5, <2>8 DEF LetWalkRight
  <2> QED BY <1>6, <2>6, <2>7, <2>8
<1>7. CASE LetForward \/ InferBack \/ InferRead \/ InferForward
  <2>1. /\ mode = "walk" /\ mode' = "walk" /\ pc' = pc /\ prog' = prog /\ reg' = reg
        /\ At("letbegin")
    BY <1>7 DEF LetForward, InferBack, InferRead, InferForward, Walking, parser, At
  <2>2. Snap(pc)' = Snap(pc)
    BY <2>1 DEF Snap
  <2>3. UNCHANGED inforceBar
    BY <1>a, <2>1, <2>2 DEF Position
  <2>4. CASE LetForward \/ InferBack
    BY <1>b, <2>3, <2>4 DEF LetForward, InferBack
  <2>5. CASE InferRead
    <3>1. PICK i \in pc + 1 .. Len(prog) :
            /\ prog[i].op = "use" /\ prog[i].let = pc
            /\ \E e \in prog[i].ents : obs' = Observation("use", e, current[e], prog[i].reg[e])
      BY <2>5 DEF InferRead
    <3>2. PICK e \in prog[i].ents : obs' = Observation("use", e, current[e], prog[i].reg[e])
      BY <3>1
    <3>3. step = "infer" /\ i \in 1 .. Len(prog)
      BY <1>h, <2>1, <2>5, <3>1, WalkPosition DEF InferRead
    <3>4. /\ e \in Entry /\ current[e] = prog[i].reg[e]
          /\ Snap(pc)[e] = prog[i].reg[e] /\ prog[i].reg[e] > 0
      BY <1>h, <2>1, <3>1, <3>3, UseCut
    <3> QED BY <1>e, <1>i, <2>1, <2>3, <3>2, <3>4 DEF Position
  <2>6. CASE InferForward
    <3>1. PICK e \in prog[pc].ents :
            obs' = Observation("type", e, current'[e], prog[pc].reg[e] + 1)
      BY <2>6 DEF InferForward
    <3>2. e \in Entry /\ current'[e] = Snap(pc)[e] + 1
      BY <1>h, <2>6, PatternCut
    <3> QED BY <1>f, <1>i, <2>1, <2>3, <3>1, <3>2 DEF Position
  <2> QED BY <1>7, <2>4, <2>5, <2>6
<1>8. CASE LetBind
  <2>1. PICK op \in {"letend", "letzero"} : At(op)
    BY <1>8 DEF LetBind
  <2>2. /\ mode = "walk" /\ mode' = "walk" /\ pc' = pc + 1
        /\ prog' = prog /\ reg' = reg /\ prog[pc].op = op
    BY <1>8, <2>1 DEF LetBind, Walking, parser, At
  <2>3. Snap(pc)' = Snap(pc + 1)
    BY <2>2 DEF Snap
  <2>4. \A e \in Entry : Snap(pc + 1)[e] = IF e \in prog[pc].ents THEN Snap(pc)[e] + 1
                                                                  ELSE Snap(pc)[e]
    BY <1>h, <2>1, <2>2, WalkPosition DEF Binds
  <2>5. inforceBar' = [x \in Entry |-> IF x \in prog[pc].ents THEN inforceBar[x] + 1
                                                              ELSE inforceBar[x]]
    BY <1>a, <1>i, <2>2, <2>3, <2>4 DEF Position
  <2>6. PICK e \in prog[pc].ents :
          obs' = Observation("bind", e, current'[e], prog[pc].reg[e] + 1)
    BY <1>8 DEF LetBind
  <2>7. e \in Entry /\ current'[e] = inforceBar'[e]
    <3>1. e \in Entry /\ current'[e] = Snap(pc)[e] + 1
      BY <1>h, <1>8, PatternCut
    <3> QED BY <1>i, <2>2, <2>3, <2>4, <3>1 DEF Position
  <2>8. prog[pc].ents \in SUBSET Entry
    BY <1>h, <2>1, WalkPosition
  <2> QED BY <1>g, <2>5, <2>6, <2>7, <2>8
<1>9. CASE UNCHANGED vars
  BY <1>9, <1>a, <1>b, <1>j DEF vars, Position, Snap
<1> QED BY <1>1, <1>2, <1>3, <1>4, <1>5, <1>6, <1>7, <1>8, <1>9 DEF Next

(* Every walk of every body is a run of the sequential semantics of        *)
(* re-binding: rotating the lists in place is invisible to the generated   *)
(* code (walk_letbind, walk_id, inference_letbind_type_both_side).         *)
THEOREM ShieldingImplementsLexicalBinding == Spec => ImplementsLexicalBinding
BY LexicalInit, LexicalNext, Invariance, PTL DEF Spec, ImplementsLexicalBinding, Lexical!Spec
=============================================================================
