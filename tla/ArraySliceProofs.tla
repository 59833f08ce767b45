-------------------------- MODULE ArraySliceProofs --------------------------
(***************************************************************************)
(* Proofs about ArraySlice, for every set of integer types and arrays of   *)
(* any length.                                                             *)
(*                                                                         *)
(* The argument.  The source is fixed from the start on; the one step of   *)
(* the program computes the slice (Computed).  What it computes in the     *)
(* type of the range is a value of that type, so that it does not wrap,    *)
(* and a value of i64 afterwards.                                          *)
(***************************************************************************)
EXTENDS ArraySlice, FiniteSetTheorems, TLAPS

(* The source: an index or a range in the array, of values of its type. *)
InArray ==
  /\ dim \in Dims /\ form \in Forms /\ type \in Types
  /\ start \in 0 .. dim /\ end \in start .. dim
  /\ IF form \in HasStart THEN start <= type.hi ELSE start = 0
  /\ IF form \in HasEnd THEN end <= type.hi ELSE end = dim
  /\ form \in Inclusive => end < dim

Computed ==
  slice # Nothing =>
    slice = IF form = "a[i]" THEN [first |-> SignExtended(type, start), len |-> 1]
            ELSE [first |-> Offset, len |-> ToWide(Length)]

IndInv == InArray /\ Computed

LEMMA TypeFacts ==
  ASSUME NEW t \in Types
  PROVE  t.lo \in Int /\ t.hi \in Nat /\ t.lo <= 0 /\ Modulus(t) \in Nat \ {0}
  BY ArraySliceAssumption DEF IsType, Modulus

(* Arithmetic in a type leaves the values of the type alone. *)
LEMMA WrapIsIdentity ==
  ASSUME NEW t \in Types, NEW v \in t.lo .. t.hi
  PROVE  Wrap(t, v) = v
<1> DEFINE m == Modulus(t)
           d == v - t.lo
<1>1. t.lo \in Int /\ t.hi \in Nat /\ m \in Nat \ {0}
  BY TypeFacts
<1>2. v \in Int /\ d \in 0 .. m - 1
  BY <1>1 DEF Modulus
<1>3. Wrap(t, v) = (d % m) + t.lo
  BY DEF Wrap
<1> HIDE DEF m, d
<1>4. d % m = d
  BY <1>1, <1>2
<1> QED BY <1>1, <1>2, <1>3, <1>4 DEF d

(* An array is shorter than i64 can count. *)
LEMMA DimFacts ==
  ASSUME InArray
  PROVE  /\ dim \in Nat \ {0} /\ start \in Nat /\ end \in Nat
         /\ start <= end /\ end <= dim
         /\ Wide \in Types /\ dim <= Wide.hi /\ Wide.lo \in Int /\ Wide.hi \in Nat /\ Wide.lo <= 0
<1>1. Wide \in Types
  BY ArraySliceAssumption
<1>2. Wide.lo \in Int /\ Wide.hi \in Nat /\ Wide.lo <= 0
  BY <1>1, TypeFacts
<1>3. dim \in 1 .. Wide.hi
  BY ArraySliceAssumption DEF InArray
<1> QED BY <1>1, <1>2, <1>3 DEF InArray

(* The positions of a range are an interval. *)
LEMMA MembersAreInterval ==
  ASSUME InArray, form # "a[i]"
  PROVE  Members = start .. (IF form \in Inclusive THEN end ELSE end - 1)
<1>1. /\ dim \in Nat \ {0} /\ start \in Nat /\ end \in Nat
      /\ start <= end /\ end <= dim /\ (form \in Inclusive => end < dim)
  BY DimFacts DEF InArray
<1>2. CASE form \in Inclusive
  BY <1>1, <1>2 DEF Members
<1>3. CASE form \notin Inclusive
  BY <1>1, <1>3 DEF Members
<1> QED BY <1>2, <1>3

(* The length does not wrap in the type of the range. *)
LEMMA LengthIsDifference ==
  ASSUME InArray, form # "a[i]", Representable
  PROVE  Length = IF form \in Inclusive THEN end - start + 1 ELSE end - start
<1>1. /\ dim \in Nat \ {0} /\ start \in Nat /\ end \in Nat /\ start <= end
      /\ type \in Types /\ type.lo \in Int /\ type.hi \in Nat /\ type.lo <= 0
  BY DimFacts, TypeFacts DEF InArray
<1>2. CASE form = ".."
  BY <1>1, <1>2 DEF InArray, Length, HasStart, HasEnd, Inclusive
<1>3. CASE form = "a.."
  BY <1>1, <1>3 DEF InArray, Length, HasStart, HasEnd, Inclusive
<1>4. CASE form = "..b"
  BY <1>1, <1>4 DEF InArray, Length, HasStart, HasEnd, Inclusive
<1>5. CASE form = "..=b"
  <2>1. start = 0 /\ end + 1 \in type.lo .. type.hi
    BY <1>1, <1>5 DEF InArray, HasStart, HasEnd, Representable
  <2>2. Wrap(type, end + 1) = end + 1
    BY <1>1, <2>1, WrapIsIdentity
  <2> QED BY <1>1, <1>5, <2>1, <2>2 DEF Length, Inclusive
<1>6. CASE form = "a..b"
  <2>1. end - start \in type.lo .. type.hi
    BY <1>1, <1>6 DEF InArray, HasEnd
  <2>2. Wrap(type, end - start) = end - start
    BY <1>1, <2>1, WrapIsIdentity
  <2> QED BY <1>6, <2>2 DEF Length, Inclusive
<1> QED BY <1>2, <1>3, <1>4, <1>5, <1>6 DEF InArray, Forms, Representable

LEMMA Invariance == Spec => []IndInv
<1>1. Init => IndInv
  BY DEF Init, IndInv, InArray, Computed
<1>2. IndInv /\ [Next]_vars => IndInv'
  <2> SUFFICES ASSUME IndInv, [Next]_vars PROVE IndInv'
    OBVIOUS
  <2> USE DEF IndInv
  <2>1. CASE Item
    BY <2>1 DEF Item, InArray, Computed
  <2>2. CASE Slice
    <3>1. UNCHANGED <<dim, form, type, start, end>> /\ form # "a[i]"
          /\ slice' = [first |-> Offset, len |-> ToWide(Length)]
      BY <2>2 DEF Slice
    <3>2. Offset' = Offset /\ ToWide(Length)' = ToWide(Length)
      BY <3>1 DEF Offset, Length, ToWide, Wrap, SignExtended, Modulus
    <3> QED BY <3>1, <3>2 DEF InArray, Computed
  <2>3. CASE UNCHANGED vars
    <3>1. UNCHANGED <<dim, form, type, start, end, slice>>
      BY <2>3 DEF vars
    <3>2. Offset' = Offset /\ ToWide(Length)' = ToWide(Length)
      BY <3>1 DEF Offset, Length, ToWide, Wrap, SignExtended, Modulus
    <3> QED BY <3>1, <3>2 DEF InArray, Computed
  <2> QED BY <2>1, <2>2, <2>3 DEF Next
<1> QED BY <1>1, <1>2, PTL DEF Spec

(* The length of a slice is the number of positions its range means, and a *)
(* slice from the start of the array covers them, for integers of every    *)
(* width: extract_value_from_array, IR_generator.cpp:783-862.              *)
THEOREM PrefixesCovered == Spec => []PrefixesAreTheirRange
<1>1. IndInv => PrefixesAreTheirRange
  <2> SUFFICES ASSUME IndInv, Sliced, Representable
               PROVE  /\ slice.len = Cardinality(Members)
                      /\ start = 0 => {slice.first + k : k \in 0 .. slice.len - 1} = Members
    BY DEF PrefixesAreTheirRange
  <2> USE DEF IndInv
  <2> DEFINE last == IF form \in Inclusive THEN end ELSE end - 1
             n == last - start + 1
  <2>1. slice = [first |-> Offset, len |-> ToWide(Length)] /\ form # "a[i]"
    BY DEF Computed, Sliced
  <2>2. /\ start \in Nat /\ last \in Int /\ n \in 0 .. dim /\ dim \in Nat
        /\ Wide \in Types /\ dim <= Wide.hi /\ Wide.lo \in Int /\ Wide.hi \in Nat /\ Wide.lo <= 0
    BY DimFacts DEF InArray
  <2>3. Members = start .. last
    BY <2>1, MembersAreInterval
  <2>4. Length = n
    <3>1. Length = IF form \in Inclusive THEN end - start + 1 ELSE end - start
      BY <2>1, LengthIsDifference
    <3>2. start \in Nat /\ end \in Nat
      BY DimFacts
    <3> QED BY <3>1, <3>2
  <2>5. slice.len = n
    <3>1. n \in Wide.lo .. Wide.hi
      BY <2>2
    <3>2. ToWide(n) = n
      BY <2>2, <3>1, WrapIsIdentity DEF ToWide
    <3> QED BY <2>1, <2>4, <3>2
  <2>6. Cardinality(Members) = n
    <3> HIDE DEF last
    <3>1. Cardinality(start .. last) = IF start > last THEN 0 ELSE last - start + 1
      BY <2>2, FS_Interval
    <3> QED BY <2>2, <2>3, <3>1
  <2>7. ASSUME start = 0 PROVE {slice.first + k : k \in 0 .. slice.len - 1} = Members
    <3>1. Offset = 0
      <4>1. type \in Types /\ dim \in Nat
        BY <2>2 DEF InArray
      <4>2. Modulus(type) \in Nat \ {0}
        BY <4>1, TypeFacts
      <4>3. SignExtended(type, start) = 0
        BY <2>7, <4>2 DEF SignExtended
      <4> QED BY <4>1, <4>3 DEF Offset
    <3>2. slice.first = 0 /\ n = last + 1
      BY <2>1, <2>2, <2>7, <3>1
    <3>3. {slice.first + k : k \in 0 .. slice.len - 1} = 0 .. last
      BY <2>2, <2>5, <3>2
    <3> QED BY <2>3, <2>7, <3>3
  <2> QED BY <2>5, <2>6, <2>7
<1> QED BY <1>1, Invariance, PTL
=============================================================================
