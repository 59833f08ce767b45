----------------------------- MODULE ArraySlice -----------------------------
(***************************************************************************)
(* What the code generated for a[i] and a[range] addresses: an item of the *)
(* array a, or a slice, the pair of a start address and a length.          *)
(*                                                                         *)
(* Indices and the ends of ranges are of any integer type.  An index goes  *)
(* to LLVM's getelementptr as it is, which extends it by its sign whatever *)
(* the type of the source; the length of a slice is computed in the type   *)
(* of the range and then converted to i64.  Addresses are counted in items *)
(* from the start of the array.  Nothing checks that an index or a range   *)
(* lies in the array, and a program where it does not is not considered.   *)
(***************************************************************************)
EXTENDS Integers, FiniteSets

CONSTANTS Types,     \* integer types: their least and greatest value
          Wide,      \* the type i64
          Dims       \* lengths of arrays

\* two's complement, of any width
IsType(t) == t.hi \in Nat /\ ((t.lo = 0 /\ t.hi % 2 = 1) \/ t.lo = -(t.hi + 1))

ASSUME ArraySliceAssumption ==
  /\ Wide \in Types /\ Wide.lo < 0
  /\ \A t \in Types : t \in [lo: Int, hi: Int] /\ IsType(t) /\ t.hi <= 2 * Wide.hi + 1
  /\ Dims \subseteq 1 .. Wide.hi

Forms == {"a[i]", "..", "a..", "..b", "..=b", "a..b", "a..=b"}   \* GeneralRangeType, and an index

VARIABLES dim,         \* the length of the array
          form, type,  \* of the index
          start, end,  \* its values; 0 and the array's length where not written
          slice        \* what was computed

vars == <<dim, form, type, start, end, slice>>

HasStart == {"a[i]", "a..", "a..b", "a..=b"}
HasEnd   == {"..b", "..=b", "a..b", "a..=b"}
Inclusive == {"..=b", "a..=b"}

\* the positions that the source means
Members ==
  IF form = "a[i]" THEN {start}
  ELSE {p \in 0 .. dim - 1 : start <= p /\ (p < end \/ (form \in Inclusive /\ p = end))}

Nothing == [first |-> 0, len |-> -1]

Init ==
  /\ dim \in Dims /\ form \in Forms /\ type \in Types
  /\ start \in 0 .. dim /\ end \in start .. dim
  /\ IF form \in HasStart THEN start <= type.hi ELSE start = 0
  /\ IF form \in HasEnd THEN end <= type.hi ELSE end = dim
  /\ form = "a[i]" => start < dim
  /\ form \in Inclusive => end < dim
  /\ slice = Nothing

Modulus(t) == t.hi - t.lo + 1

\* arithmetic in the type t
Wrap(t, v) == ((v - t.lo) % Modulus(t)) + t.lo

\* the index that getelementptr takes a value of type t for
SignExtended(t, v) == IF 2 * v >= Modulus(t) THEN v - Modulus(t) ELSE v

\* The length, in the type of the range: only for ..=b the end is counted in.
\* For a..=b the code compares the type of the index, RANGE, with the kind of
\* the range, InclusiveRange, which is never equal.
LengthOnlyTwoSided ==      \* mutant: the end is not counted in for ..=b either
  CASE form = ".."            -> dim
    [] form = "a.."           -> dim - start
    [] form \in {"..b", "..=b"} -> end
    [] OTHER                  -> Wrap(type, end - start)
Length ==
  CASE form = ".."   -> dim
    [] form = "a.."  -> dim - start
    [] form = "..b"  -> end
    [] form = "..=b" -> Wrap(type, end + 1)
    [] OTHER         -> Wrap(type, end - start)

\* The conversion to i64: the sign is extended if the type has one
ToWide(v) == Wrap(Wide, v)

\* llvmcode_create_slice: the operand of getelementptr is a pointer to the
\* whole array, so that the offset counts arrays
Offset == IF form \in HasStart THEN SignExtended(type, start) * dim ELSE 0

Waiting == slice = Nothing

\* extract_value_from_array, of an integer
Item ==
  /\ Waiting /\ form = "a[i]"
  /\ slice' = [first |-> SignExtended(type, start), len |-> 1]
  /\ UNCHANGED <<dim, form, type, start, end>>

\* The same, of a range.  The subtraction for a.. takes an i64 and a value of
\* the range's type; for another type LLVM asserts, and without assertions
\* it folds constants as if the types were one: only i64 is considered.
Slice ==
  /\ Waiting /\ form # "a[i]"
  /\ form = "a.." => type = Wide
  /\ slice' = [first |-> Offset, len |-> ToWide(Length)]
  /\ UNCHANGED <<dim, form, type, start, end>>

Next == Item \/ Slice

Spec == Init /\ [][Next]_vars

-----------------------------------------------------------------------------
Sliced == slice # Nothing /\ form # "a[i]"

\* The greatest value of a type has no successor in it; for a..=b see
\* SlicesHaveAllOfTheirRange
Representable == form # "a..=b" /\ ~(form = "..=b" /\ end = type.hi)

(***************************************************************************)
(* PrefixesAreTheirRange: the length of a slice is the number of positions  *)
(* its range means, whatever the width and the sign of the range's type,    *)
(* and a slice that begins with the array covers exactly these positions   *)
(* (extract_value_from_array, IR_generator.cpp:783-862).                   *)
(***************************************************************************)
PrefixesAreTheirRange ==
  Sliced /\ Representable =>
    /\ slice.len = Cardinality(Members)
    /\ start = 0 => {slice.first + k : k \in 0 .. slice.len - 1} = Members

(***************************************************************************)
(* SlicesStartAtTheirRange: the address in a slice is that of the first     *)
(* item of its range: book/ca-book.md:596, "the array slice operation       *)
(* retrieves a range of items from an array and provides a reference to     *)
(* that subrange".  Refuted: see the README.                               *)
(***************************************************************************)
SlicesStartAtTheirRange == Sliced => slice.first = start

(***************************************************************************)
(* SlicesHaveAllOfTheirRange: the length of a slice is the number of        *)
(* positions of its range, an inclusive one's too (IR_generator.cpp:847).   *)
(* Refuted: see the README.                                                *)
(***************************************************************************)
SlicesHaveAllOfTheirRange == Sliced => slice.len = Cardinality(Members)

(***************************************************************************)
(* ItemsAreAddressed: a[i] is item i (IR_generator.cpp:774-780).  Refuted   *)
(* for unsigned types: see the README.                                     *)
(***************************************************************************)
ItemsAreAddressed ==
  slice # Nothing /\ form = "a[i]" => slice.first = start
=============================================================================
