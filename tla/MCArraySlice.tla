---------------------------- MODULE MCArraySlice ----------------------------
\* Integer types of 3, 4 and 7 bits, signed and not, and arrays as long as
\* the narrow ones can count
EXTENDS ArraySlice

Narrow == {[lo |-> 0, hi |-> 15], [lo |-> -8, hi |-> 7], [lo |-> 0, hi |-> 7],
           [lo |-> -4, hi |-> 3]}
Long == [lo |-> -64, hi |-> 63]
AllTypes == Narrow \cup {Long, [lo |-> 0, hi |-> 127]}
=============================================================================
