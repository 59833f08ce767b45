--------------------------- MODULE MCTraitCopies ---------------------------
\* Two classes whose fields have different types, a method with a body of up
\* to MaxBody statements and a sibling with at most one
EXTENDS TraitCopies, FiniteSets

CONSTANTS A, B,          \* the classes
          method, sibling

FieldTypes == [c \in {A, B} |-> IF c = A THEN "i32" ELSE "i64"]

LongAndShort == {b \in [{method, sibling} -> Body] : Len(b[sibling]) <= 1}
=============================================================================
