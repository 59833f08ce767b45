---------------------------- MODULE MCTypeNames ----------------------------
(***************************************************************************)
(* Two names, defined in either scope or in one; members of 1 and 8 bytes, *)
(* by value, behind pointers, in arrays and tuples.                        *)
(***************************************************************************)
EXTENDS TypeNames

i8 == [kind |-> "prim", size |-> 1]
i64 == [kind |-> "prim", size |-> 8]
N(n) == [kind |-> "name", name |-> n]
P(t) == [kind |-> "ptr", to |-> t]
A2(t) == [kind |-> "arr", of |-> t, len |-> 2]
T1(t) == [kind |-> "tuple", members |-> <<t>>]

MCNames == {"A", "B"}

Refs == {i8, i64} \union
        UNION {{N(n), P(N(n)), A2(N(n))} : n \in MCNames}
        \union {P(A2(N("A"))), T1(N("B"))}

Members == {<<>>} \union {<<t>> : t \in Refs}
           \union {<<i8, t>> : t \in Refs} \union {<<t, i8>> : t \in Refs}

Definitions ==
  {[kind |-> "none", members |-> <<>>]}
  \union {[kind |-> "struct", members |-> m] : m \in Members}
  \union {[kind |-> "alias", members |-> <<t>>] : t \in Refs}

(* the inner scope may define A again *)
Inners == {[kind |-> "none", members |-> <<>>],
           [kind |-> "struct", members |-> <<N("B")>>],
           [kind |-> "struct", members |-> <<P(N("B")), i8>>],
           [kind |-> "alias", members |-> <<N("B")>>],
           [kind |-> "alias", members |-> <<P(N("B"))>>]}

MCPrograms ==
  {[s \in {1, 2} |-> [n \in MCNames |->
      IF n = "B" THEN IF s = 1 THEN b ELSE [kind |-> "none", members |-> <<>>]
      ELSE IF s = 1 THEN a ELSE c]] :
    a \in Definitions, b \in Definitions, c \in Inners}

MCAsks == {N("A"), N("B"), P(N("A")), T1(A2(N("A")))}
=============================================================================
