-------------------------- MODULE MCTypeInference --------------------------
(***************************************************************************)
(* A function with a parameter of most kinds of types, one name that a let *)
(* binds, and the trees over them up to depth 2, for TLC.                  *)
(***************************************************************************)
EXTENDS TypeInference

I16 == T("i16")
MCParams == [n |-> I16, u |-> T("u8"), p |-> Pointer(I16), a |-> Array2(I16)]
MCLocals == {"x"}
MCResult == I16
MCFns ==
  [f |-> [formals |-> <<I16>>, varg |-> FALSE, result |-> I16],
   v |-> [formals |-> <<T("u8")>>, varg |-> TRUE, result |-> T("i32")]]
MCLetTypes == {I16, T("u8"), T("bool"), Pointer(I16), Array2(I16)}
MCTypes == MCLetTypes \cup {T("i32"), Pointer(Pointer(I16))}

Number(v) == Literal("U64", v, NoType)
Typed(v, t) == Literal("U64", v, T(t))
Char == Literal("I8", 97, NoType)
True == Literal("BOOL", 1, NoType)
Float == Literal("F64", 0, NoType)

Literals == {Number(0), Number(1), Number(300), Minus(Number(40000)),
             Typed(7, "u8"), Typed(5, "i16"), Minus(Typed(5, "i16")),
             Typed(300, "u8"), Char, True, Float}
Names == {Id(x) : x \in {"n", "u", "p", "a", "x"}}
Leaves == Literals \cup Names
Operands == {Number(1), Typed(7, "u8"), Typed(5, "i16"), True,
             Id("n"), Id("p"), Id("x")}

Binary(ops, l, r) == {Expr(op, <<e, d>>) : op \in ops, e \in l, d \in r}
Unary(ops, es) == {Expr(op, <<e>>) : op \in ops, e \in es}

Depth1 ==
  Binary({"+", "*", "<", "<<", "&&"}, Operands, Operands)
  \cup Unary({"!", "deref", "&"}, Leaves) \cup {Minus(e) : e \in Leaves}
  \cup {As(e, t) : e \in Leaves, t \in {I16, T("u8"), T("bool"), T("f64"), Pointer(I16)}}
  \cup Binary({"array"}, {Number(1), Typed(7, "u8"), Id("n"), Id("x")}, Leaves)
  \cup Binary({"item"}, {Id("a"), Id("x")}, {Number(1), Float, Id("u"), Id("p")})
  \cup {Call("f", <<e>>) : e \in Leaves}
  \cup {Call("v", <<Number(1), e>>) : e \in Leaves}
  \cup {Call("f", <<>>), Sizeof}

Some1 ==
  {Expr("+", <<Number(1), Typed(5, "i16")>>), Expr("+", <<Number(1), Number(1)>>),
   Expr("+", <<Id("p"), Number(1)>>), Expr("<<", <<Id("n"), Typed(7, "u8")>>),
   Expr("<", <<Id("x"), Number(1)>>), Expr("deref", <<Id("x")>>),
   Expr("&", <<Id("x")>>), Expr("&", <<Id("n")>>),
   Expr("item", <<Id("a"), Number(1)>>), Expr("neg", <<Id("n")>>),
   As(Number(1), T("u8")), Call("f", <<Number(1)>>), Sizeof}
SomeLeaves == {Number(1), Id("n"), Id("x")}

Depth2 ==
  Binary({"+", "<", "<<", "&&"}, Some1, SomeLeaves)
  \cup Binary({"+", "<<"}, SomeLeaves, Some1)
  \cup Unary({"neg", "!", "deref", "&"}, Some1)
  \cup {As(e, t) : e \in Some1, t \in {I16, Pointer(I16)}}
  \cup Binary({"+"}, Some1, {Expr("+", <<Number(1), Number(1)>>), Sizeof})

MCExprs == Leaves \cup Depth1 \cup Depth2
=============================================================================
