---------------------------- MODULE LiteralTypes ----------------------------
(***************************************************************************)
(* The types of the language, and how a literal gets one (type_system.cpp).*)
(*                                                                         *)
(* A type is the sequence of its constructors, outermost first: <<"i16">>, *)
(* <<"*", "i16">>, <<"[2]", "i16">>.  The lexer knows of a literal only    *)
(* its kind (littypetok), its value and the postfix, if one was written;   *)
(* the type comes later, from the place where the literal stands.  i8, i16,*)
(* i32, u8 and u64 stand for the integer types; values are those TLC can   *)
(* count, so that nothing exceeds an i32 but its bounds are met.           *)
(***************************************************************************)
EXTENDS Integers, Sequences, FiniteSets

NoType == <<>>                                        (* typeid_novalue    *)
T(name) == <<name>>
Pointer(t) == <<"*">> \o t                            (* catype_make_pointer_type *)
Array2(t) == <<"[2]">> \o t                           (* catype_make_array_type   *)
Tok(t) == Head(t)                                     (* CADataType.type   *)
Inner(t) == Tail(t)                                   (* what it points to, or its elements *)

Signed == {"i8", "i16", "i32"}
Unsigned == {"u8", "u64"}                             (* catype_is_unsigned *)
Integer == Signed \cup Unsigned                       (* catype_is_integer *)

IsUnsigned(t) == t # NoType /\ Tok(t) \in Unsigned
IsInteger(t) == t # NoType /\ Tok(t) \in Integer
IsPointer(t) == t # NoType /\ Tok(t) = "*"
IsArray(t) == t # NoType /\ Tok(t) = "[2]"

(* mutant: the signatures are not compared                                 *)
IdenticalByToken(s, t) == s = t \/ (NoType \notin {s, t} /\ Tok(s) = Tok(t))

(* catype_check_identical, catype_check_identical_in_symtable              *)
Identical(s, t) == s = t

(* create_literal.  A character is as good as a postfix.                   *)
Literal(kind, val, postfix) ==
  [t |-> "lit", kind |-> kind, val |-> val,
   postfix |-> IF kind = "I8" THEN T("i8") ELSE postfix,
   fixed |-> FALSE, datatype |-> NoType]

(***************************************************************************)
(* A phase of the generator gives back the tree as it leaves it, and the   *)
(* type found.  ok is FALSE when it reported an error: the compiler exits. *)
(***************************************************************************)
Found(node, type) == [ok |-> TRUE, node |-> node, type |-> type]
Error(node) == [ok |-> FALSE, node |-> node, type |-> NoType]
Check(cond, node, type) == IF cond THEN Found(node, type) ELSE Error(node)

(* s_literal_type_convertable_table: kind by kind                          *)
Convertable(kind, tok) ==
  CASE kind = "U64"  -> tok \in Integer \cup {"f64"}
    [] kind = "I64"  -> tok \in {"i16", "i32", "f64"}
    [] kind = "F64"  -> tok = "f64"
    [] kind = "BOOL" -> tok = "bool"
    [] kind = "I8"   -> tok \in Integer \cup {"f64"}

Greatest == [i8 |-> 127, u8 |-> 255, i16 |-> 32767, i32 |-> 2147483647]
Least == [i16 |-> -32768, i32 |-> -2147483647 - 1]

(* mutant: the greatest value of a byte is mistaken                        *)
BadScopeOffByOne(kind, val, tok) ==
  CASE kind = "U64" -> tok = "bool" \/ (tok = "u8" /\ val > 300)
    [] OTHER        -> FALSE

(* check_u64_value_scope, check_i64_value_scope, check_char_value_scope    *)
BadScope(kind, val, tok) ==
  CASE kind = "U64" -> \/ tok = "bool"
                       \/ tok \in DOMAIN Greatest /\ val > Greatest[tok]
    [] kind = "I64" -> tok \in DOMAIN Least /\ val < Least[tok]
    [] kind = "I8"  -> tok = "u8" /\ val < 0
    [] OTHER        -> FALSE

(* determine_primitive_literal_type.  A literal 0 may be a pointer, and an *)
(* array too.                                                              *)
DeterminePrimitive(lit, t) ==
  Check(/\ (lit.kind = "U64" /\ lit.val = 0) \/ Convertable(lit.kind, Tok(t))
        /\ ~ BadScope(lit.kind, lit.val, Tok(t)),
        [lit EXCEPT !.fixed = TRUE, !.datatype = t], t)

(* inference_primitive_literal_type: intentdeftype                         *)
DefaultType(kind) ==
  CASE kind \in {"U64", "I64"} -> T("i32")
    [] kind = "F64"            -> T("f64")
    [] kind = "BOOL"           -> T("bool")
    [] kind = "I8"             -> T("i8")

(* inference_expr_type of a TTE_Literal                                    *)
InferLiteral(lit) ==
  IF lit.fixed THEN Found(lit, lit.datatype)
  ELSE IF lit.postfix # NoType THEN DeterminePrimitive(lit, lit.postfix)
  ELSE DeterminePrimitive(lit, DefaultType(lit.kind))

(* mutant: the literal takes its default type, and is then compared        *)
DetermineByDefault(lit, t) ==
  LET r == InferLiteral(lit)
  IN  Check(r.ok /\ r.type = t, r.node, t)

(* determine_expr_type of a TTE_Literal.  One that is fixed is passed over.*)
DetermineLiteral(lit, t) ==
  IF lit.fixed THEN Found(lit, t)
  ELSE IF lit.postfix # NoType
    THEN LET r == DeterminePrimitive(lit, lit.postfix)
         IN  Check(r.ok /\ lit.postfix = t, r.node, t)
    ELSE DeterminePrimitive(lit, t)

(* as_type_convertable, asked of what is converted                         *)
AsConvertable(from, to) ==
  IF Tok(to) = "bool" THEN Tok(from) = "bool"
                      ELSE ~ (Tok(from) = "bool" /\ Tok(to) = "f64")

(* gen_cast_ops: the conversions there is an instruction for               *)
CastExists(from, to) ==
  \/ from = to
  \/ Tok(from) \in Integer /\ Tok(to) \in Integer \cup {"f64"}
  \/ Tok(from) \in Integer \ {"i8", "u8"} /\ Tok(to) = "*"
  \/ Tok(from) = "bool" /\ Tok(to) \in Integer
  \/ Tok(from) = "f64" /\ Tok(to) \in Integer
  \/ Tok(from) = "*" /\ Tok(to) \in (Integer \ {"i8", "u8"}) \cup {"*"}
  \/ Tok(from) = "[2]" /\ Tok(to) = "*"

=============================================================================
