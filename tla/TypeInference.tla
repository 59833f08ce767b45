--------------------------- MODULE TypeInference ---------------------------
(***************************************************************************)
(* The types of the expressions and variables of a function.               *)
(*                                                                         *)
(* The parser leaves every type open.  For each statement the generator    *)
(* first fixes the types in its tree: it infers them from the leaves       *)
(* upward (inference_expr_type) or, when the place the value goes to has a *)
(* type, pushes that type down to the leaves (determine_expr_type).  It    *)
(* then walks the tree and computes the type of every operand a second     *)
(* time, from the operands alone.  Neither way looks twice at a node that  *)
(* has a type already, and most places trust the first phase.              *)
(*                                                                         *)
(* Each step is a statement with an arbitrary tree of Exprs; any error     *)
(* ends the compiler.  Structs, tuples, ranges, slices, methods and ife    *)
(* are left out, and so is the rotation of variants, which VarShielding    *)
(* models: an expression sees the names as they were before its statement. *)
(***************************************************************************)
EXTENDS LiteralTypes

CONSTANTS
  Params,     (* the function's parameters, with their types               *)
  Locals,     (* names that a let can bind                                 *)
  Fns,        (* name -> the types of its arguments, varg, its result      *)
  Result,     (* the type of the function being compiled                   *)
  Exprs,      (* the trees that the statements of the source may have      *)
  LetTypes,   (* the types written in a let                                *)
  Types       (* bound: the types a name may get                           *)

VARIABLES
  vars,       (* the type of each parameter and local in force             *)
  mode,       (* "ready", "done" (a statement compiled) or "failed"        *)
  stmt        (* history: the last statement                               *)

state == <<vars, mode, stmt>>

(***************************************************************************)
(* Trees, as the grammar makes them; an array_item is <<array, index>>.    *)
(***************************************************************************)
Id(name) == [t |-> "id", name |-> name]
Expr(op, args) == [t |-> "expr", op |-> op, args |-> args, type |-> NoType]
As(e, to) == Expr("as", <<[t |-> "as", to |-> to, e |-> e]>>)
Call(name, args) == [Expr("call", args) EXCEPT !.op = name]
Sizeof == [Expr("sizeof", <<>>) EXCEPT !.type = T("u64")]
Minus(e) ==
  IF e.t = "lit" /\ e.kind = "U64"
    THEN [e EXCEPT !.kind = "I64", !.val = - e.val]
    ELSE Expr("neg", <<e>>)

(* get_expr_type_from_tree                                                 *)
TypeInTree(node, env) ==
  CASE node.t = "lit"  -> node.datatype
    [] node.t = "id"   -> env[node.name]
    [] node.t = "as"   -> node.to
    [] node.t = "expr" -> node.type

AllOk(rs) == \A i \in DOMAIN rs : rs[i].ok
AllTyped(rs, t) == \A i \in DOMAIN rs : Identical(rs[i].type, t)
Nodes(rs) == [i \in DOMAIN rs |-> rs[i].node]
WithArgs(node, rs, type) == [node EXCEPT !.args = Nodes(rs), !.type = type]

(***************************************************************************)
(* From the leaves upward.                                                 *)
(***************************************************************************)
RECURSIVE Infer(_, _)
InferAll(nodes, env) == [i \in DOMAIN nodes |-> Infer(nodes[i], env)]

(* mutant: without the two exceptions                                      *)
OperandsAgreeOnly(op, rs) == AllTyped(rs, rs[1].type)

(* The operands of an operator have one type, but for a pointer that moves *)
(* and a shift.                                                            *)
OperandsAgree(op, rs) ==
  \/ AllTyped(rs, rs[1].type)
  \/ op = "<<" /\ \A i \in DOMAIN rs : IsInteger(rs[i].type)
  \/ op = "+" /\ IsPointer(rs[1].type) /\ IsInteger(rs[2].type)

(* mutant: a comparison has the type of its operands                       *)
ResultOfOperands(op, type) == type

(* is_logic_op, and the end of inference_expr_expr_type                    *)
ResultType(op, type) == IF op = "<" THEN T("bool") ELSE type

(* the switch of inference_expr_expr_type, once the operands are inferred  *)
InferExpr(node, rs) ==
  LET Typed(cond, type) == Check(cond, WithArgs(node, rs, type), type)
      first == rs[1].type
  IN CASE node.op = "array" -> Typed(AllTyped(rs, first), Array2(first))
       [] node.op = "item"  -> Typed(IsArray(first), Inner(first))
       [] node.op = "deref" -> Typed(IsPointer(first), Inner(first))
       [] node.op = "&"     -> Typed(TRUE, Pointer(first))
       [] OTHER -> Typed(OperandsAgree(node.op, rs), ResultType(node.op, first))

(* inference_expr_type                                                     *)
Infer(node, env) ==
  CASE node.t = "lit" -> InferLiteral(node)
    [] node.t = "id"  -> Found(node, env[node.name])
    [] node.t = "as"  ->
         LET r == Infer(node.e, env)
         IN  IF r.ok THEN Check(AsConvertable(r.type, node.to),
                                [node EXCEPT !.e = r.node], node.to)
                     ELSE Error(node)
    [] node.t = "expr" /\ node.type # NoType -> Found(node, node.type)
    [] node.t = "expr" /\ node.type = NoType /\ node.op \in DOMAIN Fns ->
         Found([node EXCEPT !.type = Fns[node.op].result], Fns[node.op].result)
    [] OTHER ->
         LET rs == InferAll(node.args, env)
         IN  IF AllOk(rs) THEN InferExpr(node, rs) ELSE Error(node)

(***************************************************************************)
(* From the place downward.                                                *)
(***************************************************************************)
RECURSIVE Determine(_, _, _)
DetermineAll(nodes, t, env) ==
  [i \in DOMAIN nodes |-> Determine(nodes[i], t, env)]

(* Each operator's way to take the type, with the operands it leaves.  The *)
(* index of an item is left open; so are the arguments of a call.          *)
DetermineExpr(node, t, env) ==
  LET Take(cond, rs) == Check(AllOk(rs) /\ cond, WithArgs(node, rs, t), t)
      first == node.args[1]
  IN CASE node.op = "array" ->
            IF IsArray(t) /\ Len(node.args) = 2
              THEN Take(TRUE, DetermineAll(node.args, Inner(t), env))
              ELSE Error(node)
       [] node.op = "item" ->
            LET r == Infer(first, env)
            IN  Take(IsArray(r.type) /\ Inner(r.type) = t,
                     <<r, Found(node.args[2], NoType)>>)
       [] node.op = "deref" ->
            Take(TRUE, <<Determine(first, Pointer(t), env)>>)
       [] node.op = "&" ->
            Take(/\ first.t = "id"
                 /\ IsPointer(t)
                 /\ Inner(t) = env[first.name], <<Found(first, NoType)>>)
       [] node.op = "<" ->
            IF t = T("bool") THEN Infer(node, env) ELSE Error(node)
       [] node.op = "+" /\ IsPointer(t) ->
            LET l == IF first.t = "expr" THEN Determine(first, t, env)
                                         ELSE Found(first, NoType)
                r == Infer(node.args[2], env)
            IN  Take(TypeInTree(l.node, env) = t /\ IsInteger(r.type), <<l, r>>)
       [] OTHER ->
            Take(TRUE, DetermineAll(node.args, t, env))

(* determine_expr_type.  A node that has a type keeps it, and the caller   *)
(* is told that all is well.                                               *)
Determine(node, t, env) ==
  CASE node.t = "lit" -> DetermineLiteral(node, t)
    [] node.t = "id"  -> Check(Identical(env[node.name], t), node, t)
    [] node.t = "as"  ->
         LET r == Infer(node.e, env)
         IN  Check(Identical(node.to, t) /\ r.ok, [node EXCEPT !.e = r.node], t)
    [] node.t = "expr" /\ node.type # NoType -> Found(node, node.type)
    [] node.t = "expr" /\ node.type = NoType /\ node.op \in DOMAIN Fns ->
         Check(Identical(Fns[node.op].result, t), [node EXCEPT !.type = t], t)
    [] OTHER -> DetermineExpr(node, t, env)

(***************************************************************************)
(* The walk.  An operand has a type and is either a value of that type or  *)
(* the address of one (OT_Alloc): mem.  sound is FALSE when an assertion   *)
(* of the walk fails, or the instruction asked for does not exist for the  *)
(* value that the operand really is.                                       *)
(***************************************************************************)
Operand(node, type, mem, sound) ==
  [ok |-> TRUE, node |-> node, type |-> type, mem |-> mem, sound |-> sound]
Refused(node) == [Operand(node, NoType, FALSE, TRUE) EXCEPT !.ok = FALSE]
OperandIf(cond, node, type, mem, sound) ==
  IF cond THEN Operand(node, type, mem, sound) ELSE Refused(node)

AllSound(rs) == \A i \in DOMAIN rs : rs[i].sound
Scalar(t) == ~ IsPointer(t) /\ ~ IsArray(t)

RECURSIVE Walk(_, _)
WalkAll(nodes, env) == [i \in DOMAIN nodes |-> Walk(nodes[i], env)]

(* walk_literal                                                            *)
WalkLiteral(lit) ==
  LET r == InferLiteral(lit)
  IN  OperandIf(r.ok, r.node, r.type, FALSE, ~ IsArray(r.type))

(* Most operands are typed, and then walked.                               *)
WalkTyped(r, env) == IF r.ok THEN Walk(r.node, env) ELSE Refused(r.node)

(* walk_expr_as.  What is converted has the type its tree says.            *)
WalkAs(node, env) ==
  LET Converted(w, from) ==
        OperandIf(w.ok /\ CastExists(from, node.to), [node EXCEPT !.e = w.node],
                  node.to, IsArray(from) /\ IsPointer(node.to),
                  w.sound /\ (IsArray(from) /\ IsPointer(node.to) => w.mem))
      FromTree(w) == Converted(w, TypeInTree(w.node, env))
  IN  FromTree(WalkTyped(Infer(node.e, env), env))

(* check_and_determine_param_type.  An argument beyond the parameters is   *)
(* one of `...'.                                                           *)
Arguments(formals, args, env) ==
  LET Compared(d, formal) ==
        Check(d.ok /\ Identical(TypeInTree(d.node, env), formal), d.node, formal)
  IN  [i \in DOMAIN args |->
         IF i \in DOMAIN formals
           THEN Compared(Determine(args[i], formals[i], env), formals[i])
           ELSE Infer(args[i], env)]

(* walk_expr_call, with check_fn_define's count of the arguments           *)
WalkCall(node, env) ==
  LET fn == Fns[node.op]
      Returned(ws) ==
        OperandIf(/\ Len(node.args) >= Len(fn.formals)
                  /\ fn.varg \/ Len(node.args) = Len(fn.formals)
                  /\ AllOk(ws),
                  [node EXCEPT !.args = Nodes(ws)], fn.result, TRUE, AllSound(ws))
      Passed(as) == [i \in DOMAIN as |-> WalkTyped(as[i], env)]
  IN  Returned(Passed(Arguments(fn.formals, node.args, env)))

(* walk_expr_array.  The elements are compared with the type of the array, *)
(* as their trees have it.                                                 *)
WalkArray(node, env) ==
  LET Filled(array, ws) ==
        OperandIf(/\ AllOk(ws)
                  /\ \A i \in DOMAIN ws :
                       TypeInTree(ws[i].node, env) = Inner(array.type),
                  WithArgs(array, ws, array.type), array.type, TRUE, AllSound(ws))
      Typed(a) == IF a.ok THEN Filled(a.node, WalkAll(a.node.args, env))
                          ELSE Refused(node)
  IN  Typed(Infer(node, env))

(* walk_expr_arrayitem, extract_value_from_array                           *)
WalkItem(node, env) ==
  LET Picked(item, a, w) ==
        OperandIf(a.ok /\ IsArray(a.type) /\ w.ok /\ IsInteger(w.type),
                  WithArgs(item, <<a, w>>, item.type), item.type, TRUE,
                  a.sound /\ a.mem /\ w.sound)
      Typed(n) == IF n.ok THEN Picked(n.node, Walk(n.node.args[1], env),
                                      WalkTyped(Infer(n.node.args[2], env), env))
                          ELSE Refused(node)
  IN  Typed(Infer(node, env))

(* walk_unary_expr: the operator is allowed by the type in the tree, before*)
(* the operand is walked                                                   *)
WalkUnary(node, env) ==
  LET type == TypeInTree(node.args[1], env)
      w == Walk(node.args[1], env)
  IN OperandIf(/\ type # NoType
               /\ IF node.op = "neg" THEN ~ IsUnsigned(type)
                                     ELSE IsInteger(type) \/ type = T("bool")
               /\ w.ok,
               [node EXCEPT !.args = <<w.node>>], type, FALSE,
               w.sound /\ Scalar(type))

(* walk_expr_landor: the first operand is a branch condition, both go into *)
(* a phi of type bool                                                      *)
WalkLogic(node, env) ==
  LET ws == WalkAll(node.args, env)
  IN OperandIf(AllOk(ws), [node EXCEPT !.args = Nodes(ws)], ws[1].type, FALSE,
               AllSound(ws) /\ AllTyped(ws, T("bool")))

(* walk_expr_op2, handle_pointer_op.  The node must come out with the type *)
(* it has; one without a type gets it here.                                *)
WalkOp2(node, env) ==
  LET ws == WalkAll(node.args, env)
      l == ws[1].type
      r == ws[2].type
      moves == IsPointer(l) /\ IsInteger(r)
      type == IF node.op = "<" THEN T("bool") ELSE l
  IN OperandIf(/\ AllOk(ws)
               /\ IF moves THEN node.op = "+" ELSE node.op = "<<" \/ Identical(l, r),
               WithArgs(node, ws, IF node.type = NoType THEN type ELSE node.type),
               type, FALSE,
               /\ AllSound(ws)
               /\ moves \/ (Scalar(l) /\ Scalar(r))
               /\ node.op = "<<" => T("f64") \notin {l, r}
               /\ node.type \in {NoType, type})

(* walk_expr_deref: what is loaded counts as an address if it has a type   *)
(* of pointer                                                              *)
WalkDeref(node, env) ==
  LET w == Walk(node.args[1], env)
      type == Inner(w.type)
      mem == w.mem \/ IsPointer(type)
  IN OperandIf(w.ok /\ IsPointer(w.type), WithArgs(node, <<w>>, type), type,
               mem, w.sound /\ (~ w.mem => ~ mem))

(* walk_expr_address: the operand, as it is, with another type             *)
WalkAddress(node, env) ==
  LET w == Walk(node.args[1], env)
  IN OperandIf(w.ok, [node EXCEPT !.args = <<w.node>>], Pointer(w.type), FALSE,
               w.sound /\ w.mem)

(* walk_expr, and walk_id                                                  *)
Walk(node, env) ==
  CASE node.t = "lit" -> WalkLiteral(node)
    [] node.t = "id"  -> Operand(node, env[node.name], TRUE, TRUE)
    [] node.t = "as"  -> WalkAs(node, env)
    [] node.t = "expr" ->
         CASE node.op \in DOMAIN Fns  -> WalkCall(node, env)
           [] node.op = "as"          ->
                LET w == Walk(node.args[1], env)
                IN  [w EXCEPT !.node = [node EXCEPT !.args = <<w.node>>]]
           [] node.op = "array"       -> WalkArray(node, env)
           [] node.op = "item"        -> WalkItem(node, env)
           [] node.op = "sizeof"      -> Operand(node, T("u64"), FALSE, TRUE)
           [] node.op \in {"neg", "!"} -> WalkUnary(node, env)
           [] node.op = "deref"       -> WalkDeref(node, env)
           [] node.op = "&"           -> WalkAddress(node, env)
           [] node.op = "&&"          -> WalkLogic(node, env)
           [] OTHER                   -> WalkOp2(node, env)

(***************************************************************************)
(* Statements.  dest is the type of the place the value goes to, NoType if *)
(* it goes nowhere; an accepted statement may bind a name.                 *)
(***************************************************************************)
None == [kind |-> "none"]

Init ==
  /\ vars = [x \in DOMAIN Params \cup Locals |->
               IF x \in DOMAIN Params THEN Params[x] ELSE NoType]
  /\ mode = "ready"
  /\ stmt = None

RECURSIVE NamesIn(_)
NamesIn(node) ==
  CASE node.t = "lit"  -> {}
    [] node.t = "id"   -> {node.name}
    [] node.t = "as"   -> NamesIn(node.e)
    [] node.t = "expr" -> UNION {NamesIn(node.args[i]) : i \in DOMAIN node.args}

(* The parser has refused a name that is not in scope.                     *)
InScope(e) == \A x \in NamesIn(e) : vars[x] # NoType

(* The walk that follows the types, and what the handler asks of the type  *)
(* of the operand it leaves.                                               *)
Compile(kind, e, typed, dest, Fits(_), bind) ==
  /\ mode = "ready"
  /\ InScope(e)
  /\ \E w \in {WalkTyped(typed, vars)} :
       \E ok \in {w.ok /\ Fits(w.type)} :
         /\ mode' = IF ok THEN "done" ELSE "failed"
         /\ stmt' = [kind |-> kind, e |-> e, env |-> vars, ok |-> ok, dest |-> dest,
                     val |-> w.type, sound |-> w.sound]
         /\ vars' = IF ok THEN bind ELSE vars

Any(t) == TRUE

(* walk_letbind of a plain name: inference_letbind_type_both_side.  Types  *)
(* is the bound.                                                           *)
LetBind(x, e) ==
  LET i == Infer(e, vars)
  IN /\ mode = "ready" /\ InScope(e)
     /\ i.ok => i.type \in Types
     /\ Compile("let", e, i, i.type, Any, [vars EXCEPT ![x] = i.type])

(* walk_letbind of a name with a type: inference_letbind_type              *)
LetTyped(x, t, e) ==
  Compile("typed let", e, Determine(e, t, vars), t, Any,
          [vars EXCEPT ![x] = t])

(* inference_assign_type, reduce_node_and_type_group without an operator   *)
AssignType(x, e) ==
  LET t == TypeInTree(e, vars)
  IN  IF t = NoType THEN Determine(e, vars[x], vars)
                    ELSE Check(Identical(t, vars[x]), e, t)

(* walk_assign                                                             *)
Assign(x, e) ==
  /\ vars[x] # NoType
  /\ Compile("assign", e, AssignType(x, e), vars[x],
             LAMBDA t : Identical(t, vars[x]), vars)

(* reduce_node_and_type_group with the operator of an assignment: two types*)
(* that are there already are not compared                                 *)
OpAssignType(x, op, e) ==
  LET t == TypeInTree(e, vars)
      i == IF t = NoType THEN Infer(e, vars) ELSE Found(e, t)
  IN  IF IsPointer(vars[x]) THEN Check(op = "+" /\ i.ok /\ IsInteger(i.type), i.node, vars[x])
      ELSE IF t = NoType THEN Determine(e, vars[x], vars)
      ELSE Found(e, vars[x])

(* walk_assign with an operator; inplace_assignop_assistant                *)
OpAssign(x, op, e) ==
  /\ vars[x] # NoType
  /\ Compile("op assign", e, OpAssignType(x, op, e), vars[x], Any, vars)

(* walk_dbgprint                                                           *)
DbgPrint(e) ==
  Compile("print", e, Infer(e, vars), NoType, Any, vars)

(* walk_while, walk_if_common2: a condition                                *)
Condition(e) ==
  Compile("condition", e, Infer(e, vars), NoType, LAMBDA t : t = T("bool"), vars)

(* the types that are one to LLVM: the sign is not in them                 *)
LLVMType(t) == [i \in DOMAIN t |-> IF t[i] = "u8" THEN "i8" ELSE t[i]]

(* walk_ret                                                                *)
Return(e) ==
  Compile("return", e, Determine(e, Result, vars), Result,
          LAMBDA t : LLVMType(t) = LLVMType(Result), vars)

(* walk_expr of a statement: nothing has typed its tree                    *)
CallStmt(e) ==
  /\ e.t = "expr" /\ e.op \in DOMAIN Fns
  /\ Compile("call", e, Found(e, NoType), NoType, Any, vars)

(* the walk goes on behind a statement it has compiled                     *)
NextStatement ==
  /\ mode = "done"
  /\ mode' = "ready"
  /\ stmt' = None
  /\ UNCHANGED vars

Next ==
  \/ \E e \in Exprs :
       \/ \E x \in Locals :
            \/ LetBind(x, e)
            \/ \E t \in LetTypes : LetTyped(x, t, e)
            \/ Assign(x, e)
            \/ \E op \in {"+", "*", "<<"} : OpAssign(x, op, e)
       \/ DbgPrint(e)
       \/ Condition(e)
       \/ Return(e)
       \/ CallStmt(e)
  \/ NextStatement

Spec == Init /\ [][Next]_state

(***************************************************************************)
(* The reference: the types that an expression can have, for every reading *)
(* of the literals in it, without any order of inference.                  *)
(***************************************************************************)
Ranges == [i8 |-> 0 .. 127, u8 |-> 0 .. 255, i16 |-> -32768 .. 32767]
NumberFits(val, t) ==
  \/ t = T("i32") \/ t = T("f64")
  \/ t = T("u64") /\ val >= 0
  \/ Tok(t) \in DOMAIN Ranges /\ val \in Ranges[Tok(t)]

(* A number may have the type of its postfix, or any type it fits in.  One *)
(* with a minus is at least an i16, and 0 is every pointer's null.         *)
Primitive == {T(name) : name \in Integer \cup {"f64", "bool"}}
LiteralTypings(lit) ==
  {t \in Primitive \cup {Pointer(s) : s \in Primitive \cup Types} :
                 /\ lit.postfix \in {NoType, t}
                 /\ CASE lit.kind \in {"U64", "I64"} ->
                           IF IsPointer(t)
                             THEN lit.kind = "U64" /\ lit.val = 0
                             ELSE /\ NumberFits(lit.val, t)
                                  /\ lit.kind = "I64" => t # T("i8") /\ ~ IsUnsigned(t)
                      [] lit.kind = "F64"  -> t = T("f64")
                      [] lit.kind = "BOOL" -> t = T("bool")
                      [] lit.kind = "I8"   -> t = T("i8")}

RECURSIVE Typings(_, _)
Typings(node, env) ==
  IF node.t = "lit" THEN LiteralTypings(node)
  ELSE IF node.t = "id" THEN {env[node.name]}
  ELSE IF node.t = "as" THEN {t \in {node.to} : \E s \in Typings(node.e, env) :
                                                   CastExists(s, t)}
  ELSE IF node.op \in DOMAIN Fns
    THEN LET fn == Fns[node.op]
         IN {t \in {fn.result} :
               /\ Len(node.args) >= Len(fn.formals)
               /\ fn.varg \/ Len(node.args) = Len(fn.formals)
               /\ \A i \in DOMAIN node.args :
                    IF i \in DOMAIN fn.formals
                      THEN fn.formals[i] \in Typings(node.args[i], env)
                      ELSE Typings(node.args[i], env) # {}}
  ELSE IF node.op = "sizeof" THEN {T("u64")}
  ELSE LET a == Typings(node.args[1], env)
           b == IF Len(node.args) = 2 THEN Typings(node.args[2], env) ELSE a
       IN CASE node.op = "as"    -> a
            [] node.op = "array" -> {Array2(t) : t \in a \cap b}
            [] node.op = "item"  -> {Inner(t) : t \in {s \in a : IsArray(s) /\ \E i \in b : IsInteger(i)}}
            [] node.op = "deref" -> {Inner(t) : t \in {s \in a : IsPointer(s)}}
            [] node.op = "&"     -> {Pointer(t) : t \in a}
            [] node.op = "neg"   -> {t \in a : ~ IsUnsigned(t)}
            [] node.op = "!"     -> {t \in a : IsInteger(t) \/ t = T("bool")}
            [] node.op = "&&"    -> a \cap b \cap {T("bool")}
            [] node.op = "<"     -> {t \in {T("bool")} : a \cap b # {}}
            [] node.op = "<<"    -> {t \in a : \/ t \in b
                                               \/ IsInteger(t) /\ \E i \in b : IsInteger(i)}
            [] node.op = "+"     -> {t \in a : \/ t \in b
                                               \/ IsPointer(t) /\ \E i \in b : IsInteger(i)}
            [] node.op = "*"     -> a \cap b

(* a tree and the trees in it                                              *)
RECURSIVE Subtrees(_)
Subtrees(node) ==
  {node} \cup
  CASE node.t \in {"lit", "id"} -> {}
    [] node.t = "as"            -> Subtrees(node.e)
    [] node.t = "expr" -> UNION {Subtrees(node.args[i]) : i \in DOMAIN node.args}

IsExpr(node, ops) == node.t = "expr" /\ node.op \in ops

InMemory(node) == node.t = "id" \/ IsExpr(node, {"item", "deref"} \cup DOMAIN Fns)

(* Expressions that mean nothing and yet are not refused by any phase:     *)
(* pointers or arrays under an operator (two of them, or one alone), an f64*)
(* that is shifted, && of no bool, the address of a value, an address that *)
(* was computed and leads to a pointer.                                    *)
Meaningless(node, env) ==
  LET Under(i) == Typings(node.args[i], env)
      common == {t \in Under(1) : Len(node.args) = 2 => t \in Under(2)}
  IN \/ IsExpr(node, {"+", "*", "<", "<<", "neg"}) /\ \E t \in common : ~ Scalar(t)
     \/ IsExpr(node, {"<<"}) /\ T("f64") \in common
     \/ IsExpr(node, {"&&"}) /\ \E t \in common : t # T("bool")
     \/ IsExpr(node, {"&"}) /\ ~ InMemory(node.args[1])
     \/ /\ IsExpr(node, {"deref"}) /\ ~ InMemory(node.args[1])
        /\ \E t \in Under(1) : IsPointer(t) /\ ~ Scalar(Inner(t))
     \/ /\ IsExpr(node, {"as"})
        /\ IsExpr(node.args[1].e, {"deref"})
        /\ \E t \in Typings(node.args[1].e, env) : IsArray(t)

(* sizeof has its type from the parser, which a place with a type does not *)
(* look at; and a 0 is taken for an array there.                           *)
Unseen(e, dest) ==
  \E n \in Subtrees(e) :
    \/ IsExpr(n, {"sizeof"})
    \/ IsArray(dest) /\ n.t = "lit" /\ n.val = 0

(* the statements that push a type down                                    *)
Placed == {"typed let", "assign", "op assign", "return"}

Meaningful ==
  /\ \A n \in Subtrees(stmt.e) : ~ Meaningless(n, stmt.env)
  /\ stmt.kind \in Placed => ~ Unseen(stmt.e, stmt.dest)

(***************************************************************************)
(* Properties.                                                             *)
(***************************************************************************)
(* Type invariant: a parameter keeps its type, a name that is bound has one*)
(* of the source's types.                                                  *)
TypeOK ==
  /\ mode \in {"ready", "done", "failed"}
  /\ mode = "ready" <=> stmt = None
  /\ \A x \in DOMAIN vars : IF x \in DOMAIN Params /\ x \notin Locals
                              THEN vars[x] = Params[x]
                              ELSE vars[x] \in Types \cup {NoType}

(* A statement that compiles leaves an operand whose type is one the       *)
(* expression can have: the defaults of inference_literal_type, the types  *)
(* pushed down by determine_expr_type and those found again by the walk    *)
(* never combine into something the language would not allow.              *)
CompiledHasTyping ==
  mode = "done" /\ stmt.val \notin Typings(stmt.e, stmt.env) => ~ Meaningful

(* The walk ends with the type that the first phase has promised: a name   *)
(* bound by walk_letbind, a variable assigned and the value of walk_ret    *)
(* have the type of the value stored, although a let is not checked again  *)
(* after the walk, and a return only for its representation.               *)
PlaceHasTypeOfValue ==
  /\ mode = "done"
  /\ stmt.kind \in {"let", "typed let", "assign", "return"}
  /\ stmt.val # stmt.dest
  => ~ Meaningful

(* No assertion of walk_expr_op2 or handle_pointer_op fails, and no        *)
(* operand is an address where its type says value, or the other way round,*)
(* but for the expressions that mean nothing.                              *)
OperandsAreSound ==
  mode = "done" /\ ~ stmt.sound => ~ Meaningful

(* all the literals of a tree have their type from the source              *)
Explicit(e) ==
  \A n \in Subtrees(e) :
    n.t = "lit" => n.postfix # NoType \/ n.kind \in {"BOOL", "F64"}

(* Inference has no blind spot: where every literal has its type, an       *)
(* expression is refused only if it has no typing at all (a condition, if  *)
(* none is bool).                                                          *)
ExplicitIsDecided ==
  mode = "failed" /\ stmt.kind \in {"let", "print", "condition"} /\ Explicit(stmt.e)
    => \/ Typings(stmt.e, stmt.env) = {}
       \/ stmt.kind = "condition" /\ T("bool") \notin Typings(stmt.e, stmt.env)

(* The tree is arithmetic with type t all over: its leaves may be t.       *)
RECURSIVE Uniform(_, _, _)
Uniform(e, t, env) ==
  IF IsExpr(e, {"+", "*", "<<", "neg", "!"})
    THEN \A i \in DOMAIN e.args : Uniform(e.args[i], t, env)
    ELSE /\ t \in Typings(e, env)
         /\ e.t = "lit" \/ Explicit(e)
         /\ IsExpr(e, {"&"}) => e.args[1].t = "id"

(* Where a scalar type is pushed down (a let with a type, an assignment, a *)
(* return), it reaches every literal: an expression whose leaves can all   *)
(* have the type, and whose operators allow it, is not refused.            *)
UniformIsDetermined ==
  mode = "failed" /\ stmt.kind \in {"typed let", "assign", "return"}
    => ~ /\ Scalar(stmt.dest)
         /\ stmt.dest \in Typings(stmt.e, stmt.env)
         /\ Uniform(stmt.e, stmt.dest, stmt.env)

(***************************************************************************)
(* What the documents and comments say, and the code does not do.          *)
(***************************************************************************)
(* The book: a let whose type is not that of its value is reported.  The   *)
(* generator only pushes the type down (walk_letbind), and sizeof, typed by*)
(* the parser, does not take it.                                           *)
TypedLetIsChecked ==
  mode = "done" /\ stmt.kind = "typed let" => stmt.val = stmt.dest

(* create_literal, rule 2: an operand that is a free literal takes the type*)
(* of the literal on the other side.  Inference gives it its default type. *)
FixedLiteralGuides ==
  ~ /\ mode = "failed" /\ stmt.kind = "let"
    /\ IsExpr(stmt.e, {"+", "*"})
    /\ \A i \in 1 .. 2 : stmt.e.args[i].t = "lit"
    /\ Typings(stmt.e, stmt.env) # {}

(* inference_assign_type, rule 2: two types that are there must match.  With*)
(* an operator, reduce_node_and_type_group does not compare them.          *)
OpAssignTypesMatch ==
  mode = "done" /\ stmt.kind = "op assign" /\ Scalar(stmt.dest) => stmt.val = stmt.dest

(* determine_expr_expr_type: only a variable has an address.  Inference    *)
(* asks for none.                                                          *)
AddressOfVariable ==
  mode = "done" => \A n \in Subtrees(stmt.e) : IsExpr(n, {"&"}) => InMemory(n.args[1])

=============================================================================
