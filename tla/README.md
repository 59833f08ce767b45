# A TLA+ model of the CA compiler

CA is a small Rust-like language; its compiler (`src/src`) is written in C, C++,
flex, bison and LLVM.  This directory holds TLA+ modules for the parts of the
compiler whose correctness depends on the *order* of many steps, the TLC
configurations that check them on small instances, and proofs of the theorems
that hold for every instance.

The compiler is a sequential program.  What makes it hard is not concurrency: it
is global state that two passes over the same program must move in step.  The
parser changes a handful of globals in grammar actions, some of which undo others
hundreds of lines away; the code generator walks the tree twice and has to
reproduce, at every node, the state the parser had there.  A unit test sees one
source text.  The modules here let the source text be *arbitrary*: the
nondeterminism of each model is the program being compiled.

## 1. Inventory

`ca.cpp` runs: `yyparser_init` → `yyparse` (builds the tree, fills the symbol
tables) → `walk` (pass 1: prototypes; pass 2: code; then a comparison of the
number of lexical bodies seen in each pass) → `llvm_codegen_end`.  An error in any
of them is `caerror`/`yyerror`, which prints and exits.

| component | state | operations | what is hard | properties |
|---|---|---|---|---|
| parser scopes (`ca.y`, `ca_parser.c`) | `curr_symtable`, `curr_fn_symtable`, `current_trait_id`, `type_impl_stack` with `fn_def_recursive_count`, `curr_arglist` | grammar actions that push and pop tables, begin and end functions, traits, impls | a push and its pop are in different actions; `-main` takes main's table off the tree and hangs it back; counters and flags must come back to their value | names go to the scope they are written in; labels to their function; exactly the impl's functions are methods; every chain of tables ends at the root |
| symbol tables (`symtable.h`, `symtable_cpp.cpp`) | tables linked by `parent`, entries, pools of names | insert, look up, look up through the chain, associated tables | chains that are re-linked | look-up terminates and finds the innermost entry |
| variable shielding (both passes) | `CAVariableShielding.varlist` and `.current` per entry | `register_variable`, `varshielding_rotate_variable`, `..._capattern` | the generator's rotations must follow the parser's registrations let by let, also during inference and when a body is walked several times | a name means the textually latest let; rings are at rest between walks; a parameter's type is the declared one |
| control flow (`IR_generator.cpp`) | insertion point, `curr_fn_stack`, `label_map`, `g_loop_controls`, `g_with_ret_value` | one `walk_*` function per statement | blocks terminated in mid-statement; functions inside functions inside loops; phis | every finished function is well formed; reachability is that of the source; the insertion point stays in the function |
| two-pass walk (`IR_generator.cpp`) | `walk_pass`, `curr_lexical_count`, `lexical_scope_stack`, `function_map` | `walk_lexical_body`, `mangling_function_name` | pass 2 must number the blocks as pass 1 did | same names in both passes; different functions, different names |
| type system (`type_system*.cpp`) | maps of types by signature; `CALiteral.fixed_type`, `.datatype` | how a literal gets its type, conversion tables, unwinding type names | tables by kind and by type, ranges at their bounds | a literal's type is one its kind and value allow |
| type inference (`ca_parser.c`, the `walk_expr_*` of `IR_generator.cpp`) | `expr_type` in the tree, types of variables | `inference_expr_type`, `determine_expr_type`, `reduce_node_and_type_group`, the walk of an expression | two directions of inference, and the walk computes every type again; nodes that have a type are not looked at | what compiles has a typing; the place has the type of the value; operands are what their type says; what can be decided is decided |
| type names (`type_system.cpp`) | `s_symtable_type_map`, `s_type_map`, the names being unwound | `catype_get_by_name`, `catype_unwind_type_*`, `catype_formalize_type` | definitions that refer to each other and to themselves, through pointers, arrays, aliases and two scopes; objects made on request, in any order | exactly the types of finite size are accepted; one type, one object; objects have the structure and layout of the definitions |
| methods, traits, impls (`symtable_cpp.cpp`, `ca_parser.c`, `IR_generator.cpp`) | `StructImplInfo` of each class, `TypeImplInfo` | `runable_find_entry`, `runable_add_entry`, `walk_fn_define_impl`, `check_trait_impl_match` | several candidates per name; three tables per class that are searched separately | a call reaches the one method it means; an implemented trait is complete; a default method is found with its Self |
| default methods (`IR_generator.cpp`) | `SymTable.assoc`, `generic_type_stack`, types in entries and in the tree | `generic_type_record_replace`, `generic_type_handle_replace`, `check_and_determine_param_type` | one tree walked for several classes; what one walk writes the next one reads; calls change the association of a method that is being walked | self means the class the copy is for; nothing is left between copies; callers are accepted |
| loops (`walk_for`) | index and item slots in the code generated, `g_loop_controls` | `walk_for`, `walk_break`, `walk_continue` | the step comes before the body, the comparison depends on sign and kind of range; loops entered again | members in order, each once; loops end |
| slices (`extract_value_from_array`) | none: the code generated for one access | `walk_range`, `llvmcode_create_slice` | six forms of range, in any integer type | start and length are those of the range |
| patterns | see VarShielding | | a pattern binds several names at once | as shielding |
| operand stack, box and drop | operands of the expression being walked | `push_back`, `pop_right_operand` | | not modelled: pushed and popped in one handler |
| lexer, driver, debug information, LLVM wrappers, runtime, dot output | little or none | | | not modelled: input/output or forwarding |

The hazards, each at its line, are in PROJECT.json.

## 2. Modules

```
LexicalBinding  <--refines--  VarShielding   <--proofs-- VarShieldingProofs
StructuredFlow  <--refines--  FnCodegenFlow  --extends--> FnCodegen
                              FnCodegen      <--proofs-- FnCodegenProofs
ForEach         <--refines--  ForLoop        <--proofs-- ForLoopProofs
                              MethodLookup   <--proofs-- MethodLookupProofs
                              TraitCopies    <--proofs-- TraitCopiesProofs
                              ArraySlice     <--proofs-- ArraySliceProofs
                              ParserScope    <--proofs-- ParserScopeProofs
                              LexicalWalk    <--proofs-- LexicalWalkProofs
TypeNames
LiteralTypes  <--extends--  TypeInference
```

An `MC...` module gives the constants of the module of that name values that a
configuration file cannot write.  The modules share no variables.  In the compiler they
are coupled through the tree: ParserScope decides which table a name enters, VarShielding
which variant of it is meant, LexicalWalk what a function is called, MethodLookup which
method a call means, TraitCopies what its Self is, FnCodegen where its code goes,
TypeInference what type each expression has, TypeNames what object a type is, ForLoop
and ArraySlice what the code does when it runs.

### VarShielding, LexicalBinding

An entry of a symbol table (`STEntry`) is a pair of table and name; `varlist[e]` and
`current[e]` are its two fields.  One module state machine covers the life of a
function: parsing an arbitrary body (`OpenBlock`, `ParseUse`, `BeginLet`, `EndLet`,
...; what has been parsed is the tree, `prog`), then any number of walks.
`walk_letbind` is split at the places where other code runs between its rotations:
`LetForward`, `InferBack`, `InferRead`, `InferForward`, `LetWalkRight`, and, when the
right-hand side has been walked, `LetBind`.  A let inside the block of a right-hand
side is not modelled, nor are variable arguments.  The history variable `obs` holds
what the last look-up found and what it should have found; `reg` in a tree element
is how many variants each entry had when the element was parsed.

`LexicalBinding` says the same without lists: each name has a binding in force, and
a let moves it up by one.  The refinement maps the binding in force to `current`, or
to the last of `varlist` while a let has rotated ahead of its right-hand side.

### FnCodegen, StructuredFlow, FnCodegenFlow

The control stack `ctl` is the C++ call stack of the walk: a frame per open function
or construct, with the *parts* that still have to be generated.  A part is what the
code emits at one place as a list of hops: branch to these blocks, insert that block.
Blocks are numbers; `ir.fn` says which function a block has been inserted into,
`ir.out` which terminators it has.  A logical operator, an ife and a condition are
places for an expression, which may contain further logical operators.  The last
condition of an if goes on into the first body.  `Break`, `Continue`, `Return`,
`Goto` and `DefineLabel` put a terminator in the current block and open a fresh one,
as the code does.  An early `caerror` is phase "failed".
`g_loop_controls` and `label_map` are one for the whole module, as in the code: whether
break and continue reach past the function they are in, and whether labels of two
functions may have one name, are the constants `InnerBreaks` and `SharedLabels`.

`StructuredFlow` has no blocks: one bit, `live`, says whether control can reach the
place being compiled, and each open construct knows whether its end can be reached.
FnCodegenFlow adds to FnCodegen the closure of the branches from the functions' entries
(auxiliary variables only) and maps `live` to "the insertion block is reached".

### ParserScope

`parent`, `fnsyms` and `labels` are the tables; `curr`, `currFn`, `trait`, `impls` and
`varg` the parser's globals.  `ctx` is a history variable: the constructs of the source
that are open, with the table each of them created.  The properties compare the
globals with `ctx`.  Every grammar action that touches the globals is an action.
`obs` is how the last name was recorded, and how it was written.

### LexicalWalk

First the source is built (`ast`, a list of bodies and ends, each body a function, a
generic function, a block, a loop or branch body, or a block inside a value); then
the walk follows both passes over it.  `Enters` says which bodies a pass descends into:
`EnterBody` walks one (`walk_lexical_body` counts it and pushes its scope), `SkipBody` passes over one
with all that is in it, and `LeaveBody` and `LeaveSkipped` are their ends.  `scopes` is
`lexical_scope_stack`; `skipped` is how many bodies are open of which the pass knows nothing.
`named` collects the mangled names of the functions.  The condition of two properties, that a source
has no body that only one pass descends into, is read off the source alone (`Encloses`,
`OnePassOnly`).  Names and ids meet in one list, so that a name is assumed to be no
number (`NameAssumption`: an identifier does not begin with a digit).

### LiteralTypes, TypeInference, MCTypeInference

`LiteralTypes` is the part of `type_system.cpp` that decides the type of a literal: from its
postfix, its default, or the type the place asks for; with the tables of what converts and the
checks of range.  It has no recursion and no state.

`TypeInference` is the compilation of one statement after another.  A statement's tree is an
element of `Exprs`, a node a record with `expr_type` as `type`.  `Infer` and `Determine` return
the tree *with the types they leave in it*, because the later phases skip a node that has a
type; `Walk` is the second computation of types, by the `walk_expr_*` functions, on the
tree so typed, and says besides whether the operand is a value or the place of one (`mem`) and
whether every assertion and instruction on the way fits (`sound`).  Each kind of statement is
an action (`LetBind`, `LetTyped`, `Assign`, `OpAssign`, `DbgPrint`, `Condition`, `Return`,
`CallStmt`): phase one as this statement does it, the walk, and the check the handler makes of
the result.  An error (`caerror` exits) is mode "failed", which is final.  `vars` holds the
types of the names; the next statement sees what a let has bound.

The fragment: i8, i16, i32, u8, u64, f64, bool, pointers, arrays of two.  "+" stands for + and
-, "*" for * / and %, "<" for the six comparisons, "<<" for both shifts, "&&" for && and ||; the
bit operators behave as "*".  i64, u16, u32 and f32 repeat what other types of their sign
do.  Values are below the greatest i32, so that the ranges of i8, u8 and i16 are met and the
wider ones are not.  Structs, tuples, ranges, slices, methods, ife and strings are left out.

The reference is `Typings`: the set of types an expression can have for some reading of its
literals, defined from the operators without any order.  The generator accepts some
expressions that have no meaning, and the properties exempt exactly those, by name
(`Meaningless`, `Unseen`): arithmetic or a comparison on two pointers or arrays, an f64 that is
shifted, && of operands that are not bool, the address of a value that is in no memory
(`&5`), a dereference of a computed address that leads to another pointer, `as` of a
dereferenced array, `sizeof` and 0 where a type is pushed down.  Conversely inference refuses
some expressions that have a typing, because a free literal gets its default before its
neighbour is looked at (`1 + 5i16`); `-1i8` is refused because a number with a minus is
at least an i16; and a place with a type refuses `n << 1u8` and `&a[0]`, which a let without
one accepts.  `ExplicitIsDecided` and `UniformIsDetermined` say where it must not refuse.

### ForLoop, ForEach, MCForLoop

The only module besides ArraySlice whose variables are those of the *generated* program: a
nest of `Depth` loops with, per loop, the list's ends in memory (`list`) and as loaded on
entry (`ran`), the index slot and the item slot, and one program counter over `condbb`,
`loopbb` and `endloopbb`.  `Compare` and `Step` do what the instructions selected by
`aux_create_compare_value_for` and the add do to the bits of the type.  The body may do what a
body can: go on, continue, break, enter the inner loop, assign to an item variable or to a
variable some loop has for its list.  `count`, a history variable, is the number of bodies
begun since the loop was entered.

`ForEach` knows neither indices nor blocks: a loop is the set of the members still to visit.
What is still to visit is read off the index slot (`Todo`).  A range that includes the
greatest value of its type is the exception both must allow: the index wraps and the loop goes
on with the least value (`Endless`; `again` in ForEach).

### ArraySlice, MCArraySlice

One access `a[i]` or `a[range]` in a program where index and range lie in the array; nothing
in the code checks this.  `Length` and `Offset` are the values the generator emits for each form of
range, `Wrap` the arithmetic of the range's type, `SignExtended` what getelementptr does with
an index narrower than a pointer.  Addresses are counted in items.

### TypeNames, MCTypeNames

The definitions of two nested scopes are chosen at the start (`defs`); then types are
asked for.  `Unwind` is `catype_unwind_type_signature_inner` with its three sets: the structs
around the place (which become references back), the aliases, and the names that would contain
themselves by value.  `Laid` and the operators around it are `catype_formalize_type_layout`,
with the field that is passed over while it is being laid out further up.  An answer is an
object made (`Create`), one found by signature (`Share`) or an error, which ends the compiler
(`Refuse`).  `Meaningful` is the reference, defined on the graph of the definitions: no type
reaches itself without a pointer.  `Canonical` is the identity of a type that is asked for: aliases
are resolved and every struct name, also inside pointers, arrays and tuples, is replaced by the
definition it has in its scope; `SameTypeSameObject` compares the objects of requests by it, so that a
struct of the outer scope and the same struct seen from the inner one have to share an object although
`bySite`, like the code's map, has an entry per scope.  `Shadowing` says that a name means different things in the two
scopes; the code compares names there, and the properties exempt it by name.

### MethodLookup, MCMethodLookup, MethodLookupProofs

`ParseImpl` reads an impl; `DeclareImpl` is `walk_fn_define_impl` of pass 1 with the comparison of
impl and trait, the copies of default methods and the recording into the class's three tables;
`CallMethod` is a call in pass 2, by dot, by path, through a trait's name or by `as`, that finds
one method, and `RefuseCall` one that is an error and ends the compiler.  A trait
has two numbers in the compiler, the identifier's and the type's, and so it has here
(`NameId`, `TypeId`).  Signatures are one bit: they fit the trait's or they do not.
The references (`Meant`, `Implements`, ...) read only the impls as written.  The impls stand where
both passes come to them.  One in a block that is a value is met by pass 2 only, and one in a branch
or loop outside every function, without `-main`, by pass 1 only (the bodies LexicalWalk calls
`OnePassOnly`); such impls are not modelled.

### TraitCopies, MCTraitCopies

The walk of the bodies of a trait's default methods, for the classes that take them over, in any
order of the impls, with the calls that other functions make before, between and after.
A method has one table and one tree.  `assoc` is the association on each method's table,
`self` and `lets` the types in its entries, `node` the types in the tree, `recorded` the entries
`generic_type_handle_replace` is to take back.  A body is any sequence of five kinds of
statements, each in the body or in a block of it, or a call of some copy.  `Refuse` is an
error, "aborted" the assertion in `walk_expr_op2_calc`.  Left out: default methods without
self, the inference of Self from the result of a method, redefined variables.

## 3. Runs

Passing runs:

| run | bounds | time | shows |
|---|---|---|---|
| VarShielding | two names, one a parameter; two tables; four elements; two walks | 20 s | every use means the latest let; rings at rest between walks; formals read as declared; refinement of LexicalBinding |
| FnCodegen | four constructs, two labels, functions with and without value | 6 s | well-formed functions, phis, insertion point, return flag |
| FnCodegenFlow | five constructs | 100 s | refinement of StructuredFlow |
| ParserScope | both with and without -main; three tables besides the root's and main's, nesting four, one label | 80 s | scopes, homes of names, labels, methods |
| LexicalWalk | both; sources of up to eight beginnings and ends of bodies, two names | 15 s | distinct names; second pass repeats names and counts |
| TypeInference | four parameters (i16, u8, pointer, array), one local of seven types; every tree of depth one over seven operands, some 330 of depth two | 80 s | what compiles has a typing; the place has the value's type; operands are sound; what the leaves or the place decide is not refused |
| ForLoop | two nested loops; two-bit types, signed and unsigned, arrays, both kinds of range; one assignment by a body | 10 s | members in order, all of them, whatever the bodies do; every loop ends; refinement of ForEach |
| ArraySlice | all forms of range; types of 3, 4 and 7 bits; arrays of 1 to 16 | 2 s | lengths of slices; slices from the array's start |
| TypeNames | two names, one of them in both scopes; structs of up to two members, aliases; members by value, behind pointers, in arrays and tuples; two requests, each by either name, a pointer, or a tuple of an array, from either scope | 90 s | exactly the types of finite size are accepted; one object per type, from whatever scope and by whatever alias it is asked for; structure and layout of objects |
| MethodLookup | one class, two traits, two methods, three impls in one scope | 15 s | plain calls reach the method they mean; traits are complete; copies are found with their Self |
| TraitCopies | two classes, two default methods with bodies of up to three statements and one | 50 s | nothing left between copies; self and typed lets mean the implementor; outside calls are accepted |

Why the bounds are enough.  Shielding: the first name that goes wrong needs a
parameter (one variant before the body), two lets, and a second walk; two names tell a
pattern from a single variable, two tables an inner scope from an outer one.  Beyond
the bounds the theorems of section 5 apply.  Control flow: four constructs are
a function, two nested constructs and a jump, which give every pair of a construct
and a jump in it; five (in FnCodegenFlow) add what follows.  Parser: a restoration
goes wrong at the first name after a construct in a construct; nesting four is an inner
construct in a function in an impl in a block.  Walks: eight places are a function in a
block in a function, and a second function of the same name beside it.  Types: every rule looks
at a node and its operands, so depth one meets each rule with each kind of operand, and depth
two each rule on an operand that an earlier rule has typed; a type found wrong needs a second
statement only through the type of a name, which the local provides.  Loops: two bits have
a sign, a least and a greatest value and one in between; a nest of two meets every entry of
`g_loop_controls` with another above or below it; the theorems hold for all types and depths.  Slices: the
7-bit type stands for i64, and the others are narrower and as far from it as i8; the arithmetic
is uniform in the width.  Type names: a circle needs two definitions, a layout that is passed
over a member by value inside one behind a pointer; the second request meets what the first one
left in the tables.  Methods: two traits are the least with an ambiguity, three impls the class's own and
both traits', in every order.  Copies: the second class is the first that can meet what another left;
three statements are a use before and after a call or a use between two others; beyond that the
theorems apply.

Where a run is restricted it is because the code goes wrong outside (see below): in ParserScope
the sources compiled with `-main` have no functions inside blocks and no trait methods
without body (constant `Nested`), and `LabelsInTheirFunction` has as its condition that no
function is named outside the root's table; `SecondPassFindsPrototypes` and
`CountsAgreeOnStatements` have as their condition that no body so far is one that only one
pass descends into; FnCodegen gives labels of different functions different names, and is
without `-main` and without a break or continue in a function that belongs to a loop around the
function; `Terminates` and `ItemsInOrder` exempt loops whose list includes the greatest value of
its type; `PrefixesAreTheirRange` is about ranges from the array's start and about the lengths of
all but a..=b; MethodLookup writes the impls into one scope and its plain-call property is about
calls that name no trait; TypeNames exempts names that mean different things in the two scopes,
circles through an alias, and the layout of members whose size was not known when they were
unwound; TraitCopies has no property of the types in nodes; the properties of TypeInference exempt the expressions listed with the module.
Deadlock is not checked in these modules because a source may end anywhere and an error
stops the compiler; VarShielding, which has a first and a last state for every
source, is checked for it (`ReadFormal` and `ReadSelf` stay possible between walks).

A type invariant is checked where a proof rests on it.  The other modules state theirs too
(`TypeOK`), for the reader; it can be added to their configurations.

Configurations TLC refutes: the code disagrees with what a comment, a message, a document or a
test of the repository says.  The one marked * is a listed run, quoted in PROJECT.json
`findings`; the others are run the same way, by hand.  A configuration with several
properties states each of them; keep one to see its counterexample.

| configuration (module) | property | what TLC finds |
|---|---|---|
| ArraySliceStart * (MCArraySlice) | SlicesStartAtTheirRange | the start of a range counts whole arrays; `book/ca-book.md:628-633` shows slices of one array that lie one array apart |
| ArraySliceRefuted (MCArraySlice) | SlicesHaveAllOfTheirRange | `a..=b` is one item short: `IR_generator.cpp:847` compares a type with a kind of range |
| | ItemsAreAddressed | a u8 index of 128 or more is extended by its sign |
| VarShieldingRefuted | RecursiveCallSeesDeclaredType | a recursive call after `let` of a parameter's name is checked against a let (`book/ca-book.md:1313`) |
| | MethodCallSeesDeclaredSelf | self is read without rotating; the message at `IR_generator.cpp:3300` speaks of "the parameter declared type" |
| FnCodegenSharedLabel | BranchesStayInFunction | a label of the same name in two functions (`ca.y:50`: label is function scope symbol) |
| FnCodegenInnerBreak | BranchesStayInFunction | a break in a function inside a loop body leaves the loop of the function around it; `IR_generator.cpp:1248` |
| FnCodegenMainRefuted | TopLevelCodeContinues | -main: statements after loop + function are never reached (`book/ca-book.md:2507`) |
| | InsertionPointInBody | the same from the builder's side; the comment at `IR_generator.cpp:4600` says the old block is saved and restored |
| FnCodegenInnerReturn | RejectedIfNoReturn | a missing return (`IR_generator.cpp:4567`) is hidden by an inner function's |
| ParserScopeMainRefuted | ParentChainsReachRoot | -main: extern or function in a block: main is its own parent (`ca.y:34`) |
| | OutOfFunctionsIsMain | -main: a trait prototype leaves the parser outside main (`ca.y:35`) |
| ParserScopeRefuted | LabelsPassInnerFunctions | a label after an inner function or extern has no table |
| | InnerFunctionsArePlain | a function in a default method becomes a method (`docs/todo-inner-miscs.md:138`: inner functions are supported) |
| | PrototypeIsAsWritten | `fn g()` after a variadic prototype is recorded as variadic (`ca.y:274`) |
| LexicalWalkIfe | LexicalCountsAgree | an ife in a value ends in the internal error of `IR_generator.cpp:5423` |
| TypeInferenceRefuted (MCTypeInference) | TypedLetIsChecked | `let x: u8 = sizeof(T)` compiles (`book/ca-book.md:199`) |
| | FixedLiteralGuides | `1 * 5i16` is refused although rule 2 at `ca_parser.c:704` lets the fixed literal decide |
| | OpAssignTypesMatch | `x += u` with an i16 and a u8 is not compared (rule 2 at `IR_generator.cpp:2143`) |
| | AddressOfVariable | `&(p + 1)` is accepted (`ca_parser.c:2040`: only a variable can have an address) |
| TypeNamesRefuted (MCTypeNames) | RecursiveTypesAreAccepted | a struct that refers to itself through a pointer and an alias is refused if the alias is asked for first |
| | PartsHaveCLayout | a struct behind a pointer that contains an enclosing struct is laid out too small |
| | NamesMeanVisible | a struct of an outer scope is refused because an inner one has its name (`test/type/type_scope1.ca`) |
| MethodLookupNamedTrait (MCMethodLookup) | NamedTraitDecides | `T::m(&c)` reaches another trait's m, or is refused: identifiers are compared with type names (`symtable_cpp.cpp:200, 342`; `docs/todo-inner-miscs.md:150`) |
| MethodLookupScopes (MCMethodLookup) | DefinitionsAreCalled | of two impls of one method in two scopes the second is never recorded, without an error (`ca_parser.c:2777`) |
| TraitCopiesRefuted (MCTraitCopies) | NodesMeanImplementor | the second class's copy builds the first class's struct, and a sum of fields keeps the first class's type (`docs/template_and_trait.md:15`; the assertion at `IR_generator.cpp:3808`) |
| | SelfIsKnownInBodies | Self in a block of a default method, or after a call of a method of the trait, is unknown (`symtable_cpp.cpp:686`, `IR_generator.cpp:3353`) |

## 4. Fairness and liveness

The compiler is sequential and its input finite; every walk consumes its tree, so that its
termination is a matter of well-founded recursion over the source and not of scheduling.  The one
place where a search may not end is the chain of symbol tables: it is stated as safety
(`ParentChainsReachRoot`).

What the compiled program does is another matter.  `ForLoop` assumes weak fairness of its next-state
relation: code that can take a step takes one; nothing waits for anything else.  `Terminates` says that
then the code after the loop is reached, or some loop was entered whose list includes the
greatest value of its type.  It fails if a continue leads to another loop's condition.  The
bound on the assignments is not what makes it true: an assignment does not move any loop.

## 5. Proofs

`VarShieldingProofs` proves, for all sets of names and parameters and all bounds, the
three invariants, type correctness and the refinement that the run VarShielding checks.

`UseDenotesLexicalBinding` is not inductive: that the variant found is the right one
depends on where every ring stands, which depends on how many lets of that name lie
behind the walker.  The inductive invariant `IInv` says

* of the parser (`ParserInv`): frames refer to lets that are still open; the counts kept in the tree
  grow along it, by exactly one at the end of each let, and agree with `reg` at its end;
* of the walk (`WalkInv`): in each ring, `current` is the number of the variant in force at
  the walker's place, shifted by one while the let has rotated ahead, and the list is that
  cyclic order (`Ring`); at the last element the circle is complete;
* of the observation (`ObsInv`): what was found is what was wanted.

Lemmas on rings say what a rotation forward or back does to the cyclic order; each action
then has a step of its own.  Nothing is assumed beyond `ParamAssumption` and `BoundAssumption`.

`ForLoopProofs` proves type correctness, `ItemsInOrder`, `AllMembersVisited` and the refinement of
`ForEach`, for all integer types, any depth and any number of assignments.  The inductive
invariant is TypeOK, that control is outside of all loops only before the first (`OutsideIsBefore`),
and `Progress(d)` of every loop control is in: the index is the start plus the number of bodies
begun, and at most one past the last member, unless the loop is `Endless`.  Without it the item of the
next body could be anything.  The lemma `CompareIsOrder` says that the two comparisons the generator
selects are the order of the numbers the bits mean; the refinement has a lemma for each step
that changes what is still to visit.  `Terminates` is liveness and stays with TLC.

`MethodLookupProofs` proves the three properties of the run for any classes, traits, methods and
impls.  The invariant says that each entry of the tables is what one of the impls declared so far
provides, and empty only if none does (`Tables`), that a method counts as copied exactly if
such an impl takes it over (`CopiedMap`), that the impls declared match their traits (`AllMatch`) and
that no two impls of a trait for a class are in one scope (`NoConflicts`).  The first two theorems hold
for any scopes.  `CopiesFound` assumes that there is only one (`OneScope`): with two, both of two
impls of a trait for a class are recorded in part, the methods of one and the copies of the other.

`TraitCopiesProofs` proves the four properties of the run for any classes, methods and bodies.
`ParameterMeansImplementor` is not inductive: what self is read as depends on what earlier copies
and calls left in the entry and in the association.  The invariant adds `Owned`: an entry
that is not as parsed, and an association, belong to the method being walked and to its class, and the
entry is recorded to be taken back.  Each action keeps it by a lemma of its own.

`ParserScopeProofs` proves type correctness and the four properties of the run, for any names and
labels, any number of tables and any nesting.  `ImplMethodsAreMethods` holds of all
sources, with -main and without: the impl stack is counted up and down by functions that need not be
methods, and its counter is right because there is a history of values, one for each depth of
nesting, to which the grammar brings it back (`Stacked`), and because a trait that is current is
the one that is open (`TraitIsOpen`).  The other three are relations between globals and
the constructs that are open, and the invariant says it of every construct that is open,
not only of the innermost: each has the table that the constructs around it give it
(`Placed`, `Follows`), so that what a grammar action pops is what it pushed.  Labels hang off one
variable instead of a stack; the invariant `Labelled` says where it points while no function is
nested in another, the condition under which the property is stated.  These three assume
`FlatUnderMain`: sources read with -main have no function inside a block and no trait method without
body.  Without it they are false, as ParserScopeMainRefuted shows, and the run ParserScope has the
same restriction in its constants.

`LexicalWalkProofs` proves type correctness and the three properties of the run, for any names and
sources of any size and depth.  None of them is inductive: what a function is called depends on every
body before it, in a list that says nothing of its nesting.  The proof reads the nesting off the list
(`Nesting`: which bodies are open after each element) and shows that the walk is a function of the
source and the pass: the scopes are the part of the nesting that the pass walks (`Scoped`), an id is
the number of bodies walked before (`Id`), `count` is that number where the walk stands, and so
every entry of `named` is determined by the tree (`NameEntry`), and pass 1 has an entry for every
function it walks (`Named`).  Then names differ: where the nestings of two functions part there are
two bodies in one scope, and either both are functions, of different names because
`make_fn_proto` refuses another one, or their ids differ, or one gives a name and the other a
number (`PartsDiffer`, `NamesDiffer`).  And the passes agree, because they walk the same bodies up to
the first that is `OnePassOnly` (`PassesAgree`); that the condition as it is written, over the flat
list, says this of the tree is `EnclosersAreOpen`.  The inductions (the least
place where two nestings differ, the first element after a body has ended) are by
least counterexample: the lemma `Least` gets the least element of a set of numbers from
the well-foundedness of finite sets, which needs no induction rule.

`FnCodegenProofs` proves type correctness and `PlainFunctionReturnsOwnValue` for any labels and any
sources of any depth, with -main and without, and `InsertionPointInBody` without -main (with it the
property is false, as FnCodegenMainRefuted shows of a consequence).  Everything follows from the walker's
stack: the function a place belongs to is that of the last function frame below it (`Own`), and
`curr_fn`, its stack and the blocks to return to agree with that (`Context`).  `g_with_ret_value`
is right for the innermost function as long as no function has been left inside it (`Flagged`).
That the insertion block has no terminator is not inductive: a step that inserts a block needs to
know that the block is fresh, whatever the walk has done since it was created.  `Core` says that each
block that is inserted nowhere is kept for one purpose `K`: it is the return block of one open
function, or a label's block, or it is inserted by exactly one hop of one frame of the stack
(`Frames`, `Returns`, `Labels`), and that of the other blocks exactly the insertion block and those to
return to are without terminator (`Straight`).  The purposes are a history of the proof alone, so
the invariant is that there are some.  A construct that begins is treated as a frame that has
been there with all its parts: the blocks of its plan are new, distinct and
inserted once each (`Plan`, with a lemma for each construct), and its first part ends like any other.

`PhisNamePredecessors` needs none of this and is proved with -main too (`PhisAreRight`).  Its history
is the set `J` of the blocks that && and || made for their results.  Nothing but the
construct itself branches to one: no plan of another frame, no return block, no label, no block that
break or continue go to is in `J` (`Avoids`, `Free`).  While a && or || is open its block has one
predecessor, the block where the first operand ended, and one branch to it is left (`Joining`);
that branch leaves from the insertion block, which is the other block the phi names.

`FinishedFunctionsVerify` is about where branches lead (`FunctionsVerify`), and `Core` cannot say that: a
block is named in a branch, or meant for one, long before it is inserted and belongs to a function.  A
third history, `H`, is the function that was being walked when the block was created, and the invariant
`Kept` says that this is the function it ends up in (`Meant`), of everything that may still become
a target: return blocks (`Founded`), the plans of the frames of the stack (`Aimed`), the
blocks break and continue go to (`Looped`) and those of labels (`Labelled`).  The last
conjunct, `Purposed`, turns `K` around: a block inserted nowhere is the return block of an open
function, or a label's that is mentioned and not defined, or a frame is still to insert it.
In a function that is complete none of the three is left, so all the targets of its blocks are in it
(`NothingLeft`).  `BranchesStay` says the same of functions that are not complete yet.  All three
hypotheses are needed, as the refuted configurations of section 3 show: in
FnCodegenInnerBreak and FnCodegenSharedLabel a branch leaves its function, and with
-main (FnCodegenMainRefuted) code goes behind a terminator.

`ArraySliceProofs` proves `PrefixesAreTheirRange` for integer types of any width and arrays of any
length that i64 can count.  The invariant says that the range lies in the array and the slice is
what the last access computed; the lemma `LengthIsDifference` that no wrap in the type of the range
and no extension changes the number of items.

The constants are assumed to be what the named ASSUMEs of each module say, and nothing else but the
hypotheses named above, which stand in the statements of the theorems.

Only model-checked: FnCodegenFlow, TypeInference and TypeNames.
What FnCodegenFlow says rests on what can be reached in the blocks, a fixed point over the edges made
so far; the theorems on FnCodegen say where each edge leads, which is the first half of a proof.
TypeInference and TypeNames are recursive over trees and use RECURSIVE operators,
which the prover does not handle; LiteralTypes is free of them, so that facts about literals can be
proved.  Termination of loops is out of the prover's reach.

## 6. Plan

1. Proofs: the refinement of StructuredFlow; LiteralTypes (whatever type a literal is given, its
   kind and value allow it; determining is idempotent).
2. Extensions: block values on the right-hand side of a let (VarShielding); structs and tuples
   in TypeInference; patterns with `..`; generic functions in TraitCopies, which share its
   association.

## 7. Not modelled

Instruction selection, values other than those of loops and slices, printing, debug information, the
lexer, the options other than -main, the run-time library, and LLVM itself, of which only the
insertion point, blocks, terminators, integer arithmetic and getelementptr appear.  The operand
stack is pushed and popped within one handler.  A box is one call of the collector's allocator and drop
one of `GC_free`; the compiler keeps no state about either.  Generic functions appear in LexicalWalk
only (nothing ever instantiates their bodies in a walk of the file).
