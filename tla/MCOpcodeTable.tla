---------------------------- MODULE MCOpcodeTable ----------------------------
(***************************************************************************)
(* Checks every entry of the opcode table over bounded opargs against a   *)
(* reference written from what each instruction pops and pushes in the    *)
(* CPython 3.6 evaluation loop.  A state is one instruction the compiler  *)
(* could emit; Evaluate is one lookup of its stack effect.                 *)
(***************************************************************************)
EXTENDS OpcodeTable, FiniteSets, FiniteSetsExt, Functions

CONSTANTS Counts    \* opargs that count stack items, boundaries included

VARIABLES op, oparg, effect, done

vars == <<op, oparg, effect, done>>

-----------------------------------------------------------------------------
(* The opargs the compiler can emit for an opcode.  An opcode below        *)
(* HAVE_ARGUMENT carries none; a flag word ranges over its flag bits; a   *)
(* count over Counts.  UNPACK_EX packs the counts before and after the    *)
(* starred target into the low byte and the bytes above.                  *)
Opargs(name) ==
    CASE opmap[name] < HAVE_ARGUMENT -> {0}
      [] name = "MAKE_FUNCTION"      -> 0..15
      [] name = "CALL_FUNCTION_EX"   -> 0..1
      [] name = "FORMAT_VALUE"       -> 0..7
      [] name = "BUILD_SLICE"        -> 2..3
      [] name = "RAISE_VARARGS"      -> 0..3
      [] name = "UNPACK_EX"          -> {b + 256 * a : a \in 0..2, b \in {0, 1, 255}}
      [] OTHER                       -> Counts

Init ==
    /\ op \in DOMAIN opmap
    /\ oparg \in Opargs(op)
    /\ effect = 0
    /\ done = FALSE

\* The compiler's stack-depth pass looks up one instruction's effect.
Evaluate ==
    /\ ~done
    /\ effect' = stack_effect(op, oparg)
    /\ done' = TRUE
    /\ UNCHANGED <<op, oparg>>

Next == Evaluate

Spec == Init /\ [][Next]_vars

-----------------------------------------------------------------------------
(* Reference: the net effect push - pop of each way an instruction can    *)
(* complete, written from the evaluation loop's stack accesses.           *)

Net(pop, push) == push - pop

\* Block set-up and unwinding: their entries are the compiler's allowance
\* for an exception handler's frame, not a count of stack accesses.
BlockOps ==
    {"SETUP_LOOP", "SETUP_EXCEPT", "SETUP_FINALLY", "SETUP_WITH",
     "SETUP_ASYNC_WITH", "POP_BLOCK", "POP_EXCEPT", "END_FINALLY",
     "WITH_CLEANUP_START", "WITH_CLEANUP_FINISH", "BREAK_LOOP", "CONTINUE_LOOP"}

Pop0Push0 == {"NOP", "SETUP_ANNOTATIONS", "DELETE_NAME", "DELETE_GLOBAL",
              "DELETE_FAST", "DELETE_DEREF", "JUMP_FORWARD", "JUMP_ABSOLUTE",
              "EXTENDED_ARG"}
Pop0Push1 == {"LOAD_CONST", "LOAD_NAME", "LOAD_GLOBAL", "LOAD_FAST",
              "LOAD_CLOSURE", "LOAD_DEREF", "LOAD_CLASSDEREF",
              "LOAD_BUILD_CLASS", "IMPORT_FROM", "GET_ANEXT"}
Pop1Push0 == {"POP_TOP", "PRINT_EXPR", "RETURN_VALUE", "IMPORT_STAR",
              "STORE_NAME", "STORE_GLOBAL", "STORE_FAST", "STORE_DEREF",
              "STORE_ANNOTATION", "DELETE_ATTR", "POP_JUMP_IF_FALSE",
              "POP_JUMP_IF_TRUE", "SET_ADD", "LIST_APPEND"}
Pop1Push1 == {"UNARY_POSITIVE", "UNARY_NEGATIVE", "UNARY_NOT", "UNARY_INVERT",
              "GET_ITER", "GET_YIELD_FROM_ITER", "GET_AWAITABLE", "GET_AITER",
              "LOAD_ATTR", "YIELD_VALUE"}
Pop2Push1 == {"BINARY_MATRIX_MULTIPLY", "BINARY_POWER", "BINARY_MULTIPLY",
              "BINARY_MODULO", "BINARY_ADD", "BINARY_SUBTRACT", "BINARY_SUBSCR",
              "BINARY_FLOOR_DIVIDE", "BINARY_TRUE_DIVIDE", "BINARY_LSHIFT",
              "BINARY_RSHIFT", "BINARY_AND", "BINARY_XOR", "BINARY_OR",
              "INPLACE_MATRIX_MULTIPLY", "INPLACE_FLOOR_DIVIDE",
              "INPLACE_TRUE_DIVIDE", "INPLACE_ADD", "INPLACE_SUBTRACT",
              "INPLACE_MULTIPLY", "INPLACE_MODULO", "INPLACE_POWER",
              "INPLACE_LSHIFT", "INPLACE_RSHIFT", "INPLACE_AND", "INPLACE_XOR",
              "INPLACE_OR", "COMPARE_OP", "IMPORT_NAME", "YIELD_FROM"}
Pop2Push0 == {"STORE_ATTR", "DELETE_SUBSCR", "MAP_ADD"}

\* Bit b of a flag word, by arithmetic rather than by `&`.
Flag(x, b) == (x \div 2^b) % 2

RefEffects(name, n) ==
    CASE name \in Pop0Push0 -> {Net(0, 0)}
      [] name \in Pop0Push1 -> {Net(0, 1)}
      [] name \in Pop1Push0 -> {Net(1, 0)}
      [] name \in Pop1Push1 -> {Net(1, 1)}
      [] name \in Pop2Push1 -> {Net(2, 1)}
      [] name \in Pop2Push0 -> {Net(2, 0)}
      [] name = "STORE_SUBSCR" -> {Net(3, 0)}
      [] name = "ROT_TWO" -> {Net(2, 2)}
      [] name = "ROT_THREE" -> {Net(3, 3)}
      [] name = "DUP_TOP" -> {Net(1, 2)}
      [] name = "DUP_TOP_TWO" -> {Net(2, 4)}
      [] name = "BEFORE_ASYNC_WITH" -> {Net(1, 2)}    \* __aexit__, awaitable
      \* taken: the value stays; not taken: it is popped
      [] name \in {"JUMP_IF_TRUE_OR_POP", "JUMP_IF_FALSE_OR_POP"} ->
            {Net(1, 1), Net(1, 0)}
      \* next item pushed over the iterator, or the iterator popped at the end
      [] name = "FOR_ITER" -> {Net(1, 2), Net(1, 0)}
      [] name = "UNPACK_SEQUENCE" -> {Net(1, n)}
      [] name = "UNPACK_EX" -> {Net(1, (n % 256) + 1 + (n \div 256))}
      [] name \in BuildOps -> {Net(n, 1)}
      [] name = "BUILD_MAP" -> {Net(2 * n, 1)}
      [] name = "BUILD_CONST_KEY_MAP" -> {Net(n + 1, 1)}   \* values, key tuple
      [] name = "BUILD_SLICE" -> {Net(n, 1)}
      [] name = "RAISE_VARARGS" -> {Net(n, 0)}
      [] name = "CALL_FUNCTION" -> {Net(n + 1, 1)}          \* args, callable
      [] name = "CALL_FUNCTION_KW" -> {Net(n + 2, 1)}       \* + names tuple
      [] name = "CALL_FUNCTION_EX" -> {Net(2 + Flag(n, 0), 1)}
      \* code, qualname, and defaults/kwdefaults/annotations/closure
      [] name = "MAKE_FUNCTION" ->
            {Net(2 + Flag(n, 0) + Flag(n, 1) + Flag(n, 2) + Flag(n, 3), 1)}
      [] name = "FORMAT_VALUE" -> {Net(1 + Flag(n, 2), 1)}

-----------------------------------------------------------------------------
(* Properties.                                                             *)

\* Opcode numbers fit a byte and are distinct, every opcode has a stack
\* effect, and the looked-up effect is an integer.
TypeOK ==
    /\ IsInjective(opmap)
    /\ \A n \in DOMAIN opmap : opmap[n] \in 0..255
    /\ DOMAIN opmap \subseteq DOMAIN ConstEffects \cup OpargOps
    /\ done => effect \in Int

(* The stack_effects entry of every instruction outside block handling     *)
(* equals the largest net effect any way of executing it has: exact for    *)
(* straight-line instructions, and an upper bound that the fall-through    *)
(* path attains for FOR_ITER and the JUMP_IF_*_OR_POP pair.  Covers the    *)
(* argument-dependent lambdas (flag words of MAKE_FUNCTION,               *)
(* CALL_FUNCTION_EX and FORMAT_VALUE, the byte-packed counts of UNPACK_EX, *)
(* counts up to EXTENDED_ARG sizes): an underestimate makes the frame's    *)
(* co_stacksize too small, an overestimate only wastes space.              *)
StackEffectMatchesSemantics ==
    done /\ op \notin BlockOps => effect = Max(RefEffects(op, oparg))
=============================================================================
