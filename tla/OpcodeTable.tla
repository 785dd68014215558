----------------------------- MODULE OpcodeTable -----------------------------
(***************************************************************************)
(* The opcode table of the front-end compiler, src/library/compiler/      *)
(* opcode36.py: the numbers def_op/name_op/jrel_op/jabs_op register, the  *)
(* has* classifications, and the stack_effects dictionary the compiler's  *)
(* stack-depth pass reads.  An opcode is its name (a string); a           *)
(* stack_effects entry is either an integer or a function of oparg.       *)
(***************************************************************************)
EXTENDS Integers, Bitwise

CONSTANT Uncalled   \* a function object of stack_effects, not an integer

\* The comment of line 62: from here on every opcode takes an argument.
HAVE_ARGUMENT == 90

\* opcode.opmap after the def_op / name_op / jrel_op / jabs_op calls.
opmap ==
    [POP_TOP |-> 1, ROT_TWO |-> 2, ROT_THREE |-> 3, DUP_TOP |-> 4,
     DUP_TOP_TWO |-> 5, NOP |-> 9, UNARY_POSITIVE |-> 10,
     UNARY_NEGATIVE |-> 11, UNARY_NOT |-> 12, UNARY_INVERT |-> 15,
     BINARY_MATRIX_MULTIPLY |-> 16, INPLACE_MATRIX_MULTIPLY |-> 17,
     BINARY_POWER |-> 19, BINARY_MULTIPLY |-> 20, BINARY_MODULO |-> 22,
     BINARY_ADD |-> 23, BINARY_SUBTRACT |-> 24, BINARY_SUBSCR |-> 25,
     BINARY_FLOOR_DIVIDE |-> 26, BINARY_TRUE_DIVIDE |-> 27,
     INPLACE_FLOOR_DIVIDE |-> 28, INPLACE_TRUE_DIVIDE |-> 29,
     GET_AITER |-> 50, GET_ANEXT |-> 51, BEFORE_ASYNC_WITH |-> 52,
     INPLACE_ADD |-> 55, INPLACE_SUBTRACT |-> 56, INPLACE_MULTIPLY |-> 57,
     INPLACE_MODULO |-> 59, STORE_SUBSCR |-> 60, DELETE_SUBSCR |-> 61,
     BINARY_LSHIFT |-> 62, BINARY_RSHIFT |-> 63, BINARY_AND |-> 64,
     BINARY_XOR |-> 65, BINARY_OR |-> 66, INPLACE_POWER |-> 67,
     GET_ITER |-> 68, GET_YIELD_FROM_ITER |-> 69, PRINT_EXPR |-> 70,
     LOAD_BUILD_CLASS |-> 71, YIELD_FROM |-> 72, GET_AWAITABLE |-> 73,
     INPLACE_LSHIFT |-> 75, INPLACE_RSHIFT |-> 76, INPLACE_AND |-> 77,
     INPLACE_XOR |-> 78, INPLACE_OR |-> 79, BREAK_LOOP |-> 80,
     WITH_CLEANUP_START |-> 81, WITH_CLEANUP_FINISH |-> 82,
     RETURN_VALUE |-> 83, IMPORT_STAR |-> 84, SETUP_ANNOTATIONS |-> 85,
     YIELD_VALUE |-> 86, POP_BLOCK |-> 87, END_FINALLY |-> 88,
     POP_EXCEPT |-> 89, STORE_NAME |-> 90, DELETE_NAME |-> 91,
     UNPACK_SEQUENCE |-> 92, FOR_ITER |-> 93, UNPACK_EX |-> 94,
     STORE_ATTR |-> 95, DELETE_ATTR |-> 96, STORE_GLOBAL |-> 97,
     DELETE_GLOBAL |-> 98, LOAD_CONST |-> 100, LOAD_NAME |-> 101,
     BUILD_TUPLE |-> 102, BUILD_LIST |-> 103, BUILD_SET |-> 104,
     BUILD_MAP |-> 105, LOAD_ATTR |-> 106, COMPARE_OP |-> 107,
     IMPORT_NAME |-> 108, IMPORT_FROM |-> 109, JUMP_FORWARD |-> 110,
     JUMP_IF_FALSE_OR_POP |-> 111, JUMP_IF_TRUE_OR_POP |-> 112,
     JUMP_ABSOLUTE |-> 113, POP_JUMP_IF_FALSE |-> 114,
     POP_JUMP_IF_TRUE |-> 115, LOAD_GLOBAL |-> 116, CONTINUE_LOOP |-> 119,
     SETUP_LOOP |-> 120, SETUP_EXCEPT |-> 121, SETUP_FINALLY |-> 122,
     LOAD_FAST |-> 124, STORE_FAST |-> 125, DELETE_FAST |-> 126,
     STORE_ANNOTATION |-> 127, RAISE_VARARGS |-> 130, CALL_FUNCTION |-> 131,
     MAKE_FUNCTION |-> 132, BUILD_SLICE |-> 133, LOAD_CLOSURE |-> 135,
     LOAD_DEREF |-> 136, STORE_DEREF |-> 137, DELETE_DEREF |-> 138,
     CALL_FUNCTION_KW |-> 141, CALL_FUNCTION_EX |-> 142, SETUP_WITH |-> 143,
     LIST_APPEND |-> 145, SET_ADD |-> 146, MAP_ADD |-> 147,
     LOAD_CLASSDEREF |-> 148, EXTENDED_ARG |-> 144, BUILD_LIST_UNPACK |-> 149,
     BUILD_MAP_UNPACK |-> 150, BUILD_MAP_UNPACK_WITH_CALL |-> 151,
     BUILD_TUPLE_UNPACK |-> 152, BUILD_SET_UNPACK |-> 153,
     SETUP_ASYNC_WITH |-> 154, FORMAT_VALUE |-> 155,
     BUILD_CONST_KEY_MAP |-> 156, BUILD_STRING |-> 157,
     BUILD_TUPLE_UNPACK_WITH_CALL |-> 158]

\* The opcodes registered with name_op, jrel_op and jabs_op.
hasname ==
    {"STORE_NAME", "DELETE_NAME", "STORE_ATTR", "DELETE_ATTR", "STORE_GLOBAL",
     "DELETE_GLOBAL", "LOAD_NAME", "LOAD_ATTR", "IMPORT_NAME", "IMPORT_FROM",
     "LOAD_GLOBAL", "STORE_ANNOTATION"}

hasjrel ==
    {"FOR_ITER", "JUMP_FORWARD", "SETUP_LOOP", "SETUP_EXCEPT",
     "SETUP_FINALLY", "SETUP_WITH", "SETUP_ASYNC_WITH"}

hasjabs ==
    {"JUMP_IF_FALSE_OR_POP", "JUMP_IF_TRUE_OR_POP", "JUMP_ABSOLUTE",
     "POP_JUMP_IF_FALSE", "POP_JUMP_IF_TRUE", "CONTINUE_LOOP"}

\* The numbers added to hasconst, hascompare, haslocal and hasfree.
hasconst == {100}
hascompare == {107}
haslocal == {124, 125, 126}
hasfree == {135, 136, 137, 138, 148}

FVS_MASK == 4
FVS_HAVE_SPEC == 4

\* The entries of stack_effects that are plain integers.
ConstEffects ==
    [NOP |-> 0, POP_TOP |-> -1, ROT_TWO |-> 0, ROT_THREE |-> 0, DUP_TOP |-> 1,
     DUP_TOP_TWO |-> 2, UNARY_POSITIVE |-> 0, UNARY_NEGATIVE |-> 0,
     UNARY_NOT |-> 0, UNARY_INVERT |-> 0, SET_ADD |-> -1, LIST_APPEND |-> -1,
     MAP_ADD |-> -2, BINARY_POWER |-> -1, BINARY_MULTIPLY |-> -1,
     BINARY_MATRIX_MULTIPLY |-> -1, BINARY_MODULO |-> -1, BINARY_ADD |-> -1,
     BINARY_SUBTRACT |-> -1, BINARY_SUBSCR |-> -1, BINARY_FLOOR_DIVIDE |-> -1,
     BINARY_TRUE_DIVIDE |-> -1, INPLACE_FLOOR_DIVIDE |-> -1,
     INPLACE_TRUE_DIVIDE |-> -1, INPLACE_ADD |-> -1, INPLACE_SUBTRACT |-> -1,
     INPLACE_MULTIPLY |-> -1, INPLACE_MATRIX_MULTIPLY |-> -1,
     INPLACE_MODULO |-> -1, STORE_SUBSCR |-> -3, DELETE_SUBSCR |-> -2,
     BINARY_LSHIFT |-> -1, BINARY_RSHIFT |-> -1, BINARY_AND |-> -1,
     BINARY_XOR |-> -1, BINARY_OR |-> -1, INPLACE_POWER |-> -1,
     GET_ITER |-> 0, PRINT_EXPR |-> -1, LOAD_BUILD_CLASS |-> 1,
     INPLACE_LSHIFT |-> -1, INPLACE_RSHIFT |-> -1, INPLACE_AND |-> -1,
     INPLACE_XOR |-> -1, INPLACE_OR |-> -1, BREAK_LOOP |-> 0,
     SETUP_WITH |-> 7, WITH_CLEANUP_START |-> 1, WITH_CLEANUP_FINISH |-> -1,
     RETURN_VALUE |-> -1, IMPORT_STAR |-> -1, SETUP_ANNOTATIONS |-> 0,
     YIELD_VALUE |-> 0, YIELD_FROM |-> -1, POP_BLOCK |-> 0, POP_EXCEPT |-> 0,
     END_FINALLY |-> -1, STORE_NAME |-> -1, DELETE_NAME |-> 0, FOR_ITER |-> 1,
     STORE_ATTR |-> -2, DELETE_ATTR |-> -1, STORE_GLOBAL |-> -1,
     DELETE_GLOBAL |-> 0, LOAD_CONST |-> 1, LOAD_NAME |-> 1, LOAD_ATTR |-> 0,
     COMPARE_OP |-> -1, IMPORT_NAME |-> -1, IMPORT_FROM |-> 1,
     JUMP_FORWARD |-> 0, JUMP_IF_TRUE_OR_POP |-> 0,
     JUMP_IF_FALSE_OR_POP |-> 0, JUMP_ABSOLUTE |-> 0,
     POP_JUMP_IF_FALSE |-> -1, POP_JUMP_IF_TRUE |-> -1, LOAD_GLOBAL |-> 1,
     CONTINUE_LOOP |-> 0, SETUP_LOOP |-> 0, SETUP_EXCEPT |-> 6,
     SETUP_FINALLY |-> 6, LOAD_FAST |-> 1, STORE_FAST |-> -1,
     DELETE_FAST |-> 0, STORE_ANNOTATION |-> -1, LOAD_CLOSURE |-> 1,
     LOAD_DEREF |-> 1, LOAD_CLASSDEREF |-> 1, STORE_DEREF |-> -1,
     DELETE_DEREF |-> 0, GET_AWAITABLE |-> 0, SETUP_ASYNC_WITH |-> 6,
     BEFORE_ASYNC_WITH |-> 1, GET_AITER |-> 0, GET_ANEXT |-> 1,
     GET_YIELD_FROM_ITER |-> 0, SET_LINENO |-> 0, EXTENDED_ARG |-> 0]

\* Python's int(b) of a comparison result.
AsInt(b) == IF b THEN 1 ELSE 0

\* Variant: the closure flag (0x08), added in 3.6, not counted.
MakeFunctionWithoutClosure(oparg) ==
    -1 - AsInt((oparg & 1) # 0) - AsInt((oparg & 2) # 0) - AsInt((oparg & 4) # 0)

\* MAKE_FUNCTION pops one extra value per flag bit: defaults, keyword
\* defaults, annotations, closure.
MakeFunctionEffect(oparg) ==
    -1 - AsInt((oparg & 1) # 0) - AsInt((oparg & 2) # 0)
       - AsInt((oparg & 4) # 0) - AsInt((oparg & 8) # 0)

\* The names whose entry is `1 - oparg`.
BuildOps ==
    {"BUILD_TUPLE", "BUILD_LIST", "BUILD_SET", "BUILD_STRING",
     "BUILD_LIST_UNPACK", "BUILD_TUPLE_UNPACK", "BUILD_TUPLE_UNPACK_WITH_CALL",
     "BUILD_SET_UNPACK", "BUILD_MAP_UNPACK", "BUILD_MAP_UNPACK_WITH_CALL"}

\* The entries of stack_effects that are lambdas of oparg.
OpargOps ==
    BuildOps \cup {"UNPACK_SEQUENCE", "UNPACK_EX", "BUILD_MAP",
                   "BUILD_CONST_KEY_MAP", "RAISE_VARARGS", "CALL_FUNCTION",
                   "CALL_FUNCTION_KW", "CALL_FUNCTION_EX", "MAKE_FUNCTION",
                   "BUILD_SLICE", "FORMAT_VALUE"}

OpargEffect(name, oparg) ==
    CASE name = "UNPACK_SEQUENCE"     -> oparg - 1
      [] name = "UNPACK_EX"           -> (oparg & 255) + shiftR(oparg, 8)
      [] name \in BuildOps            -> 1 - oparg
      [] name = "BUILD_MAP"           -> 1 - 2 * oparg
      [] name = "BUILD_CONST_KEY_MAP" -> -oparg
      [] name = "RAISE_VARARGS"       -> -oparg
      [] name = "CALL_FUNCTION"       -> -oparg
      [] name = "CALL_FUNCTION_KW"    -> -oparg - 1
      [] name = "CALL_FUNCTION_EX"    -> -1 - AsInt((oparg & 1) # 0)
      [] name = "MAKE_FUNCTION"       -> MakeFunctionEffect(oparg)
      [] name = "BUILD_SLICE"         -> IF oparg = 3 THEN -2 ELSE -1
      [] name = "FORMAT_VALUE"        ->
            IF (oparg & FVS_MASK) = FVS_HAVE_SPEC THEN -1 ELSE 0


\* Variant: the entry used as it is, a lambda never called with oparg.
StackEffectUncalled(name, oparg) ==
    IF name \in DOMAIN ConstEffects THEN ConstEffects[name] ELSE Uncalled

\* The effect of one instruction: the entry, called with oparg when it is
\* a function.
stack_effect(name, oparg) ==
    IF name \in DOMAIN ConstEffects THEN ConstEffects[name]
                                    ELSE OpargEffect(name, oparg)
=============================================================================
