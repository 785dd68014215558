----------------------------- MODULE CodeShapes -----------------------------
(***************************************************************************)
(* Code objects as the front-end compiler produces them for the bodies the *)
(* freezer meets: the two template functions builtin_function_template and *)
(* builtin_function_template_with_docu of freeze_modules.py, near misses   *)
(* of them, ordinary functions and class bodies.                           *)
(***************************************************************************)
EXTENDS NativeStubs

\* The compiler's co_flags bits (CPython's code.h): a function body is
\* optimized, has new locals and no free variables; every object carries
\* the future flag process_module compiles with.
CO_OPTIMIZED == 0
CO_NEWLOCALS == 1
CO_NOFREE == 6
CO_FUTURE_ANNOTATIONS == 24
FunctionFlags == {CO_OPTIMIZED, CO_NEWLOCALS, CO_NOFREE, CO_FUTURE_ANNOTATIONS}
BodyFlags == {CO_NOFREE, CO_FUTURE_ANNOTATIONS}

None == [lit |-> "None"]
Marker == [lit |-> IntrinsicMarker]

\* def f(): _builtin()
Stub(n) == [name |-> n, flags |-> FunctionFlags, names |-> <<"_builtin">>,
            code |-> "template", stacksize |-> 1, freevars |-> <<>>,
            cellvars |-> <<>>, consts |-> <<None>>, loc |-> "src"]

\* def f(): "$intrinsic$..."; _builtin()
IntrinsicStub(n) == [Stub(n) EXCEPT !.code = "template_docu",
                                    !.consts = <<Marker, None>>]

\* def f(): _builtin(); return "x"
\* The compiler puts the docstring slot (None) first and "x" second, so the
\* return is LOAD_CONST 1: the bytes of the documented template.
ReturnsConst(n) == [Stub(n) EXCEPT !.code = "template_docu",
                                   !.consts = <<None, [lit |-> "x"]>>]

\* Matches the byte template, but the compiler's other fields disagree.
BadStackStub(n) == [Stub(n) EXCEPT !.stacksize = 2]
BadFreeStub(n)   == [Stub(n) EXCEPT !.freevars = <<"x">>]

\* Same bytes, a different callee: `other()`.
OtherCall(n) == [Stub(n) EXCEPT !.names = <<"other">>]

\* An ordinary function body, with or without the intrinsic docstring.
Plain(n) == [Stub(n) EXCEPT !.names = <<"len">>, !.code = "other",
                            !.stacksize = 2, !.consts = <<[lit |-> "doc"], None>>]
IntrinsicPlain(n) == [Plain(n) EXCEPT !.consts = <<Marker, None>>]

\* A class or module body holding nested code objects.
Body(n, intr, kids) ==
    [Plain(n) EXCEPT !.flags = BodyFlags,
                     !.consts = (IF intr THEN <<Marker>> ELSE <<>>)
                                \o kids \o <<None>>]

=============================================================================
