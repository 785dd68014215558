--------------------------- MODULE MCStubTemplate ---------------------------
(***************************************************************************)
(* The stub test of mark_native_functions compares co_names and co_code   *)
(* only.  Section 4.1 of the design reads a template match as "the body   *)
(* is the placeholder call, after at most a docstring, and nothing else". *)
(* These modules hold the two template bodies and a body that does more  *)
(* after the call, compiled to the same bytes.                            *)
(***************************************************************************)
EXTENDS NativeStubs, CodeShapes

CONSTANTS ModuleName

VARIABLES code, result, done

vars == <<code, result, done>>

Trees ==
    { Body("<module>", FALSE, <<Stub("f"), IntrinsicStub("g")>>),
      Body("<module>", FALSE, <<Stub("f"), ReturnsConst("g")>>),
      Body("<module>", FALSE, <<Body("C", FALSE, <<ReturnsConst("m")>>)>>) }

Init ==
    /\ code \in Trees
    /\ result = Fail("not run")
    /\ done = FALSE

\* One call of mark_native_functions on a module's code object.
Rewrite ==
    /\ ~done
    /\ result' = mark_native_functions(code, <<>>, <<>>, ModuleName, <<>>)
    /\ done' = TRUE
    /\ UNCHANGED code

Next == Rewrite

Spec == Init /\ [][Next]_vars

\* The body of a placeholder function: constants None, or a docstring and
\* None (the implicit `return None`).
PlaceholderBody(c) ==
    \/ c.consts = <<None>>
    \/ Len(c.consts) = 2 /\ c.consts[1] # None /\ c.consts[2] = None

(* Every function the rewrite freezes as a native stub (CO_BUILTIN, its   *)
(* body dropped) had a body that was only the placeholder call, after at  *)
(* most a docstring: section 4.1 step 2 and section 9 of the design.      *)
StubsArePlaceholderBodies ==
    done /\ result.ok =>
        \A v \in Range(Visits(code)), w \in Range(Visits(result.code)) :
            v.path = w.path /\ CO_BUILTIN \in w.node.flags => PlaceholderBody(v.node)
=============================================================================
