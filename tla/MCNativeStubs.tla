---------------------------- MODULE MCNativeStubs ----------------------------
(***************************************************************************)
(* Checks mark_native_functions exhaustively over every module tree up to *)
(* three levels deep built from the code-object shapes below, starting     *)
(* from empty tables and from tables other modules already filled.  The  *)
(* result is compared with reference definitions written from section 4.1 *)
(* of the design: a preorder walk that never enters a stub.                *)
(***************************************************************************)
EXTENDS NativeStubs, CodeShapes, SequencesExt, FiniteSets

CONSTANTS ModuleName

VARIABLES code, prior, result, done

vars == <<code, prior, result, done>>

-----------------------------------------------------------------------------
LeafShapes(n) == {Stub(n), IntrinsicStub(n), BadStackStub(n), BadFreeStub(n),
                  OtherCall(n), Plain(n), IntrinsicPlain(n)}

KidSeqs(S) == {<<k>> : k \in S} \cup {<<k1, k2>> : k1, k2 \in S}

\* A class nested in a class holds a stub or an intrinsic at depth three.
Level2 == LeafShapes("m") \cup {Stub(INIT_MODULE_NAME), Body("D", FALSE, <<Stub("m")>>),
                                Body("D", FALSE, <<IntrinsicPlain("m")>>)}

\* A nested code object named <module> trips the assert of the loop.
Level1 == LeafShapes("f") \cup {Body("<module>", FALSE, <<>>)}
          \cup {Body("C", intr, ks) : intr \in BOOLEAN, ks \in KidSeqs(Level2)}

\* The module's own docstring may carry the intrinsic marker (depth zero).
Trees == {Body("<module>", intr, ks) : intr \in BOOLEAN, ks \in KidSeqs(Level1)}

\* Tables as other modules processed earlier in the same run left them.
Priors == {[builtins |-> <<>>, intrinsics |-> <<>>],
           [builtins |-> <<<<"FUNC", "other", "g">>>>,
            intrinsics |-> <<<<"FUNC", "other", "g_intrinsic">>>>]}

-----------------------------------------------------------------------------
Init ==
    /\ code \in Trees
    /\ prior \in Priors
    /\ result = Fail("not run")
    /\ done = FALSE

\* One call of mark_native_functions on a module's code object.
Rewrite ==
    /\ ~done
    /\ result' = mark_native_functions(code, prior.builtins, prior.intrinsics,
                                       ModuleName, <<>>)
    /\ done' = TRUE
    /\ UNCHANGED <<code, prior>>

Next == Rewrite

Spec == Init /\ [][Next]_vars

-----------------------------------------------------------------------------
(* Reference definitions.                                                  *)


Supported(path) == Len(path) \in {1, 2}

\* The design's fatal conditions, on the original tree.
ExpectFatal(c) ==
    \E v \in Range(Visits(c)) :
        \/ /\ MatchesBuiltinTemplate(v.node)
           /\ \/ v.node.stacksize # 1
              \/ v.node.freevars # <<>>
              \/ v.node.cellvars # <<>>
              \/ v.node.name = "__init_module__"
        \/ MatchesBuiltinTemplate(v.node) /\ ~Supported(v.path)
        \/ marked_with_intrinsic(v.node) /\ ~Supported(v.path)
        \/ v.node.name = "<module>" /\ v.path # <<>>

StubVisits(c) == SelectSeq(Visits(c), LAMBDA v : MatchesBuiltinTemplate(v.node))
IntrinsicVisits(c) == SelectSeq(Visits(c), LAMBDA v : marked_with_intrinsic(v.node))

\* Section 4.2: a function directly under the module is keyed by (module,
\* function), a method by (class, method); intrinsics take a suffix.
RefBuiltinId(path) ==
    IF Len(path) = 1 THEN <<"FUNC", ModuleName, path[1]>>
                     ELSE <<"METH", path[1], path[2]>>
RefIntrinsicId(path) ==
    IF Len(path) = 1 THEN <<"FUNC", ModuleName, path[1] \o "_intrinsic">>
                     ELSE <<"METH", path[1], path[2] \o "_intrinsic">>

ExpectedBuiltins(c) ==
    [i \in 1..Len(StubVisits(c)) |-> RefBuiltinId(StubVisits(c)[i].path)]
ExpectedIntrinsics(c) ==
    [i \in 1..Len(IntrinsicVisits(c)) |-> RefIntrinsicId(IntrinsicVisits(c)[i].path)]

-----------------------------------------------------------------------------
(* Properties.                                                             *)

\* The result's type, with the shape section 3 gives a rewritten stub: all
\* it keeps is its name, flags and index (and its metadata tuple).
IsStubShape(n) ==
    /\ n \in [name: STRING, flags: SUBSET (0..31),
              names: {<<>>}, code: {""}, stacksize: Nat, freevars: {<<>>},
              cellvars: {<<>>}, consts: Seq([meta: Nat]), loc: {"none"}]
    /\ Len(n.consts) <= 1

TypeOK ==
    /\ done \in BOOLEAN
    /\ result.ok \in BOOLEAN
    /\ result.ok => /\ IsCode(result.code)
                    /\ result.builtins \in Seq(STRING \X STRING \X STRING)
                    /\ result.intrinsics \in Seq(STRING \X STRING \X STRING)
                    /\ \A v \in Range(Visits(result.code)) :
                          CO_BUILTIN \in v.node.flags => IsStubShape(v.node)

(* The build fails loudly exactly when the tree contains a malformed stub  *)
(* (template bytes with a wrong stack size, free or cell variables, or the *)
(* reserved __init_module__ name), or a stub or intrinsic nested deeper    *)
(* than a method; it never silently passes such a node through and never  *)
(* rejects a well-formed module (the asserts of mark_native_functions and  *)
(* the raise of builtin_cpp_id / builtin_intrinsic_id).                   *)
FailsExactlyOnMalformed ==
    done => (result.ok <=> ~ExpectFatal(code))

(* Table slots are allocated in depth-first order over the constants, one *)
(* builtin per stub and one intrinsic per intrinsic-tagged object (stubs  *)
(* included), appended after what earlier modules allocated: the indices  *)
(* are the fixed ABI the native dispatch tables must agree with.          *)
AllocationFollowsPreorder ==
    done /\ result.ok =>
        /\ result.builtins = prior.builtins \o ExpectedBuiltins(code)
        /\ result.intrinsics = prior.intrinsics \o ExpectedIntrinsics(code)

(* Every rewritten stub names, in its reused stack-size field, the builtin *)
(* table slot holding its own identifier, and every object carrying        *)
(* CO_METADATA holds, in its first constant, the biased index of its own   *)
(* intrinsic identifier (0 would mean none).                               *)
IndicesAgreeWithTables ==
    done /\ result.ok =>
        \A v \in Range(Visits(result.code)) :
            /\ CO_BUILTIN \in v.node.flags =>
                  /\ v.node.stacksize + 1 \in 1..Len(result.builtins)
                  /\ result.builtins[v.node.stacksize + 1] =
                         builtin_cpp_id(ModuleName, v.path)
            /\ CO_METADATA \in v.node.flags =>
                  LET k == v.node.consts[1].meta
                  IN /\ k \in 1..Len(result.intrinsics)
                     /\ result.intrinsics[k] = builtin_intrinsic_id(ModuleName, v.path)

(* The short-circuit of lines 130-135: the module's code object comes     *)
(* back equal to the one passed in exactly when no stub and no intrinsic *)
(* lies anywhere in it.  Values cannot tell `is` from an equal copy, so   *)
(* what is checked is that a rewrite deep in the tree is never lost on   *)
(* the way up (`changed` must propagate), and that an untouched tree     *)
(* comes back with the same contents.                                     *)
IdentityFastPath ==
    done /\ result.ok =>
        ((result.code = code) <=>
            \A v \in Range(Visits(code)) :
                ~MatchesBuiltinTemplate(v.node) /\ ~marked_with_intrinsic(v.node))
=============================================================================
