----------------------------- MODULE NativeStubs -----------------------------
(***************************************************************************)
(* The stub detector and rewriter of src/util/freeze_modules.py:          *)
(* mark_native_functions and the helpers it calls.                         *)
(*                                                                         *)
(* A code object is a record                                               *)
(*   [name, flags, names, code, stacksize, freevars, cellvars, consts, loc] *)
(* where                                                                   *)
(*   flags      is co_flags as the set of its bit positions (bit b for    *)
(*              the mask 2^b): `flags |= M` of a one-bit mask M is a union *)
(*              and `flags & M` a membership test,                        *)
(*   names      is the co_names tuple,                                     *)
(*   code       abstracts co_code to which byte template it equals:       *)
(*              "template", "template_docu", "other", or "" once cleared, *)
(*   loc        abstracts co_filename/co_firstlineno/co_lnotab: "src" for *)
(*              the compiler's values, "none" for the cleared ones,       *)
(*   consts     is co_consts: a sequence whose elements are nested code   *)
(*              objects, literals [lit |-> v] or metadata tuples          *)
(*              [meta |-> k] (the one-element tuple the rewriter inserts). *)
(* A literal v is "None", "doc" (an ordinary string) or IntrinsicMarker    *)
(* (a string starting with "$intrinsic$").                                 *)
(*                                                                         *)
(* The generated C++ identifiers FUNC(m, f) and METH(C, m) are tuples      *)
(* <<"FUNC", m, f>> and <<"METH", C, m>>; the suffix is concatenated to   *)
(* the last part exactly as the f-string does.                             *)
(*                                                                         *)
(* The rewrite returns [ok |-> TRUE, code, builtins, intrinsics], or      *)
(* [ok |-> FALSE, why] when an assert or raise in it aborts the build.    *)
(***************************************************************************)
EXTENDS Naturals, Sequences, SequencesExt

\* Pyro's flags in co_flags, beside the compiler's: 0x2000000 and 0x4000000.
CO_BUILTIN == 25
\* Variant: the bit 0x1000000 taken, which is CO_FUTURE_ANNOTATIONS.
CO_METADATA_SharedBit == 24
CO_METADATA == 26

INIT_MODULE_NAME == "__init_module__"

IntrinsicMarker == "$intrinsic$"

\* Result of builtin_cpp_id / builtin_intrinsic_id when they raise.
NoId == <<"NoId">>

IsCode(c) == "name" \in DOMAIN c

\* The first constant (the docstring) is a string starting with "$intrinsic$".
marked_with_intrinsic(code) ==
    /\ code.consts # <<>>
    /\ "lit" \in DOMAIN code.consts[1]
    /\ code.consts[1].lit = IntrinsicMarker

builtin_cpp_id(module_name, fqname) ==
    CASE Len(fqname) = 1 -> <<"FUNC", module_name, fqname[1]>>
      [] Len(fqname) = 2 -> <<"METH", fqname[1], fqname[2]>>
      [] OTHER           -> NoId

\* Variant: the intrinsic named as builtin_cpp_id(module_name, fqname) names it.
IntrinsicIdWithoutSuffix(module_name, fqname) ==
    CASE Len(fqname) = 1 -> <<"FUNC", module_name, fqname[1]>>
      [] Len(fqname) = 2 -> <<"METH", fqname[1], fqname[2]>>
      [] OTHER           -> NoId

builtin_intrinsic_id(module_name, fqname) ==
    CASE Len(fqname) = 1 -> <<"FUNC", module_name, fqname[1] \o "_intrinsic">>
      [] Len(fqname) = 2 -> <<"METH", fqname[1], fqname[2] \o "_intrinsic">>
      [] OTHER           -> NoId

\* The test of line 87: the body is exactly a `_builtin()` call.
MatchesBuiltinTemplate(code) ==
    /\ code.names = <<"_builtin">>
    /\ code.code \in {"template", "template_docu"}

\* Variant: under `python -O` the assert statements are stripped.
StubAssertionsStripped(code) == TRUE

\* The four asserts that follow a template match.
StubAssertionsHold(code) ==
    /\ code.stacksize = 1
    /\ code.freevars = <<>>
    /\ code.cellvars = <<>>
    /\ code.name # INIT_MODULE_NAME

Fail(why) == [ok |-> FALSE, why |-> why]

\* Variants: the index taken after the append; co_filename and the line
\* table left in place.
StubReplacementAfterAppend(code, builtin_num, flags, metadata) ==
    [code EXCEPT !.stacksize = builtin_num + 1,
                 !.flags     = flags \cup {CO_BUILTIN},
                 !.code      = "",
                 !.consts    = IF CO_METADATA \in flags
                                  THEN <<[meta |-> metadata]>> ELSE <<>>,
                 !.names     = <<>>,
                 !.loc       = "none",
                 !.freevars  = <<>>,
                 !.cellvars  = <<>>]
StubReplacementKeepsLocation(code, builtin_num, flags, metadata) ==
    [code EXCEPT !.stacksize = builtin_num,
                 !.flags     = flags \cup {CO_BUILTIN},
                 !.code      = "",
                 !.consts    = IF CO_METADATA \in flags
                                  THEN <<[meta |-> metadata]>> ELSE <<>>,
                 !.names     = <<>>,
                 !.freevars  = <<>>,
                 !.cellvars  = <<>>]

\* The code.replace(...) of a stub: the stack size field carries the index
\* of the builtin, everything the interpreter would use is cleared.
StubReplacement(code, builtin_num, flags, metadata) ==
    [code EXCEPT !.stacksize = builtin_num,
                 !.flags     = flags \cup {CO_BUILTIN},
                 !.code      = "",
                 !.consts    = IF CO_METADATA \in flags
                                  THEN <<[meta |-> metadata]>> ELSE <<>>,
                 !.names     = <<>>,
                 !.loc       = "none",
                 !.freevars  = <<>>,
                 !.cellvars  = <<>>]

\* Variant: `new_c is c` for `new_c is not c`.
ChildUnchanged(new_c, c) == new_c = c

\* `new_c is not c`: the rewrite of a nested object returned a new object.
ChildChanged(new_c, c) == new_c # c

RECURSIVE mark_native_functions(_, _, _, _, _)
RECURSIVE MarkConsts(_, _, _, _)

(***************************************************************************)
(* The loop over co_consts: each nested code object is rewritten with the  *)
(* path extended by its name, threading the two tables left to right, and *)
(* `changed` records whether any rewrite returned a different object.     *)
(***************************************************************************)
MarkConsts(cs, acc, module_name, fqname) ==
    IF cs = <<>> THEN acc
    ELSE LET c == Head(cs) IN
         IF ~IsCode(c)
         THEN MarkConsts(Tail(cs), [acc EXCEPT !.consts = Append(@, c)],
                         module_name, fqname)
         ELSE IF c.name = "<module>" THEN Fail("nested <module>")
         ELSE LET r == mark_native_functions(c, acc.builtins, acc.intrinsics,
                                             module_name, Append(fqname, c.name))
              IN IF ~r.ok THEN r
                 ELSE MarkConsts(Tail(cs),
                                 [acc EXCEPT !.consts     = Append(@, r.code),
                                             !.changed    = @ \/ ChildChanged(r.code, c),
                                             !.builtins   = r.builtins,
                                             !.intrinsics = r.intrinsics],
                                 module_name, fqname)

mark_native_functions(code, builtins, intrinsics, module_name, fqname) ==
    LET intr      == marked_with_intrinsic(code)
        iid       == builtin_intrinsic_id(module_name, fqname)
        intrs     == IF intr THEN Append(intrinsics, iid) ELSE intrinsics
        \* biased by one so that 0 means "no intrinsic"
        metadata  == IF intr THEN Len(intrs) ELSE 0
        flags     == IF intr THEN code.flags \cup {CO_METADATA} ELSE code.flags
        bid       == builtin_cpp_id(module_name, fqname)
        meta      == CO_METADATA \in flags
    IN
    CASE intr /\ iid = NoId -> Fail("unsupported nesting")
      [] MatchesBuiltinTemplate(code) /\ ~StubAssertionsHold(code) ->
            Fail("malformed stub")
      [] MatchesBuiltinTemplate(code) /\ bid = NoId -> Fail("unsupported nesting")
      [] MatchesBuiltinTemplate(code) ->
            [ok |-> TRUE,
             code |-> StubReplacement(code, Len(builtins), flags, metadata),
             builtins |-> Append(builtins, bid),
             intrinsics |-> intrs]
      [] OTHER ->
            LET r == MarkConsts(code.consts,
                                [ok |-> TRUE,
                                 consts |-> IF meta THEN <<[meta |-> metadata]>>
                                                   ELSE <<>>,
                                 changed |-> meta,
                                 builtins |-> builtins,
                                 intrinsics |-> intrs],
                                module_name, fqname)
            IN IF ~r.ok THEN r
               ELSE [ok |-> TRUE,
                     code |-> IF r.changed
                                 THEN [code EXCEPT !.flags = flags,
                                                   !.consts = r.consts]
                                 ELSE code,
                     builtins |-> r.builtins,
                     intrinsics |-> r.intrinsics]

-----------------------------------------------------------------------------
(* Walks over code-object trees, for stating properties.                   *)

Kids(c) == SelectSeq(c.consts, IsCode)

\* Every code object the rewrite reaches, in depth-first order over the
\* constants, with its qualified-name path; a template match is a leaf.
RECURSIVE Visit(_, _)
Visit(c, fq) ==
    <<[node |-> c, path |-> fq]>> \o
        IF MatchesBuiltinTemplate(c) THEN <<>>
        ELSE FlattenSeq([i \in 1..Len(Kids(c)) |->
                            Visit(Kids(c)[i], Append(fq, Kids(c)[i].name))])

Visits(c) == Visit(c, <<>>)
=============================================================================
