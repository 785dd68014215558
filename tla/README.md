# TLA+ models of the module freezer (`src/util/freeze_modules.py`)

The repository's core is a build step: `freeze_modules.py` compiles a list of
library modules, rewrites every function whose whole body is `_builtin()` into
a compact reference into a native dispatch table, serializes the code with
`marshal`, and generates four C++ artifacts (`builtins.cpp`, `builtins.h`,
`frozen-modules.cpp`, `frozen-modules.h`) that it writes only when their text
changed. The rest of `src/` is inputs to that step (`_signal.py`,
`_valgrind.py`, `encodings/ascii.py`), a static opcode table of the
front-end compiler (`compiler/opcode36.py`) and unit tests of the runtime.

## Inventory

| Component | Code | State | Operations | Correct when |
|---|---|---|---|---|
| Stub detector & rewriter | `mark_native_functions` (72-138) | the `builtins` and `intrinsics` lists, passed by reference | tag intrinsic (80-85), match the stub template (87-90), assert (91-95), replace a stub (97-118), recurse over `co_consts` (120-138) | indices name their own slot; tables in preorder; malformed stubs abort; unchanged subtrees returned as they were |
| Identifier generator | `builtin_cpp_id`, `builtin_intrinsic_id` (56-69) | none | FUNC/METH naming, raise on deeper nesting | ids distinct per table (the design claims it; see findings) |
| Module collector | `get_module_name`, `process_module` (152-187) | none | dotted name from `__init__.py` markers, package flag, init-hook flag, compile, rewrite, marshal | every file frozen, or the build fails |
| Code generator | `gen_*` (190-315) | none | render tables (append order) and module table (sorted) | artifacts agree with each other |
| Idempotent writer | `write_if_different` (318-326) | the output directory | compare, write a temporary file, rename | no stale artifact; no partial file; reruns write nothing |
| Driver | `main` (329-350), marshal assert (24-26) | the tables and module list of one run | process argv in order, sort, four writes | fatal errors before any write |
| Serializer | host `marshal`, `to_char_array` | none | encoding | format 3413 (external) |
| Opcode table | `compiler/opcode36.py` | the tables `def_op`/`name_op`/`jrel_op`/`jabs_op` fill, `stack_effects` | lookup of an instruction's stack effect | numbers distinct bytes; effects match what instructions pop and push |

How they interact: `main` threads the two lists through `process_module` for
every file in argv order; `process_module` calls `mark_native_functions`,
which appends to the lists and returns a rewritten tree; the stub's index
lives in the tree's stack-size field and must match its position in the list
that `gen_builtins_cpp` renders. Everything is single-threaded; what makes the
step hard is ordering (indices are an ABI fixed by traversal and argv order),
the recursive identity fast path, failures (asserts, raises, crashes between
the four writes), and reruns over an output directory earlier runs left.

Hazards are listed at their lines in `PROJECT.json` with the properties that
cover them.

## Modules

- `NativeStubs.tla` — the rewriter and identifier generator as operators:
  `mark_native_functions` and its loop `MarkConsts` are `RECURSIVE`, and
  thread the two tables left to right exactly as the Python lists are
  mutated. A code object is a record of the fields the rewriter reads or
  writes; `co_code` is abstracted to which byte template it equals, the
  source-location fields to one `loc` field, and `co_flags` to the set of its
  bit positions (`CO_BUILTIN` = 25 and `CO_METADATA` = 26 beside the
  compiler's bits, so `|=` of a one-bit mask is a union and `&` a membership
  test). An `assert` or `raise` returns
  `Fail(why)`. `Visits` (a preorder walk that stops at template matches) is
  used by the properties.
- `CodeShapes.tla` — code objects as the compiler emits them: the two
  templates (lines 37-43), near misses (wrong stack size, free variables,
  another callee), ordinary bodies and class bodies, each with the flag bits
  the compiler sets (`CO_FUTURE_ANNOTATIONS` on all of them, since
  `process_module` compiles with it), and `ReturnsConst`, a body
  `_builtin(); return "x"` whose bytes are those of the documented template.
- `MCNativeStubs.tla` — exhaustive check of the rewriter. `Init` picks every
  module tree of up to three levels (module, class, method, plus one class
  nested in a class) built from the shapes, and either empty tables or tables
  a previous module filled; `Rewrite` calls `mark_native_functions` once. The
  result is compared with reference definitions written from section 4.1/4.2
  of the design (`ExpectFatal`, `ExpectedBuiltins`, `RefBuiltinId`, ...).
- `FreezeModules.tla` — the pipeline over repeated invocations. Variables:
  the input sources `src`, the output directory `disk`, leftover temporary
  files `strays`, `main`'s locals (`builtins`, `intrinsics`, `modules`, file
  index `fi`), the writer's position (`wi`, `wstep`), and bookkeeping for the
  properties (`writes`, `runSrc`, `host`, `prev`). Actions: `Start(magic)`
  (the import assert and `main`'s set-up), `ProcessModule` (one element of the
  list comprehension, the whole `process_module` call), `SortModules`,
  `CompareExisting`, `OpenTemp`, `ReplaceDestination` (the three steps of
  `write_if_different`; `CompareExisting` ends the run fatally when
  `read_text()` raises an error other than `OSError`, for a file that is not
  text in the locale's encoding), `Crash` (kill or OSError anywhere in a run) and the
  environment's `EditSource` between runs. Artifacts are the data their text
  lists, not the text.
- `MCFreezeModules.tla` — four files as the build passes them:
  `_signal.py`, `_valgrind.py` (both exactly as in `src/library`),
  `encodings/__init__.py`, `encodings/ascii.py` (as in `src/library`), with
  edits of `_signal` (reordered with an intrinsic, or unreadable) and of
  `ascii` (a native method, or a malformed one). The output directory starts
  empty (`NoArtifacts`) or, for the undecodable run, may hold an
  undecodable `frozen-modules.cpp` (`UndecodableLeftOver`).
- `MCStubTemplate.tla` — three module trees: the two genuine templates, and
  `ReturnsConst` at function and at method level.
- `MCDataIdent.tla` — `encodings/utf_8.py` beside a top-level
  `encodings_utf_8.py`; module-table rows carry the `kData_` identifier
  (`module_ident`, the name's parts joined by `_`).
- `MCUniqueIds.tla` — two codecs each with a native `Codec.encode`.
- `FreezeSpec.tla` — the abstract specification of the output directory:
  the sources change at will (`Edit`), and an artifact changes only by
  `Publish(a)`, one atomic replacement by its text in a successful build of
  the current sources. `Generate` is a constant operator; `FreezeModules`
  instantiates it with `MainOutput` (all of `main()` as one function of the
  sources: the fold `ProcessFiles` over argv, the sort, the four renderers),
  maps `out` to `disk`, and hides every other variable. Its intermediate steps
  (file loop, comparisons, temporary files, crashes) are stuttering steps of
  the abstract spec.
- `MCRelativePath.tla` — one file given as `ascii.py` from inside
  `encodings/`; a file record carries both the parents as argv spells them and
  the directories it really lies in.
- `OpcodeTable.tla` — `opcode36.py` as data and operators: `opmap` (the
  `def_op` family), `hasname`/`hasjrel`/`hasjabs` and the `has*` number sets,
  `ConstEffects` (integer entries of `stack_effects`), `OpargEffect` (the
  lambdas, with `&` and `shiftR` of the community `Bitwise` module for Python's
  `&` and `>>`), and `stack_effect`, the lookup that calls an entry with the
  oparg when it is a function.
- `MCOpcodeTable.tla` — one state per instruction the compiler could emit:
  every opcode with every oparg from its range (no argument below
  `HAVE_ARGUMENT`, the flag bits of `MAKE_FUNCTION`, `CALL_FUNCTION_EX`,
  `FORMAT_VALUE`, the packed counts of `UNPACK_EX`, counts
  `{0,1,2,3,255,256,65536}`), one `Evaluate` step. The reference `RefEffects`
  lists, per instruction, the net push − pop of each way it can complete,
  written from the 3.6 evaluation loop independently of the table (bits by
  arithmetic, not by `&`).

Variants named "Variant:" in the modules are plausible bugs of the line they
sit above (python -O, index after append, no temp file, ...); each property
is shown to fail under one of them.

## Runs

| Run | What it shows | Bounds |
|---|---|---|
| `rewriter_exhaustive` (`MCNativeStubs.cfg`) | over 200k trees: the rewrite fails exactly on malformed stubs, unsupported nesting or `__init_module__` (`FailsExactlyOnMalformed`); tables follow the preorder of the design with the spec's naming (`AllocationFollowsPreorder`); each stub's index and each metadata tuple names the slot of its own id (`IndicesAgreeWithTables`); the root comes back unchanged iff no stub or intrinsic lies in it (`IdentityFastPath`); rewritten stubs have the cleared shape of section 3 (`TypeOK`). | depth 3, two children per body, eight shapes, two starting tables: every combination of intrinsic/stub/near-miss at function and method level, a stub and an intrinsic one level too deep, an intrinsic module docstring, and a nested `<module>` |
| `pipeline_reruns` (`MCFreezeModules.cfg`) | a completed run leaves exactly the text it generated, whatever crashed runs left (`CompletedRunLeavesCurrentArtifacts`); the artifacts agree with each other across modules (`DispatchIndicesAgree`); a rerun on unchanged sources writes nothing (`RerunWritesNothing`); every path holds no file or the complete text of its own renderer (`TypeOK`). | 3 invocations, 4 files, 3×3 source versions, 2 host Pythons, a crash possible at every step: enough for edit→run→crash→rerun→rerun |
| `method_id_collision` (`MCUniqueIds.cfg`, expected violation) | `UniqueBuiltinIds` fails: `METH(Codec, encode)` appears twice. | 2 files, 1 run |
| `pipeline_refinement` (`MCFreezeRefinement.cfg`) | `FreezeSpecRefined`: the pipeline implements `FreezeSpec`; every change of an artifact, across crashes and reruns, is the replacement by its text in a successful, complete build by a Python of the runtime's marshal format, of the sources of that moment. | the files and edits of `pipeline_reruns`, 2 invocations (edit→run→crash→edit→run; three took 4.5 minutes) |
| `undecodable_artifact` (`MCUndecodable.cfg`, expected violation) | `FatalExactlyOnBadInput` fails: with good sources and the runtime's Python, the run writes `builtins.cpp` and `builtins.h`, then stops on the undecodable `frozen-modules.cpp`; every rerun does the same. | 2 invocations, one host |
| `data_ident_collision` (`MCDataIdent.cfg`, expected violation) | `DataArraysDistinct` fails: both rows are backed by `kData_encodings_utf_8`. | 2 files, 1 run |
| `stub_template_coincidence` (`MCStubTemplate.cfg`, expected violation) | `StubsArePlaceholderBodies` fails: a body `_builtin(); return "x"` is frozen as a native stub (the trace shows the method `C.m`; the module-level `g` fails the same way). | 3 trees, 1 call |
| `relative_path_name` (`MCRelativePath.cfg`, expected violation) | `ModuleNameFromLocation` fails: the frozen row is named `<<"", "ascii">>`, i.e. `.ascii`. | 1 file, 1 run |
| `opcode_stack_effects` (`MCOpcodeTable.cfg`) | every opcode has a distinct byte and an integer effect (`TypeOK`); every effect outside block handling equals the largest net effect of the instruction (`StackEffectMatchesSemantics`): exact for straight-line instructions, the fall-through maximum for `FOR_ITER` and `JUMP_IF_*_OR_POP`. | all 118 opcodes, 477 (opcode, oparg) pairs |

Deadlock checking is off in every run: the rewrite and the opcode lookup are
single calls, and the pipeline stops after `MaxRuns` invocations, as the
program exits.

No liveness property is checked and no fairness is assumed. The script
is straight-line code: a list comprehension over argv, a sort and four
calls, with no loop bound to get wrong and nothing that waits. "Every run
ends" would hold by the shape of the model whatever the code did. The
failures that matter (an abort that leaves a mixed directory, a file that
stops every later run) are safety questions, checked by
`FreezeSpecRefined` and the `undecodable_artifact` run.

## Findings

- The design says identifiers are unique in a table because they derive from
  unique qualified paths; `builtin_cpp_id` drops the module for methods, so
  equal class and method names in two modules collide (line 60).
- The design derives a module's dotted name from the package markers of the
  directories the file lies in; `get_module_name` walks the parents of the
  path as argv spells it, so `ascii.py` given from inside `encodings/` stops
  at `Path('.')` (name `''`, holding `__init__.py`) and is frozen as `.ascii`
  (line 157).
- The design reads a template match as a body that is only the placeholder
  call after at most a docstring; the test compares bytes, and
  `_builtin(); return "x"` has constants `(None, "x")`, returns with
  `LOAD_CONST 1`, and so has the bytes of the documented template: it is
  frozen as a stub and its return value is lost (line 88).
- The design gives each module a byte array of its own;
  `name.replace(".", "_")` is not one-to-one, so `encodings.utf_8` and
  `encodings_utf_8` (or one file passed twice) define `kData_encodings_utf_8`
  twice (line 202). The C++ compiler rejects the result.
- The design's writer compares bytes and replaces any file that differs;
  `write_if_different` decodes the old file with `read_text()` and catches
  only `OSError`, so an artifact that is not text in the locale's encoding
  (`UnicodeDecodeError`) stops every run at that file, after the artifacts
  before it were replaced (line 318).

## Not modelled

- marshal's bytes and `to_char_array`: an encoding of a tree, kept as the
  tree plus the format marker.
- The compiler (`_compiler`, not under `src/`) and the real bytecode: bodies
  are given as the code objects it produces for them (`CodeShapes`).
- The text of the C++ artifacts beyond the identifiers the properties
  compare: the `FUNC(<dotted name>, __init_module__)` hook of a package
  submodule is listed as a hazard (it stops the C++ compiler, and only the
  top-level `_signal` carries the marker).
- `to_char_array` (lines 141-144): it only spells the marshalled bytes as
  a C initializer; the bytes are kept as the marshalled tree, and a property
  about the spelling would need the bytes, which come from the host's
  `marshal` (the Serializer, outside `src/`).
- The library tests: they test the C++ runtime, which is not here.
- Concurrent invocations on one output directory: the design declares the
  tool single-threaded per invocation.
- `opcodebase` (the `Opcode` class) and the compiler's stack-depth pass that
  reads `stack_effects` are not under `src/`: the tables are taken as the
  calls of `opcode36.py` build them, and the block opcodes' allowances for a
  handler frame (`SETUP_*`, `END_FINALLY`, `WITH_CLEANUP_*`, "close
  enough...") are checked for presence and type only, since what they must
  equal is defined by that pass.
- Leftover temporary files (`strays`) are counted but bound by nothing the
  code or design states.

## Plan

1. Done: `NativeStubs` + `MCNativeStubs`; `FreezeModules` + `MCFreezeModules`;
   the uniqueness violation.
2. Done: `OpcodeTable` + `MCOpcodeTable`; the refinement of `FreezeSpec`;
   the relative-path violation.
3. Done: flag bits as bit positions; the template-coincidence and
   undecodable-artifact violations; `FatalExactlyOnBadInput`.
4. Done: the `kData_` identifier collision (it covers a file passed twice).
   After review, four properties were removed because each restated one
   guard or assignment of the model: the every-file-frozen check, the
   marshal-format check, the no-partial-file check, and the run-ends
   liveness property. The format and atomicity hazards are covered by
   `FreezeSpecRefined`, whose mutant writes in place.
5. Left open: argv-order determinism. Only the row order of the module
   table is independent of argv order; the frozen stubs carry dispatch
   indices, which follow argv order by design (section 5). So the question
   is consistency within a run, which `DispatchIndicesAgree` checks.
