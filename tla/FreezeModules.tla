---------------------------- MODULE FreezeModules ----------------------------
(***************************************************************************)
(* The build step of src/util/freeze_modules.py run again and again on the *)
(* same output directory while the input sources are edited between runs: *)
(* main() processes the files in argv order (process_module, which calls  *)
(* get_module_name and mark_native_functions), sorts the modules, renders *)
(* the four artifacts and writes each with write_if_different (read,      *)
(* compare, write a temporary file, rename it over the destination).      *)
(* A run can be killed at any step, and a different host Python may run   *)
(* the script (the marshal format assert at import).                      *)
(***************************************************************************)
EXTENDS NativeStubs, SequencesExt, FiniteSets, TLC

CONSTANTS
    Files,          \* argv: a sequence of paths [dirs, stem, ext]
    SourceChoices,  \* [1..Len(Files) -> set of sources] an edit may pick from
    NameOrder,      \* every possible module name, in Python string order
    HostMagics,     \* importlib.util.MAGIC_NUMBER of the Pythons that may run it
    MaxRuns,        \* bound on the number of invocations
    InitialDisks    \* what the output paths may hold before the first run

ExpectedMagic == "3413"

\* The assert at import: MAGIC_NUMBER is 3413 in two little-endian bytes.
MarshalFormatOk(magic) == magic = ExpectedMagic

\* A source is [readable, marker, tree]: readable is FALSE when open/read or
\* the compiler raises, marker whether the text contains
\* "$builtin-init-module$", tree the compiled module code object.
Artifacts == <<"builtins.cpp", "builtins.h", "frozen-modules.cpp", "frozen-modules.h">>

Absent == [file |-> "absent"]     \* no file at the path
Partial == [file |-> "partial"]   \* a file whose write was cut short
\* a file that is not text in the locale's encoding (binary, or written
\* under another locale)
Undecodable == [file |-> "undecodable"]

\* An output directory with none of the artifacts yet.
NoArtifacts == {[a \in Range(Artifacts) |-> Absent]}

VARIABLES
    src,        \* the current text of every input file
    disk,       \* the contents of the four artifacts in the output directory
    strays,     \* temporary files left in the output directory
    pc,         \* "idle", "process", "write", "done", "fatal" or "crashed"
    fi,         \* index of the next file to process
    builtins, intrinsics, modules,  \* main's locals
    wi,         \* index of the artifact being written
    wstep,      \* step of write_if_different: "compare", "open", "close"
    writes,     \* artifacts replaced in this run
    runs,       \* invocations so far
    runSrc,     \* the sources this run read
    host,       \* the marshal format of the Python running this run
    prev        \* [outcome, src] of the previous run

vars == <<src, disk, strays, pc, fi, builtins, intrinsics, modules, wi, wstep,
          writes, runs, runSrc, host, prev>>

NFiles == Len(Files)

-----------------------------------------------------------------------------
(* get_module_name and process_module.                                     *)

\* How many of the innermost parent directories contain an __init__.py.
PackageDepth(dirs) ==
    Max({k \in 0..Len(dirs) :
            \A j \in (Len(dirs) - k + 1)..Len(dirs) : dirs[j].has_init})

\* A dotted name is the sequence of its parts.
get_module_name(f) ==
    LET k == PackageDepth(f.dirs)
    IN [j \in 1..k |-> f.dirs[Len(f.dirs) - k + j].name] \o <<f.stem>>

\* The dotted name with a trailing __init__ stripped, and whether it was.
is_package(f) == Last(get_module_name(f)) = "__init__"
fullname(f) ==
    IF is_package(f) THEN Front(get_module_name(f)) ELSE get_module_name(f)

\* marshal.dumps of the rewritten code object: bytes in format fmt, that of
\* the host Python whose marshal module the script imports.
Marshal(fmt, code) == [format |-> fmt, code |-> code]

\* The ModuleData built from the rewrite's result r.
ModuleData(f, source, r, fmt) ==
    [ok |-> TRUE, builtins |-> r.builtins, intrinsics |-> r.intrinsics,
     module |-> [name |-> fullname(f),
                 initializer |-> Marshal(fmt, r.code),
                 builtin_init |-> source.marker,
                 is_package |-> is_package(f)]]

\* Variant: each module fills tables of its own, concatenated afterwards.
process_module_own_tables(f, source, bs, is, fmt) ==
    LET r == mark_native_functions(source.tree, <<>>, <<>>, fullname(f), <<>>)
    IN CASE f.ext # "py"     -> Fail("not a .py file")
         [] ~source.readable -> Fail("read or compile error")
         [] ~r.ok            -> r
         [] OTHER -> [ModuleData(f, source, r, fmt) EXCEPT !.builtins = bs \o @,
                                                     !.intrinsics = is \o @]

\* The ModuleData of a file, or a Fail record when an assert, the reader,
\* the compiler or the rewriter raises.
process_module(f, source, bs, is, fmt) ==
    LET r == mark_native_functions(source.tree, bs, is, fullname(f), <<>>)
    IN CASE f.ext # "py"     -> Fail("not a .py file")
         [] ~source.readable -> Fail("read or compile error")
         [] ~r.ok            -> r
         [] OTHER            -> ModuleData(f, source, r, fmt)

NameBefore(a, b) ==
    \E i, j \in 1..Len(NameOrder) :
        i < j /\ NameOrder[i] = a.name /\ NameOrder[j] = b.name

-----------------------------------------------------------------------------
(* The generated artifacts, as the data their text lists.                  *)

InitFunc(m) ==
    IF m.builtin_init THEN <<"FUNC", m.name, INIT_MODULE_NAME>> ELSE "nullptr"

\* module.name.replace(".", "_"): the C++ name of the module's data array
\* is kData_ followed by the name's parts joined by "_".
module_ident(name) ==
    IF name = <<>> THEN ""
    ELSE FoldLeft(LAMBDA acc, part : acc \o "_" \o part, Head(name), Tail(name))

gen_frozen_modules_cpp(mods) ==
    [rows |-> [k \in 1..Len(mods) |->
                  [name |-> mods[k].name, ident |-> module_ident(mods[k].name),
                   data |-> mods[k].initializer,
                   init |-> InitFunc(mods[k]), is_package |-> mods[k].is_package]]]

gen_frozen_modules_h == [externs |-> {"kFrozenModules", "kNumFrozenModules"}]

gen_builtins_cpp(bs, is) == [builtins |-> bs, intrinsics |-> is]

gen_builtins_h(mods, bs, is) ==
    [builtins |-> bs, intrinsics |-> is,
     inits |-> [k \in 1..Len(SelectSeq(mods, LAMBDA m : m.builtin_init)) |->
                  InitFunc(SelectSeq(mods, LAMBDA m : m.builtin_init)[k])]]

\* The string main passes to write_if_different for the k-th artifact.
Content(k) ==
    CASE k = 1 -> gen_builtins_cpp(builtins, intrinsics)
      [] k = 2 -> gen_builtins_h(modules, builtins, intrinsics)
      [] k = 3 -> gen_frozen_modules_cpp(modules)
      [] k = 4 -> gen_frozen_modules_h

\* The list comprehension of main() over all files, threading the tables;
\* the first failure ends it.
RECURSIVE ProcessFiles(_, _, _, _, _)
ProcessFiles(s, k, bs, is, mods) ==
    IF k > NFiles THEN [ok |-> TRUE, builtins |-> bs, intrinsics |-> is, modules |-> mods]
    ELSE LET r == process_module(Files[k], s[k], bs, is, ExpectedMagic)
         IN IF r.ok THEN ProcessFiles(s, k + 1, r.builtins, r.intrinsics,
                                      Append(mods, r.module))
                    ELSE r

\* What main() writes for sources s when the Python running it has the
\* runtime's marshal format, as one function: the four artifacts by file
\* name, or ok = FALSE when a module fails.
MainOutput(s) ==
    LET r    == ProcessFiles(s, 1, <<>>, <<>>, <<>>)
        mods == SortSeq(r.modules, NameBefore)
    IN IF ~r.ok THEN [ok |-> FALSE]
       ELSE [ok |-> TRUE,
             files |-> [a \in Range(Artifacts) |->
                          CASE a = Artifacts[1] -> gen_builtins_cpp(r.builtins, r.intrinsics)
                            [] a = Artifacts[2] -> gen_builtins_h(mods, r.builtins, r.intrinsics)
                            [] a = Artifacts[3] -> gen_frozen_modules_cpp(mods)
                            [] a = Artifacts[4] -> gen_frozen_modules_h]]

-----------------------------------------------------------------------------
(* The environment: edits between runs.                                    *)

Idle == pc \in {"idle", "done", "fatal", "crashed"}

EditSource(k, s) ==
    /\ Idle
    /\ s # src[k]
    /\ src' = [src EXCEPT ![k] = s]
    /\ UNCHANGED <<disk, strays, pc, fi, builtins, intrinsics, modules, wi,
                   wstep, writes, runs, runSrc, host, prev>>

\* The outcome of the run that just ended, for the next one to compare.
Outcome == [outcome |-> pc, src |-> runSrc]

(* main(): an invocation starts.  Importing the script asserts the host's *)
(* marshal format first.                                                   *)
Start(magic) ==
    /\ Idle
    /\ runs < MaxRuns
    /\ runs' = runs + 1
    /\ prev' = IF runs = 0 THEN [outcome |-> "none", src |-> src] ELSE Outcome
    /\ runSrc' = src
    /\ host' = magic
    /\ pc' = IF MarshalFormatOk(magic) THEN "process" ELSE "fatal"
    /\ fi' = 1
    /\ builtins' = <<>>
    /\ intrinsics' = <<>>
    /\ modules' = <<>>
    /\ writes' = 0
    /\ UNCHANGED <<src, disk, strays, wi, wstep>>

\* One element of the list comprehension over args.files.
ProcessModule ==
    /\ pc = "process"
    /\ fi <= NFiles
    /\ LET r == process_module(Files[fi], src[fi], builtins, intrinsics, host)
       IN IF r.ok
          THEN /\ builtins' = r.builtins
               /\ intrinsics' = r.intrinsics
               /\ modules' = Append(modules, r.module)
               /\ fi' = fi + 1
               /\ pc' = pc
          ELSE /\ pc' = "fatal"
               /\ UNCHANGED <<builtins, intrinsics, modules, fi>>
    /\ UNCHANGED <<src, disk, strays, wi, wstep, writes, runs, runSrc,
                   host, prev>>

\* The list comprehension has visited every file of args.files.
AllFilesProcessed == fi > NFiles

\* modules.sort(key=lambda x: x.name), then on to the writes.
SortModules ==
    /\ pc = "process"
    /\ AllFilesProcessed
    /\ modules' = SortSeq(modules, NameBefore)
    /\ pc' = "write"
    /\ wi' = 1
    /\ wstep' = "compare"
    /\ UNCHANGED <<src, disk, strays, fi, builtins, intrinsics, writes, runs,
                   runSrc, host, prev>>

-----------------------------------------------------------------------------
(* write_if_different(path, string) for the wi-th artifact.                *)

NextArtifact ==
    IF wi = Len(Artifacts)
    THEN pc' = "done" /\ UNCHANGED <<wi, wstep>>
    ELSE wi' = wi + 1 /\ wstep' = "compare" /\ pc' = pc

\* Variants: an existence test for the comparison; no comparison at all.
ExistsAlready(a, string) == disk[a] # Absent
NeverSame(a, string) == FALSE

\* path.read_text() == string; a missing or unreadable file (OSError)
\* counts as different.
SameText(a, string) == disk[a] = string

\* Variant: without `except OSError`, the FileNotFoundError of a missing
\* file propagates too.
read_text_uncaught(f) == f \in {Absent, Undecodable}

\* path.read_text() raises an error that `except OSError` does not catch:
\* UnicodeDecodeError, a ValueError.
read_text_raises(f) == f = Undecodable

\* write_if_different returns early when the text is already there; an
\* exception the try does not catch ends main() with a traceback.
CompareExisting ==
    /\ pc = "write"
    /\ wstep = "compare"
    /\ CASE read_text_raises(disk[Artifacts[wi]]) ->
              pc' = "fatal" /\ UNCHANGED <<wi, wstep>>
         [] SameText(Artifacts[wi], Content(wi)) -> NextArtifact
         [] OTHER -> wstep' = "open" /\ UNCHANGED <<pc, wi>>
    /\ UNCHANGED <<src, disk, strays, fi, builtins, intrinsics, modules, writes,
                   runs, runSrc, host, prev>>

\* Variant: open(path, "w") and write in place.
WriteInPlace(a) ==
    /\ wstep' = "close"
    /\ disk' = [disk EXCEPT ![a] = Partial]

\* tempfile.NamedTemporaryFile(dir=path.parent, delete=False) and
\* fp.write(string): a new file next to the destination, not yet complete.
WriteTemp(a) ==
    /\ wstep' = "close"
    /\ UNCHANGED disk

OpenTemp ==
    /\ pc = "write"
    /\ wstep = "open"
    /\ WriteTemp(Artifacts[wi])
    /\ UNCHANGED <<src, strays, pc, fi, builtins, intrinsics, modules, wi,
                   writes, runs, runSrc, host, prev>>

\* Leaving the with-block closes the temporary file, then
\* Path(fp.name).replace(path) renames it over the destination.
ReplaceDestination ==
    /\ pc = "write"
    /\ wstep = "close"
    /\ disk' = [disk EXCEPT ![Artifacts[wi]] = Content(wi)]
    /\ writes' = writes + 1
    /\ NextArtifact
    /\ UNCHANGED <<src, strays, fi, builtins, intrinsics, modules, runs, runSrc,
                   host, prev>>

\* The process is killed, or the file system fails (OSError), anywhere in a
\* run; a temporary file already created stays behind.
Crash ==
    /\ pc \in {"process", "write"}
    /\ pc' = "crashed"
    /\ strays' = IF pc = "write" /\ wstep = "close" THEN strays + 1 ELSE strays
    /\ UNCHANGED <<src, disk, fi, builtins, intrinsics, modules, wi, wstep,
                   writes, runs, runSrc, host, prev>>

Init ==
    /\ src \in [1..NFiles -> UNION {SourceChoices[k] : k \in 1..NFiles}]
    /\ \A k \in 1..NFiles : src[k] \in SourceChoices[k]
    /\ disk \in InitialDisks
    /\ strays = 0
    /\ pc = "idle"
    /\ fi = 1
    /\ builtins = <<>>
    /\ intrinsics = <<>>
    /\ modules = <<>>
    /\ wi = 1
    /\ wstep = "compare"
    /\ writes = 0
    /\ runs = 0
    /\ runSrc = src
    /\ host = ExpectedMagic
    /\ prev = [outcome |-> "none", src |-> src]

Next ==
    \/ \E k \in 1..NFiles : \E s \in SourceChoices[k] : EditSource(k, s)
    \/ \E m \in HostMagics : Start(m)
    \/ ProcessModule
    \/ SortModules
    \/ CompareExisting
    \/ OpenTemp
    \/ ReplaceDestination
    \/ Crash

Spec == Init /\ [][Next]_vars

\* The output directory seen through the design's abstract specification.
Abstract == INSTANCE FreezeSpec WITH Names <- Range(Artifacts), out <- disk,
                                     Generate <- MainOutput

-----------------------------------------------------------------------------
(* Properties.                                                             *)

\* The fields the text of each artifact lists, in the order of Artifacts.
ArtifactFields ==
    << {"builtins", "intrinsics"}, {"builtins", "intrinsics", "inits"},
       {"rows"}, {"externs"} >>

\* The variables' types; each artifact path holds no file, a file that
\* does not decode, or the complete text of that artifact's renderer.
TypeOK ==
    /\ pc \in {"idle", "process", "write", "done", "fatal", "crashed"}
    /\ fi \in 1..(NFiles + 1)
    /\ wi \in 1..Len(Artifacts)
    /\ wstep \in {"compare", "open", "close"}
    /\ writes \in 0..Len(Artifacts)
    /\ runs \in 0..MaxRuns
    /\ strays \in 0..MaxRuns
    /\ DOMAIN disk = Range(Artifacts)
    /\ \A k \in 1..Len(Artifacts) :
          \/ disk[Artifacts[k]] \in {Absent, Undecodable}
          \/ DOMAIN disk[Artifacts[k]] = ArtifactFields[k]
    /\ Len(modules) < fi

(* A run that finishes leaves in the output directory exactly the text it *)
(* generated from the sources it read, whatever earlier runs, crashed or  *)
(* not, left there: write_if_different never keeps a stale artifact.       *)
CompletedRunLeavesCurrentArtifacts ==
    pc = "done" => \A k \in 1..Len(Artifacts) : disk[Artifacts[k]] = Content(k)

(* After a completed run the artifacts agree with each other: each frozen *)
(* module's rewritten stubs carry, in the reused stack-size field, the    *)
(* slot of builtins.cpp's dispatch table that holds their own identifier, *)
(* every CO_METADATA object the biased slot of its intrinsic, and         *)
(* builtins.h declares exactly the functions the tables list.  This needs *)
(* the tables threaded through all files of the run in argv order and     *)
(* rendered in append order.                                               *)
DispatchIndicesAgree ==
    pc = "done" =>
        LET table  == disk["builtins.cpp"]
            frozen == disk["frozen-modules.cpp"].rows
        IN /\ disk["builtins.h"].builtins = table.builtins
           /\ disk["builtins.h"].intrinsics = table.intrinsics
           /\ \A e \in Range(frozen) : \A v \in Range(Visits(e.data.code)) :
                /\ CO_BUILTIN \in v.node.flags =>
                      /\ v.node.stacksize + 1 \in 1..Len(table.builtins)
                      /\ table.builtins[v.node.stacksize + 1] =
                             builtin_cpp_id(e.name, v.path)
                /\ CO_METADATA \in v.node.flags =>
                      LET k == v.node.consts[1].meta
                      IN /\ k \in 1..Len(table.intrinsics)
                         /\ table.intrinsics[k] = builtin_intrinsic_id(e.name, v.path)

(* Idempotence: a run on the sources the previous, completed run read     *)
(* rewrites no file.                                                       *)
RerunWritesNothing ==
    (pc = "done" /\ prev.outcome = "done" /\ prev.src = runSrc) => writes = 0

(* The pipeline, with its runs, file loop, comparisons, temporary files  *)
(* and crashes, implements FreezeSpec: every change of an artifact is one *)
(* replacement by its text in a successful build of the sources of that  *)
(* moment, so no reader ever meets a file of a failed or mixed build.    *)
FreezeSpecRefined == Abstract!Spec

(* The failure taxonomy of the design (section 7): a run stops on a fatal *)
(* error exactly when its input is bad -- a host with another marshal     *)
(* format, or a source that cannot be read or compiled, holds a malformed *)
(* stub or nests one too deeply -- and never because of what the output  *)
(* directory held before (section 4.5: a file that differs is replaced). *)
BadInput == ~MarshalFormatOk(host) \/ ~MainOutput(runSrc).ok

FatalExactlyOnBadInput ==
    pc \in {"done", "fatal"} => (pc = "fatal" <=> BadInput)

(* Every frozen module gets a static byte array of its own (design,      *)
(* section 6): the kData_ identifiers of the module table are distinct, so *)
(* frozen-modules.cpp defines each once.                                  *)
DataArraysDistinct ==
    pc = "done" =>
        LET rows == disk["frozen-modules.cpp"].rows
        IN IsInjective([k \in DOMAIN rows |-> rows[k].ident])

(* The dispatch table lists each native function once: identifiers are    *)
(* unique within a table because they derive from unique qualified paths *)
(* (design, section 3).                                                   *)
UniqueBuiltinIds ==
    pc = "done" => IsInjective(disk["builtins.cpp"].builtins)
=============================================================================
