--------------------------- MODULE MCFreezeModules ---------------------------
(***************************************************************************)
(* Four input files under library/ in the order the build passes them:   *)
(* _signal (native stubs, `_unimplemented()` bodies, and the              *)
(* $builtin-init-module$ marker), _valgrind (stubs only), the encodings   *)
(* package's __init__ and its ascii codec (no stubs).  Between runs       *)
(* _signal may be edited into another version or a broken one, and ascii  *)
(* into one with a native method or with a malformed stub; a Python with  *)
(* another marshal format may run the script.                              *)
(***************************************************************************)
EXTENDS FreezeModules, CodeShapes

Lib == [name |-> "library", has_init |-> FALSE]
Enc == [name |-> "encodings", has_init |-> TRUE]

MCFiles ==
    << [dirs |-> <<Lib>>, stem |-> "_signal", ext |-> "py"],
       [dirs |-> <<Lib>>, stem |-> "_valgrind", ext |-> "py"],
       [dirs |-> <<Lib, Enc>>, stem |-> "__init__", ext |-> "py"],
       [dirs |-> <<Lib, Enc>>, stem |-> "ascii", ext |-> "py"] >>

Module(kids) == Body("<module>", FALSE, kids)

Src(marker, tree) == [readable |-> TRUE, marker |-> marker, tree |-> tree]
Broken == [readable |-> FALSE, marker |-> FALSE, tree |-> Module(<<>>)]

\* library/_signal.py as it is.
SignalSrc ==
    Src(TRUE, Module(<<Stub("alarm"), Stub("default_int_handler"),
                       OtherCall("getitimer"), Stub("getsignal"),
                       OtherCall("pause"), OtherCall("pthread_kill"),
                       Plain("set_wakeup_fd"), OtherCall("setitimer"),
                       Stub("siginterrupt"), Stub("signal"),
                       OtherCall("sigpending"), OtherCall("sigwait"),
                       Stub("valid_signals")>>))

\* An edit: functions reordered, one made an intrinsic, the rest removed.
SignalEdited ==
    Src(TRUE, Module(<<Stub("signal"), IntrinsicStub("valid_signals"),
                       Stub("alarm")>>))

\* library/_valgrind.py as it is.
ValgrindSrc ==
    Src(FALSE, Module(<<Stub("callgrind_dump_stats"),
                        Stub("callgrind_start_instrumentation"),
                        Stub("callgrind_stop_instrumentation"),
                        Stub("callgrind_zero_stats")>>))

EncodingsInit == Src(FALSE, Module(<<IntrinsicPlain("search_function")>>))

\* library/encodings/ascii.py as it is: classes, two methods, one function.
AsciiSrc ==
    Src(FALSE, Module(<<Body("Codec", FALSE, <<>>),
                        Body("IncrementalEncoder", FALSE, <<Plain("encode")>>),
                        Body("IncrementalDecoder", FALSE, <<Plain("decode")>>),
                        Body("StreamWriter", FALSE, <<>>),
                        Body("StreamReader", FALSE, <<>>),
                        Body("StreamConverter", FALSE, <<>>),
                        Plain("getregentry")>>))

\* Edits: IncrementalEncoder.encode made native, once well-formed and once
\* with a body the compiler gave a larger stack.
AsciiNative ==
    Src(FALSE, Module(<<Body("IncrementalEncoder", FALSE, <<Stub("encode")>>),
                        Plain("getregentry")>>))
AsciiBad ==
    Src(FALSE, Module(<<Body("IncrementalEncoder", FALSE, <<BadStackStub("encode")>>)>>))

MCSourceChoices ==
    << {SignalSrc, SignalEdited, Broken}, {ValgrindSrc}, {EncodingsInit},
       {AsciiSrc, AsciiNative, AsciiBad} >>

\* The output directory is empty before the first run, or holds a
\* frozen-modules.cpp that does not decode as text.
UndecodableLeftOver ==
    NoArtifacts \cup {[a \in Range(Artifacts) |->
                          IF a = "frozen-modules.cpp" THEN Undecodable ELSE Absent]}

MCNameOrder ==
    << <<"_signal">>, <<"_valgrind">>, <<"encodings">>, <<"encodings", "ascii">> >>
=============================================================================
