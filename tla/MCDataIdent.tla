---------------------------- MODULE MCDataIdent ----------------------------
(***************************************************************************)
(* The utf_8 codec of the encodings package beside a top-level module     *)
(* whose name is that dotted name with "_" for ".".                       *)
(***************************************************************************)
EXTENDS FreezeModules, CodeShapes

Lib == [name |-> "library", has_init |-> FALSE]
Enc == [name |-> "encodings", has_init |-> TRUE]

IFiles ==
    << [dirs |-> <<Lib, Enc>>, stem |-> "utf_8", ext |-> "py"],
       [dirs |-> <<Lib>>, stem |-> "encodings_utf_8", ext |-> "py"] >>

PlainModule ==
    [readable |-> TRUE, marker |-> FALSE,
     tree |-> Body("<module>", FALSE, <<Plain("decode")>>)]

ISourceChoices == << {PlainModule}, {PlainModule} >>

INameOrder == << <<"encodings", "utf_8">>, <<"encodings_utf_8">> >>
=============================================================================
