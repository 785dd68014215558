----------------------------- MODULE MCUniqueIds -----------------------------
(***************************************************************************)
(* Two codecs of the encodings package, each declaring the usual `Codec`   *)
(* class, with `encode` turned into a native stub in both.                 *)
(***************************************************************************)
EXTENDS FreezeModules, CodeShapes

Enc == [name |-> "encodings", has_init |-> TRUE]

UFiles ==
    << [dirs |-> <<Enc>>, stem |-> "ascii", ext |-> "py"],
       [dirs |-> <<Enc>>, stem |-> "latin_1", ext |-> "py"] >>

CodecStub ==
    [readable |-> TRUE, marker |-> FALSE,
     tree |-> Body("<module>", FALSE, <<Body("Codec", FALSE, <<Stub("encode")>>)>>)]

USourceChoices == << {CodecStub}, {CodecStub} >>

UNameOrder == << <<"encodings", "ascii">>, <<"encodings", "latin_1">> >>
=============================================================================
