---------------------------- MODULE MCRelativePath ----------------------------
(***************************************************************************)
(* The build run from inside the encodings package with a path relative  *)
(* to it: argv names "ascii.py".  Path("ascii.py").parents is just ".",   *)
(* whose name is the empty string, and "./__init__.py" exists.  A file     *)
(* record carries the parents as argv spells them (dirs) and the          *)
(* directories the file really lies in (real).                            *)
(***************************************************************************)
EXTENDS FreezeModules, CodeShapes

Lib == [name |-> "library", has_init |-> FALSE]
Enc == [name |-> "encodings", has_init |-> TRUE]
Dot == [name |-> "", has_init |-> TRUE]     \* Path("."), cwd = encodings

RFiles ==
    << [dirs |-> <<Dot>>, real |-> <<Lib, Enc>>, stem |-> "ascii", ext |-> "py"] >>

AsciiModule ==
    [readable |-> TRUE, marker |-> FALSE,
     tree |-> Body("<module>", FALSE, <<Plain("getregentry")>>)]

RSourceChoices == << {AsciiModule} >>

RNameOrder == << <<"", "ascii">>, <<"encodings", "ascii">> >>

\* The dotted name of the file at its real location.
RealName(f) == fullname([f EXCEPT !.dirs = f.real])

(* The design (section 4.3) derives a module's dotted name from the       *)
(* package markers of the directories the file lies in, so the name a    *)
(* completed run freezes does not depend on how argv spells the path.    *)
ModuleNameFromLocation ==
    pc = "done" =>
        {r.name : r \in Range(disk["frozen-modules.cpp"].rows)} =
            {RealName(Files[k]) : k \in 1..NFiles}
=============================================================================
