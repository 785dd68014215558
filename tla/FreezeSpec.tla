------------------------------ MODULE FreezeSpec ------------------------------
(***************************************************************************)
(* What the build step promises about its output directory (design,      *)
(* sections 4.5 and 5), with no runs, files or steps: the sources change *)
(* at will, and an artifact changes only by being replaced, as one step,   *)
(* with its text as a successful build of the current sources renders it. *)
(* A failed build changes nothing; a build cut short may have replaced     *)
(* some artifacts and not others, which is why Publish is per artifact.    *)
(***************************************************************************)
CONSTANTS
    Names,          \* the artifact file names
    Absent,         \* the state of a path with no file
    Generate(_)     \* sources -> [ok, files]: the build's result

VARIABLES src, out

Init == out = [a \in Names |-> Absent]

\* A developer edits the inputs.
Edit ==
    /\ src' # src
    /\ UNCHANGED out

\* One artifact is replaced by its text in a successful build of the
\* current sources.
Publish(a) ==
    /\ Generate(src).ok
    /\ out' = [out EXCEPT ![a] = Generate(src).files[a]]
    /\ out' # out
    /\ UNCHANGED src

Next == Edit \/ \E a \in Names : Publish(a)

Spec == Init /\ [][Next]_<<src, out>>
=============================================================================
