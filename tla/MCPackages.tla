----------------------------- MODULE MCPackages -----------------------------
(***************************************************************************)
(* An instance of Packages for TLC.                                        *)
(***************************************************************************)
EXTENDS Packages, TLC

\* From the hub: the latest version, an old one over what is there, the latest
\* with a fresh index; from the repository, allowed or not, cloned or not.
Plainly == [version |-> Latest, source |-> Hub, force |-> FALSE,
            refresh |-> FALSE, external |-> FALSE]
SomeInstalls ==
    {Plainly, [Plainly EXCEPT !.version = 1, !.force = TRUE],
     [Plainly EXCEPT !.force = TRUE, !.refresh = TRUE],
     [Plainly EXCEPT !.source = Git(Default, FALSE)],
     [Plainly EXCEPT !.source = Git("main", TRUE), !.external = TRUE,
                     !.force = TRUE]}

\* The packages are interchangeable.
Interchangeable == Permutations(Names)
=============================================================================
