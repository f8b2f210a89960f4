------------------------------ MODULE MCImport ------------------------------
(***************************************************************************)
(* Images for TLC: the ones a store takes, and one for each refusal.       *)
(***************************************************************************)
EXTENDS Import

CONSTANTS a, b

File(name) == [kind |-> "file", base |-> name]

Other(kind) == [kind |-> kind, base |-> a]

MCImages ==
    {<< <<Other("dir"), File(a)>>, <<File(b)>> >>,
     << <<File(a), File(Sentinel)>>, <<File(b)>> >>,
     << <<File(a)>>, <<File(a)>> >>,
     << <<File(a), Other("link")>> >>,
     << <<File(a)>>, <<Other("whiteout")>> >>,
     << <<File(a), Other("nameless")>> >>,
     << <<File(Sentinel)>> >>}

\* A registry with the default transport.
Plainly ==
    [name |-> TRUE, path |-> TRUE, shape |-> "reference", ca |-> "none",
     skip |-> FALSE, plain |-> FALSE, mount |-> TRUE, platform |-> "own"]

MCCommandLines ==
    {Plainly,
     [Plainly EXCEPT !.ca = "usable"],
     [Plainly EXCEPT !.skip = TRUE],
     [Plainly EXCEPT !.plain = TRUE],
     [Plainly EXCEPT !.shape = "path", !.ca = "unusable",
                     !.platform = "undeclared"],
     [Plainly EXCEPT !.ca = "unusable"],
     [Plainly EXCEPT !.ca = "usable", !.skip = TRUE],
     [Plainly EXCEPT !.plain = TRUE, !.skip = TRUE],
     [Plainly EXCEPT !.name = FALSE],
     [Plainly EXCEPT !.path = FALSE],
     [Plainly EXCEPT !.platform = "other"],
     [Plainly EXCEPT !.mount = FALSE]}

=============================================================================
