------------------------------ MODULE MCPtImg -----------------------------
(* Two runs over a raw image and one of another format.                      *)
EXTENDS PtImg

Option(name, copy, exec, skipMkfs, skipMount, forceNBD) ==
  [name |-> name, copy |-> copy, exec |-> exec, skipMkfs |-> skipMkfs,
   skipMount |-> skipMount, forceNBD |-> forceNBD]
MCOptions ==
  { Option("atx-data", TRUE, FALSE, FALSE, FALSE, FALSE),    \* --copy
    Option("old", TRUE, TRUE, TRUE, FALSE, TRUE),            \* --pt-name --copy --execute --skip-mkfs
    Option("more", FALSE, TRUE, FALSE, TRUE, FALSE),         \* --pt-name --skip-mount --execute
    Option("more", TRUE, FALSE, FALSE, TRUE, FALSE) }        \* refused
\* the image of the other format is there from the start, and only it is shared
MCBound == (\A i \in Images \ Raw : img[i].there) /\ shared \intersect Raw = {}
=============================================================================
