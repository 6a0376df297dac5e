---------------------------- MODULE MCSystemCalls ----------------------------
(***************************************************************************)
(* A small instance of the systemcalls example for TLC.                    *)
(***************************************************************************)
EXTENDS SystemCalls

\* Paths of up to four characters that end with a letter.
MCPaths == {p \in UNION {[1 .. n -> {"/", "a"}] : n \in 1 .. 4} : Last(p) = "a"}

=============================================================================
