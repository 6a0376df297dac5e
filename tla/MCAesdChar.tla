------------------------------ MODULE MCAesdChar ------------------------------
(***************************************************************************)
(* Small instances of the character driver for TLC.                        *)
(***************************************************************************)
EXTENDS AesdChar

CONSTANT a

\* Pieces of commands: nothing, an unfinished one and the end of one.
MCPayloadsOrNothing == {<<>>, <<a>>, <<NL>>}

\* Whole commands only.
MCCommands == {<<NL>>, <<a, NL>>}

\* An unfinished command and the end of one.
MCNewlines == {<<a>>, <<NL>>}

MCOffsets == {-1}

\* The processes are interchangeable, and so are the addresses.
Symmetric == Permutations(Ptr) \cup Permutations(Proc)

=============================================================================
