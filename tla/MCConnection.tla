---------------------------- MODULE MCConnection ----------------------------
(***************************************************************************)
(* A small instance of the connection for TLC.                             *)
(***************************************************************************)
EXTENDS Connection

\* "A" stands for the prefix of 19 bytes.
MCPrefix == <<65>>

\* A newline, a comma, a minus sign, two digits, and a letter.  19 is larger than
\* 2^IntBits here, 91 than LONG_MAX.
MCChars == {10, 44, 45, 49, 57, 65}

\* Two commands, "A" and "1".
MCCommands == << <<65, 10>>, <<49, 10>> >>

\* And a byte of a third one.
MCUnfinished == <<57>>

=============================================================================
