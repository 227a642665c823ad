----------------------------- MODULE MCInvocations -----------------------------
(* What is typed and sent in the instance that TLC checks. *)
EXTENDS Invocations

CONSTANT a

\* A word, a command, an empty line, and one that is too long with a colon only.
MCTyped == {<<>>, <<a>>, <<Colon, a>>}

\* A line that is too long, and one that is not finished.
MCFragments == {<<a, a, a, a, NewLine>>, <<a>>}

=============================================================================
