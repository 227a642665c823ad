---------------------------- MODULE MCPreparedAudio ----------------------------
(* Three texts, one of them with a capital: its lower case is a fourth. *)
EXTENDS PreparedAudio

CONSTANTS Ok, ok, hello, yes

MCLower == [t \in Texts |-> IF t = Ok THEN ok ELSE t]

=============================================================================
