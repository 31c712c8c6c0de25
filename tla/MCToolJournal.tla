--------------------------- MODULE MCToolJournal ---------------------------
(* Small instances of ToolJournal for TLC. *)
EXTENDS ToolJournal

CONSTANT k1

\* Calls that the endpoint gave the same id and arguments.
SameKey == [c \in Calls |-> k1]
=============================================================================
