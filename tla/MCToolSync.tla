----------------------------- MODULE MCToolSync -----------------------------
(* Small instances of ToolSync. *)
EXTENDS ToolSync

CONSTANTS a, b

\* Two tools; one of them may bear the override name of the other.
MCTools == {a, b}
MCFilters == {{}, {b}}
=============================================================================
