--------------------------- MODULE MemoryOutboxMC ---------------------------
(***************************************************************************)
(* Small instances of MemoryOutbox.                                        *)
(***************************************************************************)
EXTENDS MemoryOutbox, TLC

\* All world events are about one subject, all settlements about another.
ByKind == [s \in Sources |-> IF s \in Events THEN "world" ELSE "party"]
=============================================================================
