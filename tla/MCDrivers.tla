---- MODULE MCDrivers ----
(* Five programs for TLC: a good one, one that does not parse, one the       *)
(* backends reject, one without main, and one whose files fill their pages.  *)
EXTENDS Drivers

MCPrograms == {"good", "garbled", "illegal", "library", "page"}
MCParses == MCPrograms \ {"garbled"}
MCAccepted == MCParses \ {"illegal"}
MCHasMain == MCAccepted \ {"library"}
MCFills == {<<"page", "source">>, <<"good", "tree">>}
====
