--------------------------- MODULE MCBackendHealth ---------------------------
(* Small instances of BackendHealth: every bound is given by the .cfg. *)
EXTENDS BackendHealth
=============================================================================
