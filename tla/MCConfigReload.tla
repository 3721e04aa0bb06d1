--------------------------- MODULE MCConfigReload ---------------------------
(* ConfigReload with one group that only one of two configurations allows. *)
EXTENDS ConfigReload
=============================================================================
