---------------------------- MODULE MCConfigManager ----------------------------
(* Every kind of path that the configuration may be given.                 *)
EXTENDS ConfigManager

AnyPath == {Default, Missing, Torn, Directory}
=============================================================================
