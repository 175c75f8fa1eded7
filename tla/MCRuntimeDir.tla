--------------------------- MODULE MCRuntimeDir ----------------------------
(***************************************************************************)
(* Small instances of RuntimeDir: three invocations of guardctl.           *)
(***************************************************************************)
EXTENDS RuntimeDir
=============================================================================
