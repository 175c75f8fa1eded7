------------------------------ MODULE MCDaemon ------------------------------
(***************************************************************************)
(* Small instances of Daemon: a stream beside a connection that stops the  *)
(* daemon, and one connection with more events than its queue holds.       *)
(***************************************************************************)
EXTENDS Daemon, TLC

CONSTANTS c1, c2

\* One connection streams while the other ends the daemon.
StreamAndStop == (c1 :> {"stream"}) @@ (c2 :> {"stop"})

\* A connection that may ask for anything.
AnyRequest == [c \in Conn |-> {"query", "stream", "stop"}]
=============================================================================
