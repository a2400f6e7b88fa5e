---------------------------- MODULE MCDispatcher ----------------------------
(* Small instances of Dispatcher: the COMMAND sockets of two applications,  *)
(* the EVENT socket of one, and the DEFAULT socket of the Z-Wave daemon.    *)
EXTENDS Dispatcher, TLC

CONSTANTS zwave, app1, app2, event

MCClientType ==
  [c \in Conns |-> IF c = zwave THEN "DAEMON_ZWAVE" ELSE APPLICATION]

MCSocketType ==
  [c \in Conns |-> CASE c = zwave -> "DEFAULT"
                     [] c = event -> "EVENT"
                     [] OTHER     -> "COMMAND"]

\* The two applications' command sockets are interchangeable.
MCSymmetry == Permutations({app1, app2})
=============================================================================
