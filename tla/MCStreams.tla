----------------------------- MODULE MCStreams ------------------------------
(* Instances of Streams for TLC. *)
EXTENDS Streams

CONSTANTS stdout, stderr, log, syslog

(* Both outputs of an application go to syslog. *)
ToSyslog == [c \in Conn |-> syslog]

(* One goes to a file, the other to syslog. *)
ToBoth == [c \in Conn |-> IF c = stdout THEN log ELSE syslog]
=============================================================================
