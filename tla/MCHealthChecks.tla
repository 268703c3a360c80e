--------------------------- MODULE MCHealthChecks ---------------------------
(* Instances of HealthChecks for TLC. *)
EXTENDS HealthChecks

CONSTANTS db, www, disk

(* A check of a process, one of a connection, and one that is never made. *)
Kinds     == (db :> "proc") @@ (www :> "tcp") @@ (disk :> "df")
Intervals == (db :> 2) @@ (www :> 1) @@ (disk :> 0)
Timeouts  == (db :> 1) @@ (www :> 2) @@ (disk :> 1)
Patiences == (db :> 0) @@ (www :> 2) @@ (disk :> 0)
NoSpace   == [c \in Check |-> 0]

(* One check, whose interval is 0. *)
DiskOnly  == [c \in Check |-> "df"]
EachNone  == [c \in Check |-> 0]
EachOne   == [c \in Check |-> 1]
=============================================================================
