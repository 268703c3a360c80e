---------------------------- MODULE MCSupervisor ----------------------------
(* Instances of Supervisor for TLC. *)
EXTENDS Supervisor, TLC

Symmetry == Permutations(Pid)

(* The shape of examples/wordpress, with apache in the foreground: a service that
   requires a job (initialise-mysql), which requires a daemon (mysql). *)
WebModes    == <<"Forking", "OneShot", "Simple">>
WebRequires == <<{}, {1}, {2}>>
WebChecks   == <<{"db"}, {}, {"www"}>>

(* A job, a service that requires it, a service that requires that one. *)
PlainModes    == <<"OneShot", "Simple", "Simple">>
PlainRequires == <<{}, {1}, {2}>>
PlainChecks   == <<{}, {"db"}, {"www"}>>

(* A daemon alone. *)
DaemonModes    == <<"Forking">>
DaemonRequires == <<{}>>
DaemonChecks   == <<{"db"}>>

(* A service that requires a service. *)
ServiceModes    == <<"Simple", "Simple">>
ServiceRequires == <<{}, {1}>>
ServiceChecks   == <<{"db"}, {"www"}>>
=============================================================================
