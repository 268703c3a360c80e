------------------------------ MODULE Startup -------------------------------
(***************************************************************************)
(* riffol() (lib.rs) up to the main loop: get_config (config.rs) reads the *)
(* applications out of the file, group by group, then setup_dependencies   *)
(* (DependencySetup) works on what it has read.  All the inits of a file   *)
(* are run, in the order in which a HashMap happens to hold them; an       *)
(* application that is named twice is there twice.  The first reference to *)
(* nothing, or entry that makes no sense, ends it.                         *)
(***************************************************************************)
EXTENDS DependencySetup, Configuration

CONSTANTS
  GroupName,  \* the names of application groups
  InitName,   \* the names of inits
  CheckLine,  \* the lines that stand for health checks
  BadLine,    \* those of them that mk_healthcheck cannot make anything of
  Own,        \* riffol's own environment
  Files       \* the files that are looked at; they name NApps applications or are refused

\* What nereon makes of a file.
IsFile(f) ==
  /\ Within(f.inits, InitName, Seq(GroupName))
  /\ Within(f.groups, GroupName, Seq(Id))
  /\ DOMAIN f.applications \subseteq Id
  /\ \A app \in DOMAIN f.applications :
       IsEntry(f.applications[app]) /\ f.applications[app].requires \subseteq Id
  /\ DOMAIN f.limits \subseteq LimitName
  /\ \A name \in DOMAIN f.limits : Within(f.limits[name], Resource \cup {"other"}, Nat)
  /\ f.checks \subseteq CheckLine

ASSUME StartupAssumption == Id # {} /\ \A f \in Files : IsFile(f)

VARIABLES
  phase,   \* "read", "setup" or "refused"
  file,    \* what the file says
  inits,   \* the inits that have not been gone through
  groups,  \* what is left of the groups of the init that is being gone through
  ids,     \* what is left of the applications of the group
  apps     \* riffol.applications so far

reading == <<inits, groups, ids, apps>>
svars   == <<phase, file, reading, vars>>

StartupInit ==
  /\ Init
  /\ id = [a \in App |-> CHOOSE i \in Id : TRUE] /\ requires = [a \in App |-> {}]
  /\ phase = "read"
  /\ file \in Files
  /\ inits = DOMAIN file.inits
  /\ groups = <<>>
  /\ ids = <<>>
  /\ apps = <<>>

Refuse == phase' = "refused" /\ UNCHANGED <<file, reading, vars>>

ReadInit(name) ==
  /\ phase = "read" /\ groups = <<>> /\ ids = <<>> /\ name \in inits
  /\ inits' = inits \ {name}
  /\ groups' = file.inits[name]
  /\ UNCHANGED <<phase, file, ids, apps, vars>>

\* Faulty variant: what is left of the group before is forgotten.
MayReadNextGroup == groups # <<>>

MayReadGroup == groups # <<>> /\ ids = <<>>

ReadGroup ==
  /\ phase = "read" /\ MayReadGroup
  /\ \/ Head(groups) \notin DOMAIN file.groups /\ Refuse
     \/ /\ Head(groups) \in DOMAIN file.groups
        /\ ids' = file.groups[Head(groups)]
        /\ groups' = Tail(groups)
        /\ UNCHANGED <<phase, file, inits, apps, vars>>

Sound(app) == app \in DOMAIN file.applications /\ ~Refused(file.applications[app], file.limits)

ReadApplication ==
  /\ phase = "read" /\ ids # <<>>
  /\ \/ ~Sound(Head(ids)) /\ Refuse
     \/ /\ Sound(Head(ids))
        /\ LET entry == file.applications[Head(ids)] IN
             \E env \in Environments(entry, Own) :
               apps' = Append(apps, [ id       |-> Head(ids),
                                      requires |-> entry.requires,
                                      limits   |-> GetLimits(file.limits, entry.limits),
                                      env      |-> env ])
        /\ ids' = Tail(ids)
        /\ UNCHANGED <<phase, file, inits, groups, vars>>

AllRead == inits = {} /\ groups = <<>> /\ ids = <<>>

\* Faulty variant: what makes no sense is dropped.
ChecksDropped == FALSE

ChecksRefused == file.checks \cap BadLine # {}

\* The health checks come last; then the threads for signals and checks are started,
\* and Init::run is called with the applications.
ReadChecks ==
  /\ phase = "read" /\ AllRead
  /\ \/ ChecksRefused /\ Refuse
     \/ /\ ~ChecksRefused
        /\ DOMAIN apps = App
        /\ phase' = "setup"
        /\ id' = [a \in App |-> apps[a].id]
        /\ requires' = [a \in App |-> apps[a].requires]
        /\ UNCHANGED <<file, reading, pc, idx, deps, others, depends, rdepends>>

Setup == phase = "setup" /\ Next /\ UNCHANGED <<phase, file, reading>>

Over == phase = "refused" /\ UNCHANGED svars

StartupNext ==
  ReadGroup \/ ReadApplication \/ ReadChecks \/ Setup \/ Over \/ \E name \in inits : ReadInit(name)

StartupSpec == StartupInit /\ [][StartupNext]_svars /\ WF_svars(StartupNext)

-----------------------------------------------------------------------------
\* Where an application is mentioned: in an init, a group that it names, a place there.
Places(app, group) == {j \in DOMAIN file.groups[group] : file.groups[group][j] = app}

Mentions(app) ==
  UNION { UNION { { <<name, i, j>> : j \in Places(app, file.inits[name][i]) }
                  : i \in DOMAIN file.inits[name] }
          : name \in DOMAIN file.inits }

\* A reference to nothing, or something that makes no sense, in what the inits name.
Broken ==
  \/ file.checks \cap BadLine # {}
  \/ \E name \in DOMAIN file.inits : \E i \in DOMAIN file.inits[name] :
       LET group == file.inits[name][i] IN
         \/ group \notin DOMAIN file.groups
         \/ \E j \in DOMAIN file.groups[group] : ~Sound(file.groups[group][j])

\* In whichever order the file is gone through, it is refused if and only if it is
\* broken: no application is run of a file in which something is wrong further on.
RefusedIffBroken ==
  /\ phase = "refused" => Broken
  /\ phase = "setup" => ~Broken

\* In whichever order: once all is read each application is there as often as it is
\* mentioned, be it in one init or in several.
LoadedAsWritten ==
  AllRead => \A app \in Id :
    Cardinality({k \in DOMAIN apps : apps[k].id = app}) = Cardinality(Mentions(app))

\* The values that the file gives a resource of an application.
Stated(app, k) ==
  LET names == file.applications[app].limits IN
    {InBytes(k, file.limits[names[i]][k]) : i \in {n \in DOMAIN names : k \in DOMAIN file.limits[names[n]]}}

\* Of several limits for a resource an application gets the least, and none if there
\* is none; a process of it never has more than any of them, whatever riffol was
\* given itself.  A number of bytes that does not fit into 64 bits is cut down.
LimitsAreLeast ==
  \A n \in DOMAIN apps, k \in Resource :
    LET limit == apps[n].limits[k] stated == Stated(apps[n].id, k) IN
      /\ stated = {} => limit = Infinity
      /\ (\A v \in stated : v < Word) => limit \in stated \cup {Infinity}
      /\ \A v \in stated, given \in stated \cup {0, Infinity}, privileged \in BOOLEAN :
           AtMost(SetLimit(given, limit, privileged), v)

\* A variable has the value that env gives it anew, or else one that env passes, or
\* else that of the last line for it in the env_file; and it has one if any does.
EnvIsLayered ==
  \A n \in DOMAIN apps :
    LET env     == apps[n].env
        entry   == file.applications[apps[n].id]
        passed(v)  == {Own[old] : old \in {o \in DOMAIN entry.pass \cap DOMAIN Own : entry.pass[o] = v}}
        fromFile(v) == {i \in DOMAIN entry.lines : entry.lines[i][1] = v}
    IN \A v \in Var :
         IF v \in DOMAIN entry.new THEN env[v] = entry.new[v]
         ELSE IF passed(v) # {} THEN env[v] \in passed(v)
         ELSE IF fromFile(v) # {} THEN env[v] = entry.lines[Max(fromFile(v))][2]
         ELSE v \notin DOMAIN env

\* Starting up comes to an end: in the refusal of the file or with the dependencies.
StartupEnds == <>(phase = "refused" \/ pc = "done")
=============================================================================
