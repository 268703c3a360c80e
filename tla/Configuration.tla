--------------------------- MODULE Configuration ----------------------------
(***************************************************************************)
(* What config.rs makes of the entries of one application: its resource    *)
(* limits, its environment, and whether the entry is refused.  The file    *)
(* has been parsed already (nereon, external); what it holds is in         *)
(* HashMaps, whose order is anybody's guess.  limit.rs imposes the limits  *)
(* on the child.                                                           *)
(***************************************************************************)
EXTENDS Integers, Sequences, Functions, SequencesExt

CONSTANTS
  Infinity,  \* Limit::Infinity
  Mega,      \* 1024 * 1024
  Word,      \* 2^64, where multiplication wraps
  LimitName, \* the names of limits
  Var,       \* the names of environment variables
  Val        \* their values, the empty one included

ASSUME ConfigurationAssumption ==
  Infinity \notin Nat /\ Mega \in Nat \ {0} /\ Word \in Nat \ {0}

Resource == {"max_procs", "max_mem", "max_files"}

Within(f, S, T) == DOMAIN f \subseteq S /\ \A x \in DOMAIN f : f[x] \in T

\* Where an output may go; what is given for an address is one, or is nonsense.
Stream ==
  [to : {"file", "syslog"}]
    \cup [to : {"rsyslog"}, server : {"address", "nonsense"}, local : {"none", "address", "nonsense"}]

\* An entry of the file.  lines is what its env_file holds, a line being a name and
\* its value, which is empty when there is none; readable says that there is such a
\* file or that none is asked for.  pass gives variables new names, new gives them
\* values.  streams are where its outputs go.
IsEntry(e) ==
  /\ e.mode \in {"none", "simple", "forking", "oneshot", "other"}
  /\ e.limits \in Seq(LimitName)
  /\ e.readable \in BOOLEAN
  /\ e.lines \in Seq(Var \X Val)
  /\ Within(e.pass, Var, Var) /\ IsFiniteSet(DOMAIN e.pass)
  /\ Within(e.new, Var, Val)
  /\ e.streams \subseteq Stream

-----------------------------------------------------------------------------
(* get_limits() and setlimit().                                            *)

\* Faulty variant: the limit that comes last.
LastOf(x, y) == y

\* The closure min.
LeastOf(x, y) ==
  IF y = Infinity THEN x
  ELSE IF x # Infinity /\ x < y THEN x
  ELSE y

\* Unlike the others, memory is given in units of Mega.
InBytes(k, v) == IF k = "max_mem" THEN v * Mega ELSE v

NoSuchLimits(limits, names) ==
  \E i \in DOMAIN names :
    ~(names[i] \in DOMAIN limits /\ DOMAIN limits[names[i]] \subseteq Resource)

GetLimits(limits, names) ==
  [k \in Resource |->
     FoldLeft(LAMBDA least, name :
                IF k \in DOMAIN limits[name]
                  THEN LeastOf(least, InBytes(k, limits[name][k]) % Word)
                  ELSE least,
              Infinity, names)]

AtMost(x, y) == y = Infinity \/ (x # Infinity /\ x <= y)

\* setrlimit(2) in the child, both limits at once: it fails, and nobody looks,
\* when it would raise what riffol was given itself and riffol lacks the privilege.
SetLimit(given, limit, privileged) ==
  IF privileged \/ AtMost(limit, given) THEN limit ELSE given

-----------------------------------------------------------------------------
(* The environment.                                                        *)

\* HashMap::insert(), of each entry of new.
InsertAll(env, new) ==
  [v \in DOMAIN env \cup DOMAIN new |-> IF v \in DOMAIN new THEN new[v] ELSE env[v]]

Insert(env, v, x) == InsertAll(env, [w \in {v} |-> x])

\* read_env_file(): of the lines for a name the last one counts.
ReadEnvFile(lines) == FoldLeft(LAMBDA env, line : Insert(env, line[1], line[2]), <<>>, lines)

\* Variables of riffol's own environment, under new names, in any order.
Passed(env, pass, own, order) ==
  FoldLeft(LAMBDA e, old : IF old \in DOMAIN own THEN Insert(e, pass[old], own[old]) ELSE e, env, order)

\* Faulty variant: what is new does not override what is passed.
EnvironmentsPassedLast(entry, own) ==
  {Passed(InsertAll(ReadEnvFile(entry.lines), entry.new), entry.pass, own, order)
     : order \in SetToSeqs(DOMAIN entry.pass)}

Environments(entry, own) ==
  {InsertAll(Passed(ReadEnvFile(entry.lines), entry.pass, own, order), entry.new)
     : order \in SetToSeqs(DOMAIN entry.pass)}

-----------------------------------------------------------------------------
\* mk_stream() makes sense of everything but an address that is none.
MkStreamFails(s) == s.to = "rsyslog" /\ "nonsense" \in {s.server, s.local}

\* What makes get_config() give up on an entry: the first of these that it meets.
Refused(entry, limits) ==
  \/ entry.mode = "other"
  \/ NoSuchLimits(limits, entry.limits)
  \/ ~entry.readable
  \/ \E s \in entry.streams : MkStreamFails(s)
=============================================================================
