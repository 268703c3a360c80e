--------------------------- MODULE Startup_proofs ----------------------------
(***************************************************************************)
(* For every configuration file, in whichever order its tables are gone    *)
(* through: it is refused if and only if something is wrong with it; if it *)
(* is not, each application is loaded as often as it is mentioned, with    *)
(* the limits and the environment that the file states, and the            *)
(* dependencies are set up right.                                          *)
(***************************************************************************)
EXTENDS Startup, DependencySetup_proofs, FoldLemmas, SequenceTheorems

\* Nothing of the dependencies has been set up.
Fresh ==
  /\ pc = "close" /\ idx = 1 /\ deps = {1} /\ others = App \ {1}
  /\ depends = [a \in App |-> {}] /\ rdepends = [a \in App |-> {}]

\* What an application can look like that has been read.
Loaded(f) ==
  [ id       : Id,
    requires : SUBSET Id,
    limits   : {GetLimits(f.limits, f.applications[j].limits) : j \in DOMAIN f.applications},
    env      : UNION {Environments(f.applications[j], Own) : j \in DOMAIN f.applications} ]

ReadTypeOK ==
  /\ phase \in {"read", "setup", "refused"}
  /\ file \in Files
  /\ inits \subseteq DOMAIN file.inits
  /\ groups \in Seq(GroupName)
  /\ ids \in Seq(Id)
  /\ apps \in Seq(Loaded(file))
  /\ phase # "setup" => Fresh

-----------------------------------------------------------------------------
(* The dependencies of what has been read.                                 *)

LEMMA FileIsTyped ==
  ASSUME NEW f \in Files
  PROVE  /\ \A name \in DOMAIN f.inits : f.inits[name] \in Seq(GroupName)
         /\ \A name \in DOMAIN f.groups : f.groups[name] \in Seq(Id)
         /\ DOMAIN f.applications \subseteq Id
         /\ \A app \in DOMAIN f.applications : f.applications[app].requires \subseteq Id
BY StartupAssumption DEF IsFile, Within

LEMMA LoadedApplication ==
  ASSUME NEW f, NEW i \in Id, NEW r \in SUBSET Id, NEW j \in DOMAIN f.applications,
         NEW e \in Environments(f.applications[j], Own)
  PROVE  [id |-> i, requires |-> r,
          limits |-> GetLimits(f.limits, f.applications[j].limits), env |-> e] \in Loaded(f)
<1>1. /\ GetLimits(f.limits, f.applications[j].limits)
           \in {GetLimits(f.limits, f.applications[k].limits) : k \in DOMAIN f.applications}
      /\ e \in UNION {Environments(f.applications[k], Own) : k \in DOMAIN f.applications}
  OBVIOUS
<1>2. QED
  BY <1>1 DEF Loaded

LEMMA FreshLoop == Fresh => LoopInvariant
<1> SUFFICES ASSUME Fresh PROVE LoopInvariant
  OBVIOUS
<1>1. \A a \in App : ~(a < idx)
  BY NAppsAssumption DEF Fresh, App
<1>2. QED
  BY <1>1 DEF Fresh, LoopInvariant

LEMMA StartupInits == StartupInit => ReadTypeOK /\ TypeOK /\ LoopInvariant
<1> SUFFICES ASSUME StartupInit PROVE ReadTypeOK /\ TypeOK /\ LoopInvariant
  OBVIOUS
<1>1. TypeOK /\ LoopInvariant
  BY TypeInit, LoopInit DEF StartupInit
<1>2. /\ inits \subseteq DOMAIN file.inits /\ file \in Files /\ phase = "read"
      /\ groups \in Seq(GroupName) /\ ids \in Seq(Id) /\ apps \in Seq(Loaded(file))
  BY DEF StartupInit
<1>3. Fresh
  BY DEF StartupInit, Init, Fresh
<1>4. QED
  BY <1>1, <1>2, <1>3 DEF ReadTypeOK

LEMMA StartupStep ==
  ReadTypeOK /\ TypeOK /\ LoopInvariant /\ [StartupNext]_svars
    => ReadTypeOK' /\ TypeOK' /\ LoopInvariant'
<1> SUFFICES ASSUME ReadTypeOK, TypeOK, LoopInvariant, [StartupNext]_svars
             PROVE  ReadTypeOK' /\ TypeOK' /\ LoopInvariant'
  OBVIOUS
<1>1. ASSUME UNCHANGED vars PROVE TypeOK' /\ LoopInvariant' /\ Fresh' = Fresh
  <2>1. TypeOK'
    BY <1>1, TypeStep
  <2>2. LoopInvariant'
    BY <1>1, <2>1, LoopStep
  <2>3. Fresh' = Fresh
    BY <1>1 DEF Fresh, vars
  <2>4. QED
    BY <2>1, <2>2, <2>3
<1>2. CASE phase = "read" /\ Refuse
  <2>1. phase' = "refused" /\ UNCHANGED <<file, inits, groups, ids, apps>> /\ UNCHANGED vars
    BY <1>2 DEF Refuse, reading
  <2>2. QED
    BY <1>1, <1>2, <2>1 DEF ReadTypeOK
<1>3. ASSUME NEW name \in inits, ReadInit(name) PROVE ReadTypeOK' /\ TypeOK' /\ LoopInvariant'
  <2>1. file.inits[name] \in Seq(GroupName)
    BY FileIsTyped DEF ReadTypeOK
  <2>2. QED
    BY <1>1, <1>3, <2>1 DEF ReadInit, ReadTypeOK
<1>4. CASE ReadGroup
  <2>1. CASE Refuse
    BY <1>2, <1>4, <2>1 DEF ReadGroup
  <2>2. CASE Head(groups) \in DOMAIN file.groups /\ ~Refuse
    <3>1. file.groups[Head(groups)] \in Seq(Id)
      BY <2>2, FileIsTyped DEF ReadTypeOK
    <3>2. Tail(groups) \in Seq(GroupName)
      BY <1>4, HeadTailProperties DEF ReadGroup, MayReadGroup, ReadTypeOK
    <3>3. QED
      BY <1>1, <1>4, <2>2, <3>1, <3>2 DEF ReadGroup, ReadTypeOK
  <2>3. QED
    BY <1>4, <2>1, <2>2 DEF ReadGroup
<1>5. CASE ReadApplication
  <2>1. CASE Refuse
    BY <1>2, <1>5, <2>1 DEF ReadApplication
  <2>2. CASE Sound(Head(ids)) /\ ~Refuse
    <3>1. Head(ids) \in Id /\ Tail(ids) \in Seq(Id) /\ Head(ids) \in DOMAIN file.applications
      BY <1>5, <2>2, HeadTailProperties DEF ReadApplication, ReadTypeOK, Sound
    <3>2. PICK env \in Environments(file.applications[Head(ids)], Own) :
            apps' = Append(apps, [ id       |-> Head(ids),
                                   requires |-> file.applications[Head(ids)].requires,
                                   limits   |-> GetLimits(file.limits, file.applications[Head(ids)].limits),
                                   env      |-> env ])
      BY <1>5, <2>2 DEF ReadApplication
    <3>3. file.applications[Head(ids)].requires \subseteq Id
      BY <3>1, FileIsTyped DEF ReadTypeOK
    <3>4. [ id       |-> Head(ids),
            requires |-> file.applications[Head(ids)].requires,
            limits   |-> GetLimits(file.limits, file.applications[Head(ids)].limits),
            env      |-> env ] \in Loaded(file)
      BY <3>1, <3>3, LoadedApplication
    <3>5. apps' \in Seq(Loaded(file))
      BY <3>2, <3>4, AppendProperties DEF ReadTypeOK
    <3>6. QED
      BY <1>1, <1>5, <2>2, <3>1, <3>5 DEF ReadApplication, ReadTypeOK
  <2>3. QED
    BY <1>5, <2>1, <2>2 DEF ReadApplication
<1>6. CASE ReadChecks
  <2>1. CASE Refuse
    BY <1>2, <1>6, <2>1 DEF ReadChecks
  <2>2. CASE ~Refuse
    <3>1. /\ phase = "read" /\ phase' = "setup" /\ DOMAIN apps = App
          /\ id' = [a \in App |-> apps[a].id] /\ requires' = [a \in App |-> apps[a].requires]
          /\ UNCHANGED <<file, reading, pc, idx, deps, others, depends, rdepends>>
      BY <1>6, <2>2 DEF ReadChecks
    <3>2. ASSUME NEW a \in App PROVE apps[a].id \in Id /\ apps[a].requires \subseteq Id
      <4>1. apps[a] \in Loaded(file)
        BY <3>1, ElementOfSeq, LenProperties DEF ReadTypeOK
      <4>2. QED
        BY <4>1 DEF Loaded
    <3>3. TypeOK'
      BY <3>1, <3>2 DEF TypeOK
    <3>4. Fresh /\ Fresh'
      BY <3>1 DEF ReadTypeOK, Fresh
    <3>5. \A a \in App : ~(a < idx')
      BY <3>4, NAppsAssumption DEF Fresh, App
    <3>6. LoopInvariant'
      BY <3>4, <3>5 DEF Fresh, LoopInvariant
    <3>7. QED
      BY <3>1, <3>3, <3>6 DEF ReadTypeOK, reading
  <2>3. QED
    BY <2>1, <2>2
<1>7. CASE Setup
  <2>1. TypeOK'
    BY <1>7, TypeStep DEF Setup
  <2>2. LoopInvariant'
    BY <1>7, <2>1, LoopStep DEF Setup
  <2>3. QED
    BY <1>7, <2>1, <2>2 DEF Setup, reading, ReadTypeOK
<1>8. CASE UNCHANGED svars
  BY <1>1, <1>8 DEF svars, reading, ReadTypeOK
<1>9. QED
  BY <1>3, <1>4, <1>5, <1>6, <1>7, <1>8 DEF StartupNext, Over

\* Type correctness, from the file to the lists.
THEOREM StartupTypeCorrect == StartupSpec => [](ReadTypeOK /\ TypeOK)
BY StartupInits, StartupStep, PTL DEF StartupSpec

\* The loop of setup_dependencies does its work on whatever has been read.
THEOREM StartupLoopCorrect == StartupSpec => []LoopInvariant
BY StartupInits, StartupStep, PTL DEF StartupSpec

\* riffol() enters its main loop with the closure of the requirements that the file
\* states, whatever it states.
THEOREM StartupSetupCorrect == StartupSpec => []SetupIsRight
<1>1. LoopInvariant => SetupIsRight
  BY DEF LoopInvariant, SetupIsRight
<1>2. QED
  BY <1>1, StartupLoopCorrect, PTL

-----------------------------------------------------------------------------
(* What is refused.                                                        *)

Asked(group) == \E name \in DOMAIN file.inits : \E i \in DOMAIN file.inits[name] : file.inits[name][i] = group

\* A group whose applications have been read, or are about to be.
Handled(group) ==
  /\ group \in DOMAIN file.groups
  /\ \A j \in DOMAIN file.groups[group] :
       Sound(file.groups[group][j]) \/ \E k \in DOMAIN ids : ids[k] = file.groups[group][j]

\* All that is to be read is in the file, and nothing in it has been passed over.
Faithful ==
  /\ \A k \in DOMAIN groups : Asked(groups[k])
  /\ \A k \in DOMAIN ids : \E group \in DOMAIN file.groups :
       Asked(group) /\ \E j \in DOMAIN file.groups[group] : file.groups[group][j] = ids[k]
  /\ \A name \in DOMAIN file.inits \ inits : \A i \in DOMAIN file.inits[name] :
       \/ \E k \in DOMAIN groups : groups[k] = file.inits[name][i]
       \/ Handled(file.inits[name][i])

LEMMA HeadAndTail ==
  ASSUME NEW S, NEW s \in Seq(S), s # <<>>
  PROVE  /\ 1 \in DOMAIN s /\ s[1] = Head(s)
         /\ \A k \in DOMAIN s : s[k] = Head(s) \/ \E j \in DOMAIN Tail(s) : Tail(s)[j] = s[k]
         /\ \A j \in DOMAIN Tail(s) : \E k \in DOMAIN s : s[k] = Tail(s)[j]
<1>1. /\ Len(s) \in Nat \ {0} /\ DOMAIN s = 1 .. Len(s) /\ s[1] = Head(s)
      /\ DOMAIN Tail(s) = 1 .. Len(s) - 1
      /\ \A j \in 1 .. Len(s) - 1 : Tail(s)[j] = s[j + 1]
  BY HeadTailProperties, LenProperties
<1>2. ASSUME NEW k \in DOMAIN s, k # 1 PROVE k - 1 \in DOMAIN Tail(s) /\ Tail(s)[k - 1] = s[k]
  BY <1>1, <1>2
<1>3. ASSUME NEW j \in DOMAIN Tail(s) PROVE j + 1 \in DOMAIN s /\ s[j + 1] = Tail(s)[j]
  BY <1>1
<1>4. \A k \in DOMAIN s : s[k] = Head(s) \/ \E j \in DOMAIN Tail(s) : Tail(s)[j] = s[k]
  BY <1>1, <1>2
<1>5. \A j \in DOMAIN Tail(s) : \E k \in DOMAIN s : s[k] = Tail(s)[j]
  BY <1>3
<1>6. 1 \in DOMAIN s
  BY <1>1
<1>7. QED
  BY <1>1, <1>4, <1>5, <1>6

LEMMA SameFile ==
  ASSUME file' = file
  PROVE  /\ \A app : Sound(app)' <=> Sound(app)
         /\ \A group : Asked(group)' <=> Asked(group)
         /\ Broken' <=> Broken
BY DEF Sound, Asked, Broken

LEMMA AskedBroken ==
  ASSUME NEW group, Asked(group),
         \/ group \notin DOMAIN file.groups
         \/ \E j \in DOMAIN file.groups[group] : ~Sound(file.groups[group][j])
  PROVE  Broken
BY DEF Asked, Broken

LEMMA FaithfulStep ==
  ReadTypeOK /\ Faithful /\ RefusedIffBroken /\ [StartupNext]_svars
    => Faithful' /\ RefusedIffBroken'
<1> SUFFICES ASSUME ReadTypeOK, Faithful, RefusedIffBroken, [StartupNext]_svars
             PROVE  Faithful' /\ RefusedIffBroken'
  OBVIOUS
<1>1. file' = file
  BY DEF StartupNext, ReadInit, ReadGroup, ReadApplication, ReadChecks, Setup, Over, Refuse, svars, reading
<1>2. ASSUME UNCHANGED reading PROVE Faithful'
  BY <1>1, <1>2, SameFile DEF Faithful, Handled, reading
<1>3. ASSUME UNCHANGED phase PROVE RefusedIffBroken'
  BY <1>1, <1>3, SameFile DEF RefusedIffBroken
<1>4. ASSUME Refuse, Broken PROVE Faithful' /\ RefusedIffBroken'
  BY <1>1, <1>2, <1>4, SameFile DEF Refuse, RefusedIffBroken
<1>5. ASSUME NEW name \in inits, ReadInit(name) PROVE Faithful' /\ RefusedIffBroken'
  <2>1. /\ groups = <<>> /\ ids' = ids /\ inits' = inits \ {name} /\ groups' = file.inits[name]
        /\ phase' = phase /\ name \in DOMAIN file.inits
    BY <1>5 DEF ReadInit, ReadTypeOK
  <2>2. \A group : Handled(group) => Handled(group)'
    BY <1>1, <2>1, SameFile DEF Handled
  <2>3. \A k \in DOMAIN groups' : Asked(groups'[k])
    BY <2>1 DEF Asked
  <2>4. ASSUME NEW other \in DOMAIN file.inits \ inits', NEW i \in DOMAIN file.inits[other]
        PROVE  \E group : /\ group = file.inits[other][i]
                          /\ \/ \E k \in DOMAIN groups' : groups'[k] = group
                             \/ Handled(group)'
    <3>1. CASE other = name
      BY <2>1, <3>1
    <3>2. CASE other # name
      BY <2>1, <2>2, <2>4, <3>2 DEF Faithful
    <3>3. QED
      BY <3>1, <3>2
  <2>5. Faithful'
    BY <1>1, <2>1, <2>3, <2>4, SameFile DEF Faithful
  <2>6. QED
    BY <1>3, <2>1, <2>5
<1>6. CASE ReadGroup
  <2>1. groups # <<>> /\ ids = <<>> /\ groups \in Seq(GroupName)
    BY <1>6 DEF ReadGroup, MayReadGroup, ReadTypeOK
  <2>2. Asked(Head(groups))
    BY <2>1, HeadAndTail DEF Faithful
  <2>3. CASE Head(groups) \notin DOMAIN file.groups
    <3>1. Refuse
      BY <1>6, <2>3 DEF ReadGroup
    <3>2. QED
      BY <1>4, <2>2, <2>3, <3>1, AskedBroken
  <2>4. CASE Head(groups) \in DOMAIN file.groups
    <3>1. ids' = file.groups[Head(groups)] /\ groups' = Tail(groups) /\ inits' = inits /\ phase' = phase
      BY <1>6, <2>4 DEF ReadGroup
    <3>2. \A k \in DOMAIN groups' : Asked(groups'[k])
      BY <2>1, <3>1, HeadAndTail DEF Faithful
    <3>3. \A k \in DOMAIN ids' : \E group \in DOMAIN file.groups :
            Asked(group) /\ \E j \in DOMAIN file.groups[group] : file.groups[group][j] = ids'[k]
      BY <2>2, <2>4, <3>1
    <3>4. ASSUME NEW group, group = Head(groups) PROVE Handled(group)'
      BY <1>1, <2>4, <3>1, <3>4, SameFile DEF Handled
    <3>5. \A group : Handled(group) => Handled(group)'
      BY <1>1, <2>1, SameFile DEF Handled
    <3>6. ASSUME NEW name \in DOMAIN file.inits \ inits, NEW i \in DOMAIN file.inits[name]
          PROVE  \E group : /\ group = file.inits[name][i]
                            /\ \/ \E k \in DOMAIN groups' : groups'[k] = group
                               \/ Handled(group)'
      <4>1. CASE Handled(file.inits[name][i])
        BY <3>5, <4>1
      <4>2. CASE \E k \in DOMAIN groups : groups[k] = file.inits[name][i]
        BY <2>1, <3>1, <3>4, <4>2, HeadAndTail
      <4>3. QED
        BY <4>1, <4>2 DEF Faithful
    <3>7. Faithful'
      BY <1>1, <3>1, <3>2, <3>3, <3>6, SameFile DEF Faithful
    <3>8. QED
      BY <1>3, <3>1, <3>7
  <2>5. QED
    BY <2>3, <2>4
<1>7. CASE ReadApplication
  <2>1. ids # <<>> /\ ids \in Seq(Id)
    BY <1>7 DEF ReadApplication, ReadTypeOK
  <2>2. CASE ~Sound(Head(ids))
    <3>0. Refuse
      BY <1>7, <2>2 DEF ReadApplication
    <3>1. PICK group \in DOMAIN file.groups :
            Asked(group) /\ \E j \in DOMAIN file.groups[group] : file.groups[group][j] = Head(ids)
      BY <2>1, HeadAndTail DEF Faithful
    <3>2. Broken
      BY <2>2, <3>1, AskedBroken
    <3>3. QED
      BY <1>4, <3>0, <3>2
  <2>3. CASE Sound(Head(ids))
    <3>1. ids' = Tail(ids) /\ groups' = groups /\ inits' = inits /\ phase' = phase
      BY <1>7, <2>3 DEF ReadApplication
    <3>2. \A k \in DOMAIN ids' : \E j \in DOMAIN ids : ids[j] = ids'[k]
      BY <2>1, <3>1, HeadAndTail
    <3>3. \A k \in DOMAIN ids : Sound(ids[k]) \/ \E j \in DOMAIN ids' : ids'[j] = ids[k]
      BY <2>1, <2>3, <3>1, HeadAndTail
    <3>4. \A group : Handled(group) => Handled(group)'
      BY <1>1, <3>3, SameFile DEF Handled
    <3>5. \A k \in DOMAIN ids' : \E group \in DOMAIN file.groups :
            Asked(group) /\ \E j \in DOMAIN file.groups[group] : file.groups[group][j] = ids'[k]
      BY <3>2 DEF Faithful
    <3>6. Faithful'
      BY <1>1, <3>1, <3>4, <3>5, SameFile DEF Faithful
    <3>7. QED
      BY <1>3, <3>1, <3>6
  <2>4. QED
    BY <2>2, <2>3
<1>8. CASE ReadChecks
  <2>1. CASE ChecksRefused
    <3>1. Refuse /\ Broken
      BY <1>8, <2>1 DEF ReadChecks, ChecksRefused, Broken
    <3>2. QED
      BY <1>4, <3>1
  <2>2. CASE ~ChecksRefused
    <3>1. phase' = "setup" /\ UNCHANGED reading /\ inits = {} /\ groups = <<>> /\ ids = <<>>
      BY <1>8, <2>2 DEF ReadChecks, AllRead
    <3>2. \A name \in DOMAIN file.inits : \A i \in DOMAIN file.inits[name] :
            /\ file.inits[name][i] \in DOMAIN file.groups
            /\ \A j \in DOMAIN file.groups[file.inits[name][i]] : Sound(file.groups[file.inits[name][i]][j])
      BY <3>1 DEF Faithful, Handled
    <3>3. ~Broken
      BY <2>2, <3>2 DEF Broken, ChecksRefused
    <3>4. QED
      BY <1>1, <1>2, <3>1, <3>3, SameFile DEF RefusedIffBroken
  <2>3. QED
    BY <2>1, <2>2
<1>9. CASE UNCHANGED <<phase, reading>>
  BY <1>2, <1>3, <1>9
<1>10. QED
  BY <1>5, <1>6, <1>7, <1>8, <1>9 DEF StartupNext, Setup, Over, svars

\* get_config refuses a file if and only if something in it does not make sense, in
\* whichever order it goes through the tables.
THEOREM RefusalCorrect == StartupSpec => []RefusedIffBroken
<1>1. StartupInit => Faithful /\ RefusedIffBroken
  BY DEF StartupInit, Faithful, RefusedIffBroken
<1>2. QED
  BY <1>1, FaithfulStep, StartupTypeCorrect, PTL DEF StartupSpec

-----------------------------------------------------------------------------
(* What is loaded.                                                         *)

\* t is what is left of s when the first n elements are gone.
Rest(s, n, t) ==
  /\ n \in 0 .. Len(s)
  /\ Len(t) = Len(s) - n
  /\ \A k \in 1 .. Len(t) : t[k] = s[n + k]

\* Of an init the first i groups have been taken, and of the last of them the first
\* j applications.
At(gs, is, name, i, j) ==
  LET init == file.inits[name] IN
    /\ Rest(init, i, gs)
    /\ \/ i = 0 /\ j = 0 /\ is = <<>>
       \/ i > 0 /\ init[i] \in DOMAIN file.groups /\ Rest(file.groups[init[i]], j, is)

\* What is mentioned up to there, and in the inits that were gone through before.
Upto(app, rest, name, i, j) ==
  {m \in Mentions(app) :
     m[1] \notin rest /\ (m[1] = name => m[2] < i \/ (m[2] = i /\ m[3] <= j))}

Count(as, app) == {k \in DOMAIN as : as[k].id = app}

AsMany(S, T) == IsFiniteSet(S) /\ Cardinality(S) = Cardinality(T)

\* So far each application is there as often as it was mentioned.
Counted ==
  \/ inits = DOMAIN file.inits /\ groups = <<>> /\ ids = <<>> /\ apps = <<>>
  \/ \E name \in DOMAIN file.inits \ inits : \E i, j \in Nat :
       /\ At(groups, ids, name, i, j)
       /\ \A app \in Id : AsMany(Upto(app, inits, name, i, j), Count(apps, app))

LEMMA RestLemma ==
  ASSUME NEW S, NEW s \in Seq(S)
  PROVE  /\ Rest(s, 0, s)
         /\ \A n : Rest(s, n, <<>>) => n = Len(s)
         /\ \A n, t : Rest(s, n, t) /\ t \in Seq(S) /\ t # <<>> =>
              /\ n \in Nat /\ n + 1 \in DOMAIN s /\ Head(t) = s[n + 1]
              /\ Rest(s, n + 1, Tail(t))
<1>1. Len(s) \in Nat /\ DOMAIN s = 1 .. Len(s) /\ Len(<<>>) = 0
  BY LenProperties
<1>2. Rest(s, 0, s)
  BY <1>1 DEF Rest
<1>3. ASSUME NEW n, Rest(s, n, <<>>) PROVE n = Len(s)
  <2>1. n \in 0 .. Len(s) /\ Len(<<>>) = Len(s) - n
    BY <1>3 DEF Rest
  <2>2. Len(s) \in Nat /\ n \in 0 .. Len(s) /\ 0 = Len(s) - n
    BY <1>1, <2>1
  <2>3. QED
    BY <2>2
<1>4. ASSUME NEW n, NEW t \in Seq(S), Rest(s, n, t), t # <<>>
      PROVE  /\ n \in Nat /\ n + 1 \in DOMAIN s /\ Head(t) = s[n + 1]
             /\ Rest(s, n + 1, Tail(t))
  <2>1. /\ Len(t) \in Nat \ {0} /\ t[1] = Head(t) /\ Len(Tail(t)) = Len(t) - 1
        /\ \A k \in 1 .. Len(t) - 1 : Tail(t)[k] = t[k + 1]
    BY <1>4, HeadTailProperties, EmptySeq
  <2>2. n \in 0 .. Len(s) /\ Len(t) = Len(s) - n /\ \A k \in 1 .. Len(t) : t[k] = s[n + k]
    BY <1>4 DEF Rest
  <2>3. ASSUME NEW k \in 1 .. Len(t) - 1 PROVE Tail(t)[k] = s[n + 1 + k]
    <3>1. k + 1 \in 1 .. Len(t) /\ n + (k + 1) = n + 1 + k
      BY <2>1, <2>2
    <3>2. QED
      BY <2>1, <2>2, <3>1
  <2>4. n + 1 \in 0 .. Len(s) /\ Len(Tail(t)) = Len(s) - (n + 1)
    <3>1. /\ Len(s) \in Nat /\ Len(t) \in Nat \ {0} /\ n \in 0 .. Len(s)
          /\ Len(t) = Len(s) - n /\ Len(Tail(t)) = Len(t) - 1
      BY <1>1, <2>1, <2>2
    <3>2. QED
      BY <3>1
  <2>5. Rest(s, n + 1, Tail(t))
    BY <2>1, <2>3, <2>4 DEF Rest
  <2>6. QED
    BY <1>1, <2>1, <2>2, <2>5
<1>5. QED
  BY <1>2, <1>3, <1>4

LEMMA RestTail ==
  ASSUME NEW S, NEW s \in Seq(S), NEW n, NEW t \in Seq(S), Rest(s, n, t), t # <<>>
  PROVE  /\ n + 1 \in DOMAIN s /\ Head(t) = s[n + 1]
         /\ Rest(s, n + 1, Tail(t))
BY RestLemma

LEMMA CountAppend ==
  ASSUME NEW T, NEW s \in Seq(T), NEW r \in T, NEW app
  PROVE  /\ IsFiniteSet(Count(s, app)) /\ Len(s) + 1 \notin Count(s, app)
         /\ Count(Append(s, r), app) =
              IF r.id = app THEN Count(s, app) \cup {Len(s) + 1} ELSE Count(s, app)
<1>1. /\ Len(s) \in Nat /\ DOMAIN s = 1 .. Len(s)
      /\ DOMAIN Append(s, r) = 1 .. Len(s) + 1
      /\ \A k \in 1 .. Len(s) : Append(s, r)[k] = s[k]
      /\ Append(s, r)[Len(s) + 1] = r
  BY AppendProperties, LenProperties
<1>2. IsFiniteSet(Count(s, app))
  <2>1. IsFiniteSet(1 .. Len(s))
    BY <1>1, FS_Interval
  <2>2. QED
    BY <1>1, <2>1, FS_Subset DEF Count
<1>3. QED
  BY <1>1, <1>2 DEF Count

LEMMA MentionsMember ==
  ASSUME NEW app, NEW m
  PROVE  m \in Mentions(app) <=>
           \E name \in DOMAIN file.inits : \E i \in DOMAIN file.inits[name] :
             \E j \in Places(app, file.inits[name][i]) : m = <<name, i, j>>
BY DEF Mentions

\* What is mentioned up to a place, one by one.
LEMMA UptoMember ==
  ASSUME NEW app, NEW rest, NEW name, NEW i, NEW j, NEW m
  PROVE  m \in Upto(app, rest, name, i, j) <=>
           \E n \in DOMAIN file.inits \ rest : \E g \in DOMAIN file.inits[n] :
             \E k \in Places(app, file.inits[n][g]) :
               m = <<n, g, k>> /\ (n = name => g < i \/ (g = i /\ k <= j))
<1>1. ASSUME m \in Upto(app, rest, name, i, j)
      PROVE  \E n \in DOMAIN file.inits \ rest : \E g \in DOMAIN file.inits[n] :
               \E k \in Places(app, file.inits[n][g]) :
                 m = <<n, g, k>> /\ (n = name => g < i \/ (g = i /\ k <= j))
  <2>1. m \in Mentions(app) /\ m[1] \notin rest /\ (m[1] = name => m[2] < i \/ (m[2] = i /\ m[3] <= j))
    BY <1>1 DEF Upto
  <2>2. PICK n \in DOMAIN file.inits : \E g \in DOMAIN file.inits[n] :
          \E k \in Places(app, file.inits[n][g]) : m = <<n, g, k>>
    BY <2>1, MentionsMember
  <2>3. PICK g \in DOMAIN file.inits[n] : \E k \in Places(app, file.inits[n][g]) : m = <<n, g, k>>
    BY <2>2
  <2>4. PICK k \in Places(app, file.inits[n][g]) : m = <<n, g, k>>
    BY <2>3
  <2>5. m[1] = n /\ m[2] = g /\ m[3] = k
    BY <2>4
  <2>6. QED
    BY <2>1, <2>4, <2>5
<1>2. ASSUME NEW n \in DOMAIN file.inits \ rest, NEW g \in DOMAIN file.inits[n],
             NEW k \in Places(app, file.inits[n][g]),
             m = <<n, g, k>>, n = name => g < i \/ (g = i /\ k <= j)
      PROVE  m \in Upto(app, rest, name, i, j)
  <2>1. m \in Mentions(app)
    BY <1>2, MentionsMember
  <2>2. m[1] = n /\ m[2] = g /\ m[3] = k
    BY <1>2
  <2>3. QED
    BY <1>2, <2>1, <2>2 DEF Upto
<1>3. QED
  BY <1>1, <1>2

\* At the end of an init nothing of it is left to be counted.
LEMMA CountedAtEnd ==
  ASSUME ReadTypeOK, Counted, groups = <<>>, ids = <<>>, NEW app \in Id
  PROVE  AsMany({m \in Mentions(app) : m[1] \notin inits}, Count(apps, app))
<1> DEFINE M == {m \in Mentions(app) : m[1] \notin inits}
<1>1. CASE inits = DOMAIN file.inits /\ apps = <<>>
  <2>1. M = {}
    <3>1. \A m \in Mentions(app) : m[1] \in DOMAIN file.inits
      BY MentionsMember
    <3>2. QED
      BY <1>1, <3>1
  <2>2. Count(apps, app) = {}
    BY <1>1 DEF Count
  <2>3. QED
    BY <2>1, <2>2, FS_EmptySet DEF AsMany
<1>2. ASSUME NEW name \in DOMAIN file.inits \ inits, NEW i \in Nat, NEW j \in Nat,
             At(groups, ids, name, i, j),
             AsMany(Upto(app, inits, name, i, j), Count(apps, app))
      PROVE  AsMany(M, Count(apps, app))
  <2>1. /\ file.inits[name] \in Seq(GroupName)
        /\ \A group \in DOMAIN file.groups : file.groups[group] \in Seq(Id)
    BY FileIsTyped DEF ReadTypeOK
  <2>2. Rest(file.inits[name], i, <<>>) /\ i = Len(file.inits[name])
    BY <1>2, <2>1, RestLemma DEF At
  <2>3. ASSUME NEW g \in DOMAIN file.inits[name], NEW k \in Places(app, file.inits[name][g])
        PROVE  g < i \/ (g = i /\ k <= j)
    <3>1. g \in 1 .. i
      BY <2>1, <2>2, LenProperties
    <3>2. CASE g = i
      <4>1. i > 0 /\ file.inits[name][i] \in DOMAIN file.groups /\ Rest(file.groups[file.inits[name][i]], j, <<>>)
        BY <1>2, <3>1, <3>2 DEF At
      <4>2. j = Len(file.groups[file.inits[name][i]])
        BY <2>1, <4>1, RestLemma
      <4>3. k \in 1 .. j
        BY <2>1, <3>2, <4>1, <4>2, LenProperties DEF Places
      <4>4. QED
        BY <3>2, <4>3
    <3>3. QED
      BY <3>1, <3>2
  <2>4. M = Upto(app, inits, name, i, j)
    <3>1. \A m \in Upto(app, inits, name, i, j) : m \in M
      BY DEF Upto
    <3>2. ASSUME NEW m \in M PROVE m \in Upto(app, inits, name, i, j)
      <4>1. PICK n \in DOMAIN file.inits : \E g \in DOMAIN file.inits[n] :
              \E k \in Places(app, file.inits[n][g]) : m = <<n, g, k>>
        BY MentionsMember
      <4>2. PICK g \in DOMAIN file.inits[n] : \E k \in Places(app, file.inits[n][g]) : m = <<n, g, k>>
        BY <4>1
      <4>3. PICK k \in Places(app, file.inits[n][g]) : m = <<n, g, k>>
        BY <4>2
      <4>4. m[1] = n /\ n \notin inits
        BY <4>3
      <4>5. QED
        <5>1. n = name => g < i \/ (g = i /\ k <= j)
          BY <2>3
        <5>2. n \in DOMAIN file.inits \ inits
          BY <4>4
        <5>3. QED
          BY <4>3, <5>1, <5>2, UptoMember
    <3>3. QED
      BY <3>1, <3>2
  <2>5. QED
    BY <1>2, <2>4
<1>3. QED
  BY <1>1, <1>2 DEF Counted
\* Beginning an init mentions nothing more.
LEMMA UptoNextInit ==
  ASSUME ReadTypeOK, NEW app \in Id, NEW name \in inits
  PROVE  Upto(app, inits \ {name}, name, 0, 0) = {m \in Mentions(app) : m[1] \notin inits}
<1> DEFINE M == {m \in Mentions(app) : m[1] \notin inits}
           U == Upto(app, inits \ {name}, name, 0, 0)
<1>1. ASSUME NEW m \in U PROVE m \in M
  <2>1. m \in Mentions(app) /\ m[1] \notin inits \ {name} /\ (m[1] = name => m[2] < 0 \/ m[2] = 0)
    BY DEF Upto
  <2>2. PICK n \in DOMAIN file.inits : \E g \in DOMAIN file.inits[n] :
          \E k \in Places(app, file.inits[n][g]) : m = <<n, g, k>>
    BY <2>1, MentionsMember
  <2>3. PICK g \in DOMAIN file.inits[n] : \E k \in Places(app, file.inits[n][g]) : m = <<n, g, k>>
    BY <2>2
  <2>4. m[1] = n /\ m[2] = g
    BY <2>3
  <2>5. g \in Nat \ {0}
    <3>1. file.inits[n] \in Seq(GroupName)
      BY FileIsTyped DEF ReadTypeOK
    <3>2. QED
      BY <3>1, LenProperties
  <2>6. m[1] # name
    BY <2>1, <2>4, <2>5
  <2>7. QED
    BY <2>1, <2>6
<1>2. ASSUME NEW m \in M PROVE m \in U
  BY DEF Upto
<1>3. QED
  BY <1>1, <1>2

\* Nor does taking a group, when all of the one before has been read.
LEMMA UptoNextGroup ==
  ASSUME ReadTypeOK, NEW app \in Id, NEW name \in DOMAIN file.inits, NEW i \in Nat, NEW j \in Nat,
         i > 0 => file.inits[name][i] \in DOMAIN file.groups /\ j = Len(file.groups[file.inits[name][i]]),
         i + 1 \in DOMAIN file.inits[name], file.inits[name][i + 1] \in DOMAIN file.groups
  PROVE  Upto(app, inits, name, i + 1, 0) = Upto(app, inits, name, i, j)
<1>1. /\ file.inits[name] \in Seq(GroupName)
      /\ \A group \in DOMAIN file.groups : file.groups[group] \in Seq(Id)
  BY FileIsTyped DEF ReadTypeOK
<1>2. ASSUME NEW g \in DOMAIN file.inits[name], NEW k \in Places(app, file.inits[name][g])
      PROVE  (g < i + 1 \/ (g = i + 1 /\ k <= 0)) <=> (g < i \/ (g = i /\ k <= j))
  <2>1. g \in Nat \ {0}
    BY <1>1, LenProperties
  <2>2. CASE g = i
    <3>1. k \in 1 .. j
      BY <1>1, <2>1, <2>2, LenProperties DEF Places
    <3>2. QED
      BY <2>2, <3>1
  <2>3. CASE g = i + 1
    <3>1. k \in Nat \ {0}
      BY <1>1, <2>3, LenProperties DEF Places
    <3>2. QED
      BY <2>3, <3>1
  <2>4. CASE g # i /\ g # i + 1
    BY <2>1, <2>4
  <2>5. QED
    BY <2>2, <2>3, <2>4
<1>3. \A m : m \in Upto(app, inits, name, i + 1, 0) <=> m \in Upto(app, inits, name, i, j)
  BY <1>2, UptoMember
<1>4. Upto(app, inits, name, i + 1, 0) \subseteq Upto(app, inits, name, i, j)
  BY <1>3
<1>5. QED
  BY <1>3, <1>4

\* Reading an application goes past the place that mentions it.
LEMMA UptoNextApplication ==
  ASSUME ReadTypeOK, NEW app \in Id, NEW name \in DOMAIN file.inits \ inits,
         NEW i \in DOMAIN file.inits[name], NEW j \in Nat,
         file.inits[name][i] \in DOMAIN file.groups,
         j + 1 \in DOMAIN file.groups[file.inits[name][i]]
  PROVE  /\ <<name, i, j + 1>> \notin Upto(app, inits, name, i, j)
         /\ file.groups[file.inits[name][i]][j + 1] = app =>
              Upto(app, inits, name, i, j + 1) = Upto(app, inits, name, i, j) \cup {<<name, i, j + 1>>}
         /\ file.groups[file.inits[name][i]][j + 1] # app =>
              Upto(app, inits, name, i, j + 1) = Upto(app, inits, name, i, j)
<1> DEFINE group == file.groups[file.inits[name][i]]
           old == Upto(app, inits, name, i, j)
           new == Upto(app, inits, name, i, j + 1)
<1>1. file.inits[name] \in Seq(GroupName) /\ group \in Seq(Id) /\ i \in Nat
  <2>1. file.inits[name] \in Seq(GroupName) /\ group \in Seq(Id)
    BY FileIsTyped DEF ReadTypeOK
  <2>2. QED
    BY <2>1, LenProperties
<1>2. <<name, i, j + 1>> \notin old
  <2>1. ASSUME <<name, i, j + 1>> \in old PROVE FALSE
    <3>1. i < i \/ (i = i /\ j + 1 <= j)
      BY <2>1 DEF Upto
    <3>2. QED
      BY <1>1, <3>1
  <2>2. QED
    BY <2>1
<1>3. ASSUME NEW m \in old PROVE m \in new
  <2>1. PICK n \in DOMAIN file.inits \ inits : \E g \in DOMAIN file.inits[n] :
          \E k \in Places(app, file.inits[n][g]) :
            m = <<n, g, k>> /\ (n = name => g < i \/ (g = i /\ k <= j))
    BY UptoMember
  <2>2. PICK g \in DOMAIN file.inits[n] : \E k \in Places(app, file.inits[n][g]) :
          m = <<n, g, k>> /\ (n = name => g < i \/ (g = i /\ k <= j))
    BY <2>1
  <2>3. PICK k \in Places(app, file.inits[n][g]) :
          m = <<n, g, k>> /\ (n = name => g < i \/ (g = i /\ k <= j))
    BY <2>2
  <2>4. n = name => g < i \/ (g = i /\ k <= j + 1)
    <3>1. ASSUME n = name, g = i PROVE k \in Nat
      BY <1>1, <3>1, LenProperties DEF Places
    <3>2. QED
      BY <2>3, <3>1
  <2>5. QED
    BY <2>3, <2>4, UptoMember
<1>4. ASSUME NEW m \in new PROVE m \in old \/ (m = <<name, i, j + 1>> /\ group[j + 1] = app)
  <2>1. PICK n \in DOMAIN file.inits \ inits : \E g \in DOMAIN file.inits[n] :
          \E k \in Places(app, file.inits[n][g]) :
            m = <<n, g, k>> /\ (n = name => g < i \/ (g = i /\ k <= j + 1))
    BY UptoMember
  <2>2. PICK g \in DOMAIN file.inits[n] : \E k \in Places(app, file.inits[n][g]) :
          m = <<n, g, k>> /\ (n = name => g < i \/ (g = i /\ k <= j + 1))
    BY <2>1
  <2>3. PICK k \in Places(app, file.inits[n][g]) :
          m = <<n, g, k>> /\ (n = name => g < i \/ (g = i /\ k <= j + 1))
    BY <2>2
  <2>4. CASE n = name /\ g = i /\ k = j + 1
    BY <2>3, <2>4 DEF Places
  <2>5. CASE ~(n = name /\ g = i /\ k = j + 1)
    <3>1. n = name => g < i \/ (g = i /\ k <= j)
      <4>1. ASSUME n = name, g = i PROVE k \in Nat
        BY <1>1, <4>1, LenProperties DEF Places
      <4>2. QED
        BY <2>3, <2>5, <4>1
    <3>2. QED
      BY <2>3, <3>1, UptoMember
  <2>6. QED
    BY <2>4, <2>5
<1>5. ASSUME group[j + 1] = app PROVE <<name, i, j + 1>> \in new
  <2>1. j + 1 \in Places(app, file.inits[name][i])
    BY <1>5 DEF Places
  <2>2. name = name => i < i \/ (i = i /\ j + 1 <= j + 1)
    BY <1>1
  <2>3. QED
    BY <2>1, <2>2, UptoMember
<1> HIDE DEF old, new
<1>6. CASE group[j + 1] = app
  <2>1. new = old \cup {<<name, i, j + 1>>}
    BY <1>3, <1>4, <1>5, <1>6
  <2>2. QED
    BY <1>2, <1>6, <2>1 DEF old, new
<1>7. CASE group[j + 1] # app
  <2>1. new = old
    BY <1>3, <1>4, <1>7
  <2>2. QED
    BY <1>2, <1>7, <2>1 DEF old, new
<1>8. QED
  BY <1>6, <1>7

LEMMA CountedStep == ReadTypeOK /\ Counted /\ [StartupNext]_svars => Counted'
<1> SUFFICES ASSUME ReadTypeOK, Counted, [StartupNext]_svars PROVE Counted'
  OBVIOUS
<1>1. file' = file
  BY DEF StartupNext, ReadInit, ReadGroup, ReadApplication, ReadChecks, Setup, Over, Refuse, svars, reading
<1>2. ASSUME UNCHANGED reading PROVE Counted'
  BY <1>1, <1>2 DEF reading, Counted, At, Upto, Mentions, Places
<1>3. ASSUME NEW name \in DOMAIN file.inits \ inits', NEW i \in Nat, NEW j \in Nat,
             At(groups', ids', name, i, j),
             \A app \in Id : AsMany(Upto(app, inits', name, i, j), Count(apps', app))
      PROVE  Counted'
  <2>1. At(groups, ids, name, i, j)'
    BY <1>1, <1>3 DEF At
  <2>2. ASSUME NEW app \in Id PROVE AsMany(Upto(app, inits, name, i, j), Count(apps, app))'
    <3>1. Mentions(app)' = Mentions(app)
      BY <1>1 DEF Mentions, Places
    <3>2. Upto(app, inits, name, i, j)' = Upto(app, inits', name, i, j)
      BY <3>1 DEF Upto
    <3>3. Count(apps, app)' = Count(apps', app)
      BY DEF Count
    <3>4. QED
      BY <1>3, <3>2, <3>3 DEF AsMany
  <2>3. QED
    BY <1>1, <2>1, <2>2, Zenon DEF Counted
<1>4. ASSUME NEW name \in inits, ReadInit(name) PROVE Counted'
  <2>1. /\ groups = <<>> /\ ids = <<>> /\ ids' = ids /\ apps' = apps
        /\ inits' = inits \ {name} /\ groups' = file.inits[name]
        /\ name \in DOMAIN file.inits
    BY <1>4 DEF ReadInit, ReadTypeOK
  <2>2. At(groups', ids', name, 0, 0)
    <3>1. file.inits[name] \in Seq(GroupName)
      BY <2>1, FileIsTyped DEF ReadTypeOK
    <3>2. QED
      BY <2>1, <3>1, RestLemma DEF At
  <2>3. \A app \in Id : AsMany(Upto(app, inits', name, 0, 0), Count(apps', app))
    BY <2>1, CountedAtEnd, UptoNextInit
  <2>4. QED
    BY <1>3, <2>1, <2>2, <2>3
<1>5. CASE ReadGroup /\ ~Refuse
  <2>1. /\ groups # <<>> /\ ids = <<>> /\ Head(groups) \in DOMAIN file.groups
        /\ ids' = file.groups[Head(groups)] /\ groups' = Tail(groups)
        /\ inits' = inits /\ apps' = apps
    BY <1>5 DEF ReadGroup, MayReadGroup
  <2>2. PICK name \in DOMAIN file.inits \ inits, i \in Nat, j \in Nat :
          /\ At(groups, ids, name, i, j)
          /\ \A app \in Id : AsMany(Upto(app, inits, name, i, j), Count(apps, app))
    BY <2>1 DEF Counted
  <2>3. /\ file.inits[name] \in Seq(GroupName) /\ groups \in Seq(GroupName)
        /\ \A group \in DOMAIN file.groups : file.groups[group] \in Seq(Id)
    BY FileIsTyped DEF ReadTypeOK
  <2>4. /\ i + 1 \in DOMAIN file.inits[name] /\ Head(groups) = file.inits[name][i + 1]
        /\ Rest(file.inits[name], i + 1, Tail(groups))
    <3>1. Rest(file.inits[name], i, groups)
      BY <2>2 DEF At
    <3>2. QED
      BY <2>1, <2>3, <3>1, RestTail
  <2>5. At(groups', ids', name, i + 1, 0)
    <3>1. Rest(ids', 0, ids')
      BY <2>1, <2>3, RestLemma
    <3>2. QED
      BY <2>1, <2>4, <3>1 DEF At
  <2>6. i > 0 => file.inits[name][i] \in DOMAIN file.groups /\ j = Len(file.groups[file.inits[name][i]])
    BY <2>1, <2>2, <2>3, RestLemma DEF At
  <2>7. \A app \in Id : AsMany(Upto(app, inits', name, i + 1, 0), Count(apps', app))
    BY <2>1, <2>2, <2>4, <2>6, UptoNextGroup
  <2>8. i + 1 \in Nat /\ 0 \in Nat
    OBVIOUS
  <2>9. QED
    BY <1>3, <2>1, <2>5, <2>7, <2>8
<1>6. CASE ReadApplication /\ ~Refuse
  <2>1. ids # <<>> /\ ids' = Tail(ids) /\ groups' = groups /\ inits' = inits
    BY <1>6 DEF ReadApplication
  <2>2. PICK r : r.id = Head(ids) /\ apps' = Append(apps, r)
    <3>1. PICK env \in Environments(file.applications[Head(ids)], Own) :
            apps' = Append(apps, [ id       |-> Head(ids),
                                   requires |-> file.applications[Head(ids)].requires,
                                   limits   |-> GetLimits(file.limits, file.applications[Head(ids)].limits),
                                   env      |-> env ])
      BY <1>6 DEF ReadApplication
    <3>2. QED
      BY <3>1
  <2>3. PICK name \in DOMAIN file.inits \ inits, i \in Nat, j \in Nat :
          /\ At(groups, ids, name, i, j)
          /\ \A app \in Id : AsMany(Upto(app, inits, name, i, j), Count(apps, app))
    BY <2>1 DEF Counted
  <2>4. /\ i > 0 /\ file.inits[name][i] \in DOMAIN file.groups
        /\ Rest(file.groups[file.inits[name][i]], j, ids) /\ Rest(file.inits[name], i, groups)
    BY <2>1, <2>3 DEF At
  <2>5. /\ file.inits[name] \in Seq(GroupName) /\ ids \in Seq(Id)
        /\ file.groups[file.inits[name][i]] \in Seq(Id)
    BY <2>4, FileIsTyped DEF ReadTypeOK
  <2>6. /\ j + 1 \in DOMAIN file.groups[file.inits[name][i]]
        /\ Head(ids) = file.groups[file.inits[name][i]][j + 1]
        /\ Rest(file.groups[file.inits[name][i]], j + 1, Tail(ids))
    <3> DEFINE group == file.groups[file.inits[name][i]]
    <3>1. group \in Seq(Id) /\ ids \in Seq(Id) /\ ids # <<>> /\ Rest(group, j, ids)
      BY <2>1, <2>4, <2>5
    <3> HIDE DEF group
    <3>2. j + 1 \in DOMAIN group /\ Head(ids) = group[j + 1] /\ Rest(group, j + 1, Tail(ids))
      BY <3>1, RestTail
    <3>3. QED
      BY <3>2 DEF group
  <2>7. At(groups', ids', name, i, j + 1)
    BY <2>1, <2>4, <2>6 DEF At
  <2>8. i \in DOMAIN file.inits[name]
    BY <2>4, <2>5, LenProperties DEF Rest
  <2>9. ASSUME NEW app \in Id PROVE AsMany(Upto(app, inits', name, i, j + 1), Count(apps', app))
    <3> DEFINE old == Upto(app, inits, name, i, j)
               place == <<name, i, j + 1>>
    <3>1. /\ place \notin old
          /\ Upto(app, inits', name, i, j + 1) = IF Head(ids) = app THEN old \cup {place} ELSE old
      <4>1. /\ <<name, i, j + 1>> \notin Upto(app, inits, name, i, j)
            /\ file.groups[file.inits[name][i]][j + 1] = app =>
                 Upto(app, inits, name, i, j + 1) = Upto(app, inits, name, i, j) \cup {<<name, i, j + 1>>}
            /\ file.groups[file.inits[name][i]][j + 1] # app =>
                 Upto(app, inits, name, i, j + 1) = Upto(app, inits, name, i, j)
        <5> DEFINE group == file.groups[file.inits[name][i]]
        <5>1. ReadTypeOK /\ file.inits[name][i] \in DOMAIN file.groups /\ j + 1 \in DOMAIN group
          BY <2>4, <2>6
        <5>2. QED
          BY <2>8, <5>1, UptoNextApplication
      <4>2. Upto(app, inits', name, i, j + 1) = Upto(app, inits, name, i, j + 1)
        BY <2>1
      <4>3. QED
        BY <2>6, <4>1, <4>2
    <3>2. /\ IsFiniteSet(Count(apps, app)) /\ Len(apps) + 1 \notin Count(apps, app)
          /\ Count(apps', app) =
               IF Head(ids) = app THEN Count(apps, app) \cup {Len(apps) + 1} ELSE Count(apps, app)
      <4>1. apps \in Seq(Loaded(file) \cup {r}) /\ r \in Loaded(file) \cup {r}
        BY DEF ReadTypeOK
      <4>2. QED
        BY <2>2, <4>1, CountAppend
    <3>3. AsMany(old, Count(apps, app))
      BY <2>3
    <3> HIDE DEF old, place
    <3>4. CASE Head(ids) = app
      <4>1. /\ IsFiniteSet(old \cup {place})
            /\ Cardinality(old \cup {place}) = Cardinality(old) + 1
        BY <3>1, <3>3, FS_AddElement DEF AsMany
      <4>2. Cardinality(Count(apps, app) \cup {Len(apps) + 1}) = Cardinality(Count(apps, app)) + 1
        BY <3>2, FS_AddElement
      <4>3. QED
        BY <3>1, <3>2, <3>3, <3>4, <4>1, <4>2 DEF AsMany
    <3>5. CASE Head(ids) # app
      BY <3>1, <3>2, <3>3, <3>5
    <3>6. QED
      BY <3>4, <3>5
  <2>10. j + 1 \in Nat
    OBVIOUS
  <2>11. QED
    BY <1>3, <2>1, <2>7, <2>9, <2>10
<1>7. CASE Refuse \/ ReadChecks \/ Setup \/ Over \/ UNCHANGED svars
  <2>1. UNCHANGED reading
    BY <1>7 DEF Refuse, ReadChecks, Setup, Over, svars
  <2>2. QED
    BY <1>2, <2>1
<1>8. QED
  BY <1>4, <1>5, <1>6, <1>7 DEF StartupNext

\* Whatever the order, once all is read each application is there as often as the
\* inits, by their groups, mention it.
THEOREM LoadedAsWrittenCorrect == StartupSpec => []LoadedAsWritten
<1>1. StartupInit => Counted
  BY DEF StartupInit, Counted
<1>2. ReadTypeOK /\ Counted => LoadedAsWritten
  <2> SUFFICES ASSUME ReadTypeOK, Counted, AllRead, NEW app \in Id
               PROVE  Cardinality(Count(apps, app)) = Cardinality(Mentions(app))
    BY DEF LoadedAsWritten, Count
  <2>1. groups = <<>> /\ ids = <<>> /\ inits = {}
    BY DEF AllRead
  <2>2. AsMany({m \in Mentions(app) : m[1] \notin inits}, Count(apps, app))
    BY <2>1, CountedAtEnd
  <2>3. {m \in Mentions(app) : m[1] \notin inits} = Mentions(app)
    BY <2>1
  <2>4. QED
    BY <2>2, <2>3 DEF AsMany
<1>3. QED
  BY <1>1, <1>2, CountedStep, StartupTypeCorrect, PTL DEF StartupSpec

-----------------------------------------------------------------------------
(* The least of the limits.                                                *)

\* How the limit of a resource comes about, name by name.
LEMMA LeastByName ==
  ASSUME NEW limits, NEW L, NEW names \in Seq(L), NEW k \in Resource,
         \A i \in DOMAIN names : k \in DOMAIN limits[names[i]] => limits[names[i]][k] \in Nat
  PROVE  \E least \in [0 .. Len(names) -> Nat \cup {Infinity}] :
           /\ least[0] = Infinity
           /\ least[Len(names)] = GetLimits(limits, names)[k]
           /\ \A m \in 1 .. Len(names) :
                least[m] = IF k \in DOMAIN limits[names[m]]
                             THEN LeastOf(least[m - 1], InBytes(k, limits[names[m]][k]) % Word)
                             ELSE least[m - 1]
<1> DEFINE n == Len(names)
           V == Nat \cup {Infinity}
           Step(v, name) == IF k \in DOMAIN limits[name]
                              THEN LeastOf(v, InBytes(k, limits[name][k]) % Word)
                              ELSE v
           Fold(it) == it = [s \in SUBSET DOMAIN names |->
                               IF s = {} THEN Infinity
                               ELSE LET x == Max(s) IN Step(it[s \ {x}], names[x])]
           fold == CHOOSE it : Fold(it)
           step == [p \in (1 .. n) \X V |-> Step(p[2], names[p[1]])]
<1>1. GetLimits(limits, names)[k] = fold[DOMAIN names]
  BY DEF GetLimits, FoldLeft, MapThenFoldSet
<1>2. n \in Nat /\ DOMAIN names = 1 .. n
  BY LenProperties
<1>3. ASSUME NEW v \in V, NEW m \in 1 .. n PROVE Step(v, names[m]) \in V
  <2>1. ASSUME k \in DOMAIN limits[names[m]]
        PROVE  InBytes(k, limits[names[m]][k]) % Word \in Nat
    <3>1. limits[names[m]][k] \in Nat
      BY <1>2, <2>1
    <3>2. InBytes(k, limits[names[m]][k]) \in Nat
      BY <3>1, ConfigurationAssumption DEF InBytes
    <3>3. QED
      BY <3>2, ConfigurationAssumption
  <2>2. QED
    BY <2>1 DEF LeastOf
<1> HIDE DEF Step, n, V
<1>4. step \in [(1 .. n) \X V -> V] /\ \A v \in V, m \in 1 .. n : step[<<m, v>>] = Step(v, names[m])
  BY <1>3
<1>5. \E it : Fold(it)
  <2> HIDE DEF step
  <2>1. Infinity \in V
    BY DEF V
  <2>2. PICK it \in [SUBSET (1 .. n) -> V] : IsFoldLeft(it, Infinity, step, n)
    BY <1>2, <1>4, <2>1, FoldLeftExists
  <2>3. ASSUME NEW s \in SUBSET (1 .. n), s # {}
        PROVE  step[<<Max(s), it[s \ {Max(s)}]>>] = Step(it[s \ {Max(s)}], names[Max(s)])
    <3>1. Max(s) \in 1 .. n /\ s \ {Max(s)} \in SUBSET (1 .. n)
      BY <1>2, <2>3, MaxProperties
    <3>2. QED
      BY <1>4, <3>1
  <2>4. Fold(it)
    BY <1>2, <2>2, <2>3 DEF IsFoldLeft
  <2>5. QED
    BY <2>4
<1>6. Fold(fold)
  <2> HIDE DEF Fold
  <2>1. QED
    BY <1>5
<1> HIDE DEF fold
<1>7. fold[{}] = Infinity /\ Infinity \in V
  BY <1>6 DEF V
<1>8. ASSUME NEW s \in SUBSET (1 .. n), s # {}, fold[s \ {Max(s)}] \in V
      PROVE  fold[s] = step[<<Max(s), fold[s \ {Max(s)}]>>]
  <2>1. Max(s) \in 1 .. n
    BY <1>2, <1>8, MaxProperties
  <2>2. fold[s] = Step(fold[s \ {Max(s)}], names[Max(s)])
    BY <1>2, <1>6, <1>8
  <2>3. QED
    BY <1>4, <1>8, <2>1, <2>2
<1> HIDE DEF step
<1>9. PICK least \in [0 .. n -> V] : TakesSteps(least, Infinity, step, n) /\ least[n] = fold[1 .. n]
  <2>1. FoldsLeft(fold, Infinity, step, n, V)
    BY <1>7, <1>8 DEF FoldsLeft
  <2>2. n \in Nat /\ Infinity \in V /\ step \in [(1 .. n) \X V -> V]
    BY <1>2, <1>4, <1>7
  <2>3. StepsLeadTo(fold[1 .. n], Infinity, step, n, V)
    BY <2>1, <2>2, FoldLeftByStep
  <2>4. QED
    BY <2>3 DEF StepsLeadTo
<1>10. ASSUME NEW m \in 1 .. n PROVE least[m] = Step(least[m - 1], names[m])
  <2>1. m - 1 \in 0 .. n
    BY <1>2
  <2>2. QED
    BY <1>4, <1>9, <2>1 DEF TakesSteps
<1>11. QED
  BY <1>1, <1>2, <1>9, <1>10 DEF n, V, Step, TakesSteps

LEMMA LeastOfProperties ==
  ASSUME NEW x \in Nat \cup {Infinity}, NEW y \in Nat
  PROVE  /\ LeastOf(x, y) \in Nat /\ LeastOf(x, y) <= y
         /\ x \in Nat => LeastOf(x, y) <= x
         /\ LeastOf(x, y) = x \/ LeastOf(x, y) = y
<1>1. y # Infinity
  BY ConfigurationAssumption
<1>2. CASE x = Infinity
  BY <1>1, <1>2, ConfigurationAssumption DEF LeastOf
<1>3. CASE x \in Nat
  <2>1. x # Infinity
    BY <1>3, ConfigurationAssumption
  <2>2. CASE x < y
    BY <1>1, <1>3, <2>1, <2>2 DEF LeastOf
  <2>3. CASE ~(x < y)
    BY <1>1, <1>3, <2>1, <2>3 DEF LeastOf
  <2>4. QED
    BY <2>2, <2>3
<1>4. QED
  BY <1>2, <1>3

\* The limit of a resource is no greater than any that is given for it, is one of
\* them, and is none if none is.
LEMMA LimitIsLeast ==
  ASSUME NEW limits, NEW L, NEW names \in Seq(L), NEW k \in Resource,
         \A i \in DOMAIN names : k \in DOMAIN limits[names[i]] => limits[names[i]][k] \in Nat,
         NEW limit, limit = GetLimits(limits, names)[k],
         NEW given, given = {i \in DOMAIN names : k \in DOMAIN limits[names[i]]}
  PROVE  /\ limit \in Nat \cup {Infinity}
         /\ given = {} => limit = Infinity
         /\ \A i \in given : limit \in Nat /\ limit <= InBytes(k, limits[names[i]][k]) % Word
         /\ limit = Infinity \/ \E i \in given : limit = InBytes(k, limits[names[i]][k]) % Word
<1> DEFINE n == Len(names)
           Value(i) == InBytes(k, limits[names[i]][k]) % Word
           Good(l, m) ==
             /\ l \in Nat \cup {Infinity}
             /\ (\A i \in given : i > m) => l = Infinity
             /\ \A i \in given : i <= m => l \in Nat /\ l <= Value(i)
             /\ l = Infinity \/ \E i \in given : l = Value(i)
<1>1. n \in Nat /\ DOMAIN names = 1 .. n
  BY LenProperties
<1>2. ASSUME NEW i \in given PROVE Value(i) \in Nat
  <2>1. limits[names[i]][k] \in Nat
    OBVIOUS
  <2>2. InBytes(k, limits[names[i]][k]) \in Nat
    BY <2>1, ConfigurationAssumption DEF InBytes
  <2>3. QED
    BY <2>2, ConfigurationAssumption
<1>3. PICK least \in [0 .. n -> Nat \cup {Infinity}] :
        /\ least[0] = Infinity
        /\ least[n] = limit
        /\ \A m \in 1 .. n : least[m] = IF m \in given THEN LeastOf(least[m - 1], Value(m))
                                      ELSE least[m - 1]
  <2>1. PICK least \in [0 .. Len(names) -> Nat \cup {Infinity}] :
          /\ least[0] = Infinity
          /\ least[Len(names)] = GetLimits(limits, names)[k]
          /\ \A m \in 1 .. Len(names) :
               least[m] = IF k \in DOMAIN limits[names[m]]
                            THEN LeastOf(least[m - 1], InBytes(k, limits[names[m]][k]) % Word)
                            ELSE least[m - 1]
    BY LeastByName
  <2>2. \A m \in 1 .. n : m \in given <=> k \in DOMAIN limits[names[m]]
    BY <1>1
  <2>3. QED
    BY <2>1, <2>2
<1> HIDE DEF n, Value
<1> DEFINE G == {m \in 0 .. n : Good(least[m], m)}
<1>4. 0 \in G
  <2>1. 0 \in 0 .. n /\ \A i \in given : i > 0
    BY <1>1
  <2>2. QED
    BY <1>3, <2>1
<1>5. ASSUME NEW m \in 1 .. n, m - 1 \in G PROVE m \in G
  <2>1. Good(least[m - 1], m - 1)
    BY <1>5
  <2>2. \A i \in given : i \in Nat
    BY <1>1
  <2>3. CASE m \in given
    <3>1. Value(m) \in Nat /\ least[m] = LeastOf(least[m - 1], Value(m))
      BY <1>2, <1>3, <2>3
    <3>2. /\ least[m] \in Nat /\ least[m] <= Value(m)
          /\ least[m - 1] \in Nat => least[m] <= least[m - 1]
          /\ least[m] = least[m - 1] \/ least[m] = Value(m)
      BY <2>1, <3>1, LeastOfProperties
    <3>3. ASSUME NEW i \in given, i <= m PROVE least[m] <= Value(i)
      <4>1. CASE i = m
        BY <3>2, <4>1
      <4>2. CASE i # m
        <5>1. i <= m - 1
          BY <2>2, <3>3, <4>2
        <5>2. least[m - 1] \in Nat /\ least[m - 1] <= Value(i) /\ Value(i) \in Nat
          BY <1>2, <2>1, <5>1
        <5>3. QED
          BY <3>2, <5>2
      <4>3. QED
        BY <4>1, <4>2
    <3>4. ~(\A i \in given : i > m)
      BY <2>3
    <3>5. \E i \in given : least[m] = Value(i)
      BY <2>1, <2>3, <3>2, ConfigurationAssumption
    <3>6. Good(least[m], m)
      BY <3>2, <3>3, <3>4, <3>5
    <3>7. QED
      BY <3>6
  <2>4. CASE m \notin given
    <3>1. least[m] = least[m - 1]
      BY <1>3, <2>4
    <3>2. \A i \in given : (i > m => i > m - 1) /\ (i <= m => i <= m - 1) /\ (i > m - 1 => i > m)
      BY <2>2, <2>4
    <3>3. Good(least[m], m)
      BY <2>1, <3>1, <3>2
    <3>4. QED
      BY <3>3
  <2>5. QED
    BY <2>3, <2>4
<1>6. G = 0 .. n
  <2> HIDE DEF G
  <2>1. G \in SUBSET (0 .. n)
    BY DEF G
  <2>2. QED
    BY <1>1, <1>4, <1>5, <2>1, UptoInduction
<1>7. Good(limit, n)
  BY <1>1, <1>3, <1>6
<1>8. \A i \in given : i <= n
  BY <1>1
<1>9. QED
  BY <1>7, <1>8 DEF Value

\* Each application that has been read is what its entry, which made sense, says.
Written ==
  \A n \in DOMAIN apps :
    /\ Sound(apps[n].id)
    /\ apps[n].limits = GetLimits(file.limits, file.applications[apps[n].id].limits)
    /\ apps[n].env \in Environments(file.applications[apps[n].id], Own)

LEMMA WrittenStep == ReadTypeOK /\ Written /\ [StartupNext]_svars => Written'
<1> SUFFICES ASSUME ReadTypeOK, Written, [StartupNext]_svars PROVE Written'
  OBVIOUS
<1>1. file' = file
  BY DEF StartupNext, ReadInit, ReadGroup, ReadApplication, ReadChecks, Setup, Over, Refuse, svars, reading
<1>2. \A app : Sound(app)' <=> Sound(app)
  BY <1>1, SameFile
<1>3. CASE apps' = apps
  BY <1>1, <1>2, <1>3 DEF Written
<1>4. CASE ReadApplication /\ ~Refuse
  <2>1. PICK env \in Environments(file.applications[Head(ids)], Own) :
          apps' = Append(apps, [ id       |-> Head(ids),
                                 requires |-> file.applications[Head(ids)].requires,
                                 limits   |-> GetLimits(file.limits, file.applications[Head(ids)].limits),
                                 env      |-> env ])
    BY <1>4 DEF ReadApplication
  <2> DEFINE new == [ id       |-> Head(ids),
                      requires |-> file.applications[Head(ids)].requires,
                      limits   |-> GetLimits(file.limits, file.applications[Head(ids)].limits),
                      env      |-> env ]
  <2>2. Sound(Head(ids))
    BY <1>4 DEF ReadApplication
  <2>3. /\ new.id = Head(ids) /\ new.env = env
        /\ new.limits = GetLimits(file.limits, file.applications[Head(ids)].limits)
    OBVIOUS
  <2> HIDE DEF new
  <2>4. /\ Len(apps) \in Nat /\ DOMAIN apps = 1 .. Len(apps)
        /\ DOMAIN apps' = 1 .. Len(apps) + 1
        /\ \A n \in 1 .. Len(apps) : apps'[n] = apps[n]
        /\ apps'[Len(apps) + 1] = new
    <3>1. apps \in Seq(Loaded(file) \cup {new}) /\ new \in Loaded(file) \cup {new}
      BY DEF ReadTypeOK
    <3>2. apps' = Append(apps, new)
      BY <2>1 DEF new
    <3>3. QED
      BY <3>1, <3>2, AppendProperties, LenProperties
  <2>5. ASSUME NEW n \in DOMAIN apps', NEW app, app = apps'[n].id
        PROVE  /\ Sound(app)'
               /\ apps'[n].limits = GetLimits(file.limits, file.applications[app].limits)
               /\ apps'[n].env \in Environments(file.applications[app], Own)
    <3>1. CASE n = Len(apps) + 1
      <4>1. app = Head(ids)
        BY <2>3, <2>4, <2>5, <3>1
      <4>2. Sound(app)'
        BY <1>2, <2>2, <4>1
      <4>3. QED
        BY <2>3, <2>4, <3>1, <4>1, <4>2
    <3>2. CASE n \in DOMAIN apps
      <4>1. apps'[n] = apps[n] /\ app = apps[n].id
        BY <2>4, <2>5, <3>2
      <4>2. Sound(app)'
        BY <1>2, <3>2, <4>1 DEF Written
      <4>3. QED
        BY <3>2, <4>1, <4>2 DEF Written
    <3>3. QED
      BY <2>4, <3>1, <3>2
  <2>6. \A n \in DOMAIN apps' :
          /\ Sound(apps[n].id)'
          /\ apps'[n].limits = GetLimits(file'.limits, file'.applications[apps'[n].id].limits)
          /\ apps'[n].env \in Environments(file'.applications[apps'[n].id], Own)
    BY <1>1, <2>5 DEF Sound
  <2>7. QED
    BY <2>6 DEF Written
<1>5. apps' = apps \/ (ReadApplication /\ ~Refuse)
  BY DEF StartupNext, ReadInit, ReadGroup, ReadApplication, ReadChecks, Setup, Over, Refuse, svars, reading
<1>6. QED
  BY <1>3, <1>4, <1>5

\* The invariant behind the two below: what is loaded is what the file makes of it.
THEOREM WrittenCorrect == StartupSpec => []Written
<1>1. StartupInit => Written
  BY DEF StartupInit, Written
<1>2. QED
  BY <1>1, WrittenStep, StartupTypeCorrect, PTL DEF StartupSpec

\* What makes sense in an entry: its limits are in the file, and are numbers.
LEMMA SoundLimits ==
  ASSUME ReadTypeOK, NEW app, Sound(app)
  PROVE  /\ IsEntry(file.applications[app]) /\ file.applications[app].limits \in Seq(LimitName)
         /\ \A i \in DOMAIN file.applications[app].limits : \A k \in Resource :
              k \in DOMAIN file.limits[file.applications[app].limits[i]]
                => file.limits[file.applications[app].limits[i]][k] \in Nat
<1>1. app \in DOMAIN file.applications /\ ~NoSuchLimits(file.limits, file.applications[app].limits)
  BY DEF Sound, Refused
<1>2. IsFile(file)
  BY StartupAssumption DEF ReadTypeOK
<1>3. IsEntry(file.applications[app]) /\ file.applications[app].limits \in Seq(LimitName)
  BY <1>1, <1>2 DEF IsFile, IsEntry
<1>4. ASSUME NEW i \in DOMAIN file.applications[app].limits, NEW k \in Resource,
             k \in DOMAIN file.limits[file.applications[app].limits[i]]
      PROVE  file.limits[file.applications[app].limits[i]][k] \in Nat
  <2>1. file.applications[app].limits[i] \in DOMAIN file.limits
    BY <1>1 DEF NoSuchLimits
  <2>2. Within(file.limits[file.applications[app].limits[i]], Resource \cup {"other"}, Nat)
    BY <1>2, <2>1 DEF IsFile
  <2>3. QED
    BY <1>4, <2>2 DEF Within
<1>5. QED
  BY <1>3, <1>4

\* Of several limits for a resource an application gets the least, whatever riffol
\* was given itself, and none only if none is stated.
THEOREM LimitsCorrect == StartupSpec => []LimitsAreLeast
<1>1. ReadTypeOK /\ Written => LimitsAreLeast
  <2> SUFFICES ASSUME ReadTypeOK, Written, NEW n \in DOMAIN apps, NEW k \in Resource
               PROVE  LET limit == apps[n].limits[k] stated == Stated(apps[n].id, k) IN
                        /\ stated = {} => limit = Infinity
                        /\ (\A v \in stated : v < Word) => limit \in stated \cup {Infinity}
                        /\ \A v \in stated, given \in stated \cup {0, Infinity}, privileged \in BOOLEAN :
                             AtMost(SetLimit(given, limit, privileged), v)
    BY DEF LimitsAreLeast
  <2> DEFINE limit == apps[n].limits[k]
             stated == Stated(apps[n].id, k)
  <2> DEFINE names == file.applications[apps[n].id].limits
             given == {i \in DOMAIN names : k \in DOMAIN file.limits[names[i]]}
             Value(i) == InBytes(k, file.limits[names[i]][k])
  <2>1. /\ names \in Seq(LimitName)
        /\ \A i \in DOMAIN names : k \in DOMAIN file.limits[names[i]] => file.limits[names[i]][k] \in Nat
    BY SoundLimits DEF Written
  <2>2. limit = GetLimits(file.limits, names)[k]
    BY DEF Written
  <2>3. stated = {Value(i) : i \in given}
    BY DEF Stated
  <2>4. \A i \in given : Value(i) \in Nat
    BY <2>1, ConfigurationAssumption DEF InBytes
  <2>5. /\ limit \in Nat \cup {Infinity}
        /\ given = {} => limit = Infinity
        /\ \A i \in given : limit \in Nat /\ limit <= Value(i) % Word
        /\ limit = Infinity \/ \E i \in given : limit = Value(i) % Word
    <3> DEFINE all == given
    <3> HIDE DEF names, all
    <3>1. all = {i \in DOMAIN names : k \in DOMAIN file.limits[names[i]]}
      BY DEF all
    <3>2. /\ limit \in Nat \cup {Infinity}
          /\ all = {} => limit = Infinity
          /\ \A i \in all : limit \in Nat /\ limit <= InBytes(k, file.limits[names[i]][k]) % Word
          /\ limit = Infinity \/ \E i \in all : limit = InBytes(k, file.limits[names[i]][k]) % Word
      BY <2>1, <2>2, <3>1, LimitIsLeast
    <3>3. QED
      BY <3>2 DEF all
  <2> HIDE DEF given, Value, limit, stated
  <2>6. \A v \in Nat : v % Word \in Nat /\ v % Word <= v /\ (v < Word => v % Word = v)
    BY ConfigurationAssumption
  <2>7. stated = {} => limit = Infinity
    BY <2>3, <2>5
  <2>8. (\A v \in stated : v < Word) => limit \in stated \cup {Infinity}
    BY <2>3, <2>4, <2>5, <2>6
  <2>9. ASSUME NEW v \in stated, NEW own \in stated \cup {0, Infinity}, NEW privileged \in BOOLEAN
        PROVE  AtMost(SetLimit(own, limit, privileged), v)
    <3>1. limit \in Nat /\ limit <= v /\ v \in Nat /\ limit # Infinity
      BY <2>3, <2>4, <2>5, <2>6, ConfigurationAssumption
    <3>2. own \in Nat \cup {Infinity}
      BY <2>3, <2>4
    <3>3. CASE privileged \/ AtMost(limit, own)
      BY <3>1, <3>3 DEF SetLimit, AtMost
    <3>4. CASE ~privileged /\ ~AtMost(limit, own)
      <4>1. own \in Nat /\ own # Infinity /\ own <= v
        BY <3>1, <3>2, <3>4, ConfigurationAssumption DEF AtMost
      <4>2. QED
        BY <3>4, <4>1 DEF SetLimit, AtMost
    <3>5. QED
      BY <3>3, <3>4
  <2>10. QED
    BY <2>7, <2>8, <2>9 DEF limit, stated
<1>2. QED
  BY <1>1, WrittenCorrect, StartupTypeCorrect, PTL

-----------------------------------------------------------------------------
(* The layers of an environment.                                           *)

\* An environment whose values are from T.
EnvOf(T) == UNION {[D -> T] : D \in SUBSET Var}

LEMMA EnvOfProperties ==
  ASSUME NEW T, NEW env
  PROVE  env \in EnvOf(T) <=> /\ env = [v \in DOMAIN env |-> env[v]]
                              /\ Within(env, Var, T)
<1>1. ASSUME env \in EnvOf(T) PROVE env = [v \in DOMAIN env |-> env[v]] /\ Within(env, Var, T)
  <2>1. PICK D \in SUBSET Var : env \in [D -> T]
    BY <1>1 DEF EnvOf
  <2>2. QED
    BY <2>1 DEF Within
<1>2. ASSUME env = [v \in DOMAIN env |-> env[v]], Within(env, Var, T) PROVE env \in EnvOf(T)
  <2>1. DOMAIN env \in SUBSET Var /\ env \in [DOMAIN env -> T]
    BY <1>2 DEF Within
  <2>2. QED
    BY <2>1 DEF EnvOf
<1>3. QED
  BY <1>1, <1>2

LEMMA EmptyEnv == ASSUME NEW T PROVE <<>> \in EnvOf(T) /\ DOMAIN <<>> = {}
<1>1. <<>> \in Seq(T) /\ Len(<<>>) = 0
  BY EmptySeq
<1>2. <<>> \in [1 .. 0 -> T] /\ 1 .. 0 = {}
  BY <1>1, LenProperties
<1>3. {} \in SUBSET Var /\ <<>> \in [{} -> T]
  BY <1>2
<1>4. QED
  BY <1>3 DEF EnvOf

\* new is env but for v, whose value is x.
IsInserted(new, env, v, x) ==
  /\ DOMAIN new = DOMAIN env \cup {v}
  /\ new[v] = x
  /\ \A w \in DOMAIN env : w # v => new[w] = env[w]

LEMMA InsertProperties ==
  ASSUME NEW T, NEW env \in EnvOf(T), NEW v \in Var, NEW x \in T
  PROVE  Insert(env, v, x) \in EnvOf(T) /\ IsInserted(Insert(env, v, x), env, v, x)
<1> DEFINE new == Insert(env, v, x)
<1>1. DOMAIN env \subseteq Var /\ \A w \in DOMAIN env : env[w] \in T
  BY EnvOfProperties DEF Within
<1>2. new = [w \in DOMAIN env \cup {v} |-> IF w \in {v} THEN x ELSE env[w]]
  BY DEF Insert, InsertAll
<1> HIDE DEF new
<1>3. DOMAIN env \cup {v} \in SUBSET Var /\ new \in [DOMAIN env \cup {v} -> T]
  BY <1>1, <1>2
<1>4. new \in EnvOf(T)
  BY <1>3 DEF EnvOf
<1>5. IsInserted(new, env, v, x)
  BY <1>2 DEF IsInserted
<1>6. QED
  BY <1>4, <1>5 DEF new

\* How the environment of an env_file comes about, line by line.
LEMMA FileByLine ==
  ASSUME NEW lines \in Seq(Var \X Val)
  PROVE  \E by \in [0 .. Len(lines) -> EnvOf(Val)] :
           /\ by[0] = <<>>
           /\ by[Len(lines)] = ReadEnvFile(lines)
           /\ \A m \in 1 .. Len(lines) : by[m] = Insert(by[m - 1], lines[m][1], lines[m][2])
<1> DEFINE n == Len(lines)
           V == EnvOf(Val)
           Step(e, line) == Insert(e, line[1], line[2])
           Fold(it) == it = [s \in SUBSET DOMAIN lines |->
                               IF s = {} THEN <<>>
                               ELSE LET x == Max(s) IN Step(it[s \ {x}], lines[x])]
           fold == CHOOSE it : Fold(it)
           step == [p \in (1 .. n) \X V |-> Step(p[2], lines[p[1]])]
<1>1. ReadEnvFile(lines) = fold[DOMAIN lines]
  BY DEF ReadEnvFile, FoldLeft, MapThenFoldSet
<1>2. n \in Nat /\ DOMAIN lines = 1 .. n
  BY LenProperties
<1>3. ASSUME NEW e \in V, NEW m \in 1 .. n PROVE Step(e, lines[m]) \in V
  <2>1. lines[m][1] \in Var /\ lines[m][2] \in Val
    BY <1>2, ElementOfSeq
  <2>2. ASSUME NEW w \in Var, NEW x \in Val PROVE Insert(e, w, x) \in V
    BY InsertProperties
  <2>3. QED
    BY <2>1, <2>2
<1> HIDE DEF Step, n, V
<1>4. step \in [(1 .. n) \X V -> V] /\ \A e \in V, m \in 1 .. n : step[<<m, e>>] = Step(e, lines[m])
  BY <1>3
<1>5. <<>> \in V
  BY EmptyEnv DEF V
<1>6. \E it : Fold(it)
  <2> HIDE DEF step
  <2>1. PICK it \in [SUBSET (1 .. n) -> V] : IsFoldLeft(it, <<>>, step, n)
    BY <1>2, <1>4, <1>5, FoldLeftExists
  <2>2. ASSUME NEW s \in SUBSET (1 .. n), s # {}
        PROVE  step[<<Max(s), it[s \ {Max(s)}]>>] = Step(it[s \ {Max(s)}], lines[Max(s)])
    <3>1. Max(s) \in 1 .. n /\ s \ {Max(s)} \in SUBSET (1 .. n)
      BY <1>2, <2>2, MaxProperties
    <3>2. QED
      BY <1>4, <3>1
  <2>3. Fold(it)
    BY <1>2, <2>1, <2>2 DEF IsFoldLeft
  <2>4. QED
    BY <2>3
<1>7. Fold(fold)
  <2> HIDE DEF Fold
  <2>1. QED
    BY <1>6
<1> HIDE DEF fold
<1>8. fold[{}] = <<>>
  BY <1>7
<1>9. ASSUME NEW s \in SUBSET (1 .. n), s # {}, fold[s \ {Max(s)}] \in V
      PROVE  fold[s] = step[<<Max(s), fold[s \ {Max(s)}]>>]
  <2>1. Max(s) \in 1 .. n
    BY <1>2, <1>9, MaxProperties
  <2>2. fold[s] = Step(fold[s \ {Max(s)}], lines[Max(s)])
    BY <1>2, <1>7, <1>9
  <2>3. QED
    BY <1>4, <1>9, <2>1, <2>2
<1> HIDE DEF step
<1>10. PICK by \in [0 .. n -> V] : TakesSteps(by, <<>>, step, n) /\ by[n] = fold[1 .. n]
  <2>1. FoldsLeft(fold, <<>>, step, n, V)
    BY <1>5, <1>8, <1>9 DEF FoldsLeft
  <2>2. n \in Nat /\ <<>> \in V /\ step \in [(1 .. n) \X V -> V]
    BY <1>2, <1>4, <1>5
  <2>3. StepsLeadTo(fold[1 .. n], <<>>, step, n, V)
    BY <2>1, <2>2, FoldLeftByStep
  <2>4. QED
    BY <2>3 DEF StepsLeadTo
<1>11. ASSUME NEW m \in 1 .. n PROVE by[m] = Step(by[m - 1], lines[m])
  <2>1. m - 1 \in 0 .. n
    BY <1>2
  <2>2. QED
    BY <1>4, <1>10, <2>1 DEF TakesSteps
<1>12. QED
  BY <1>1, <1>2, <1>10, <1>11 DEF n, V, Step, TakesSteps

\* env has what the last of the given lines says of v, and nothing without a line.
LastCounts(env, v, lines, given) ==
  /\ v \in DOMAIN env <=> given # {}
  /\ given # {} => env[v] = lines[Max(given)][2]

LEMMA FileProperties ==
  ASSUME NEW lines \in Seq(Var \X Val), NEW v \in Var,
         NEW env, env = ReadEnvFile(lines),
         NEW given, given = {i \in DOMAIN lines : lines[i][1] = v}
  PROVE  env \in EnvOf(Val) /\ LastCounts(env, v, lines, given)
<1> DEFINE n == Len(lines)
<1>1. n \in Nat /\ DOMAIN lines = 1 .. n /\ given \subseteq 1 .. n
  BY LenProperties
<1>2. PICK by \in [0 .. n -> EnvOf(Val)] :
        /\ by[0] = <<>>
        /\ by[n] = env
        /\ \A m \in 1 .. n : by[m] = Insert(by[m - 1], lines[m][1], lines[m][2])
  BY FileByLine
<1> HIDE DEF n
<1> DEFINE Good(e, m) ==
             /\ v \in DOMAIN e <=> \E i \in given : i <= m
             /\ \A i \in given : i <= m /\ (\A j \in given : j <= m => j <= i) => e[v] = lines[i][2]
           G == {m \in 0 .. n : Good(by[m], m)}
<1>3. 0 \in G
  <2>1. 0 \in 0 .. n /\ (\A i \in given : ~(i <= 0)) /\ DOMAIN <<>> = {}
    BY <1>1, EmptyEnv
  <2>2. QED
    BY <1>2, <2>1
<1>4. ASSUME NEW m \in 1 .. n, m - 1 \in G PROVE m \in G
  <2>1. m - 1 \in 0 .. n /\ m \in 0 .. n /\ by[m - 1] \in EnvOf(Val)
    BY <1>1, <1>2
  <2> Good(by[m - 1], m - 1)
    BY <1>4
  <2>2. lines[m][1] \in Var /\ lines[m][2] \in Val
    BY <1>1, ElementOfSeq
  <2>3. /\ DOMAIN by[m] = DOMAIN by[m - 1] \cup {lines[m][1]}
        /\ by[m][lines[m][1]] = lines[m][2]
        /\ \A w \in DOMAIN by[m - 1] : w # lines[m][1] => by[m][w] = by[m - 1][w]
    <3>1. by[m] = Insert(by[m - 1], lines[m][1], lines[m][2])
      BY <1>2
    <3>2. IsInserted(by[m], by[m - 1], lines[m][1], lines[m][2])
      <4>1. ASSUME NEW w \in Var, NEW x \in Val
            PROVE  IsInserted(Insert(by[m - 1], w, x), by[m - 1], w, x)
        BY <2>1, InsertProperties
      <4>2. QED
        BY <2>2, <3>1, <4>1
    <3>3. QED
      BY <3>2 DEF IsInserted
  <2>4. \A i \in given : i \in Nat /\ (i <= m <=> i <= m - 1 \/ i = m)
    BY <1>1
  <2>5. CASE m \in given
    <3>1. lines[m][1] = v
      BY <2>5
    <3>2. v \in DOMAIN by[m] /\ by[m][v] = lines[m][2] /\ m <= m
      BY <1>1, <2>3, <3>1
    <3>3. ASSUME NEW i \in given, i <= m, \A j \in given : j <= m => j <= i PROVE i = m
      BY <2>4, <2>5, <3>2, <3>3
    <3>4. Good(by[m], m)
      BY <2>5, <3>2, <3>3
    <3>5. QED
      BY <2>1, <3>4
  <2>6. CASE m \notin given
    <3>1. lines[m][1] # v
      BY <1>1, <2>6
    <3>2. \A i \in given : i <= m <=> i <= m - 1
      BY <2>4, <2>6
    <3>3. v \in DOMAIN by[m] <=> v \in DOMAIN by[m - 1]
      BY <2>3, <3>1
    <3>4. v \in DOMAIN by[m - 1] => by[m][v] = by[m - 1][v]
      BY <2>3, <3>1
    <3>5. Good(by[m], m)
      BY <2>1, <3>2, <3>3, <3>4
    <3>6. QED
      BY <2>1, <3>5
  <2>7. QED
    BY <2>5, <2>6
<1>5. G = 0 .. n
  <2> HIDE DEF G
  <2>1. G \in SUBSET (0 .. n)
    BY DEF G
  <2>2. QED
    BY <1>1, <1>3, <1>4, <2>1, UptoInduction
<1>6. Good(env, n) /\ env \in EnvOf(Val) /\ \A i \in given : i <= n
  <2>1. n \in 0 .. n /\ by[n] = env /\ by[n] \in EnvOf(Val)
    <3> HIDE DEF G, Good
    <3>1. QED
      BY <1>1, <1>2
  <2>2. Good(env, n)
    BY <1>5, <2>1
  <2>3. QED
    BY <1>1, <2>1, <2>2
<1>7. given # {} => Max(given) \in given /\ \A j \in given : j <= Max(given)
  BY <1>1, MaxProperties
<1>8. QED
  BY <1>6, <1>7 DEF LastCounts

\* How what is passed gets into an environment, name by name.
LEMMA PassedByName ==
  ASSUME NEW T, NEW base \in EnvOf(T), NEW pass, NEW own, NEW D, NEW order \in Seq(D),
         \A old \in D \cap DOMAIN own : pass[old] \in Var /\ own[old] \in T
  PROVE  \E by \in [0 .. Len(order) -> EnvOf(T)] :
           /\ by[0] = base
           /\ by[Len(order)] = Passed(base, pass, own, order)
           /\ \A m \in 1 .. Len(order) :
                by[m] = IF order[m] \in DOMAIN own THEN Insert(by[m - 1], pass[order[m]], own[order[m]])
                        ELSE by[m - 1]
<1> DEFINE n == Len(order)
           V == EnvOf(T)
           Step(e, old) == IF old \in DOMAIN own THEN Insert(e, pass[old], own[old]) ELSE e
           Fold(it) == it = [s \in SUBSET DOMAIN order |->
                               IF s = {} THEN base
                               ELSE LET x == Max(s) IN Step(it[s \ {x}], order[x])]
           fold == CHOOSE it : Fold(it)
           step == [p \in (1 .. n) \X V |-> Step(p[2], order[p[1]])]
<1>1. Passed(base, pass, own, order) = fold[DOMAIN order]
  BY DEF Passed, FoldLeft, MapThenFoldSet
<1>2. n \in Nat /\ DOMAIN order = 1 .. n /\ base \in V
  BY LenProperties
<1>3. ASSUME NEW e \in V, NEW m \in 1 .. n PROVE Step(e, order[m]) \in V
  <2>1. order[m] \in D
    BY <1>2, ElementOfSeq
  <2>2. ASSUME NEW w \in Var, NEW x \in T PROVE Insert(e, w, x) \in V
    BY InsertProperties
  <2>3. QED
    BY <2>1, <2>2
<1> HIDE DEF Step, n, V
<1>4. step \in [(1 .. n) \X V -> V] /\ \A e \in V, m \in 1 .. n : step[<<m, e>>] = Step(e, order[m])
  BY <1>3
<1>5. \E it : Fold(it)
  <2> HIDE DEF step
  <2>1. PICK it \in [SUBSET (1 .. n) -> V] : IsFoldLeft(it, base, step, n)
    BY <1>2, <1>4, FoldLeftExists
  <2>2. ASSUME NEW s \in SUBSET (1 .. n), s # {}
        PROVE  step[<<Max(s), it[s \ {Max(s)}]>>] = Step(it[s \ {Max(s)}], order[Max(s)])
    <3>1. Max(s) \in 1 .. n /\ s \ {Max(s)} \in SUBSET (1 .. n)
      BY <1>2, <2>2, MaxProperties
    <3>2. QED
      BY <1>4, <3>1
  <2>3. Fold(it)
    BY <1>2, <2>1, <2>2 DEF IsFoldLeft
  <2>4. QED
    BY <2>3
<1>6. Fold(fold)
  <2> HIDE DEF Fold
  <2>1. QED
    BY <1>5
<1> HIDE DEF fold
<1>7. fold[{}] = base
  BY <1>6
<1>8. ASSUME NEW s \in SUBSET (1 .. n), s # {}, fold[s \ {Max(s)}] \in V
      PROVE  fold[s] = step[<<Max(s), fold[s \ {Max(s)}]>>]
  <2>1. Max(s) \in 1 .. n
    BY <1>2, <1>8, MaxProperties
  <2>2. fold[s] = Step(fold[s \ {Max(s)}], order[Max(s)])
    BY <1>2, <1>6, <1>8
  <2>3. QED
    BY <1>4, <1>8, <2>1, <2>2
<1> HIDE DEF step
<1>9. PICK by \in [0 .. n -> V] : TakesSteps(by, base, step, n) /\ by[n] = fold[1 .. n]
  <2>1. FoldsLeft(fold, base, step, n, V)
    BY <1>7, <1>8 DEF FoldsLeft
  <2>2. n \in Nat /\ base \in V /\ step \in [(1 .. n) \X V -> V]
    BY <1>2, <1>4
  <2>3. StepsLeadTo(fold[1 .. n], base, step, n, V)
    BY <2>1, <2>2, FoldLeftByStep
  <2>4. QED
    BY <2>3 DEF StepsLeadTo
<1>10. ASSUME NEW m \in 1 .. n PROVE by[m] = Step(by[m - 1], order[m])
  <2>1. m - 1 \in 0 .. n
    BY <1>2
  <2>2. QED
    BY <1>4, <1>9, <2>1 DEF TakesSteps
<1>11. QED
  BY <1>1, <1>2, <1>9, <1>10 DEF n, V, Step, TakesSteps

\* A variable that anything is passed as has the value of something that is; any other
\* is left alone.
LEMMA PassedProperties ==
  ASSUME NEW T, NEW base \in EnvOf(T), NEW pass, NEW own, NEW D, NEW order \in Seq(D),
         \A old \in D \cap DOMAIN own : pass[old] \in Var /\ own[old] \in T,
         NEW v \in Var,
         NEW env, env = Passed(base, pass, own, order),
         NEW given, given = {i \in DOMAIN order : order[i] \in DOMAIN own /\ pass[order[i]] = v}
  PROVE  /\ env \in EnvOf(T)
         /\ given # {} => v \in DOMAIN env /\ \E i \in given : env[v] = own[order[i]]
         /\ given = {} => (v \in DOMAIN env <=> v \in DOMAIN base) /\ (v \in DOMAIN base => env[v] = base[v])
<1> DEFINE n == Len(order)
<1>1. n \in Nat /\ DOMAIN order = 1 .. n /\ given \subseteq 1 .. n
  BY LenProperties
<1>2. PICK by \in [0 .. n -> EnvOf(T)] :
        /\ by[0] = base
        /\ by[n] = env
        /\ \A m \in 1 .. n :
             by[m] = IF order[m] \in DOMAIN own THEN Insert(by[m - 1], pass[order[m]], own[order[m]])
                     ELSE by[m - 1]
  BY PassedByName
<1> HIDE DEF n
<1> DEFINE Good(e, m) ==
             /\ (\E i \in given : i <= m) => v \in DOMAIN e /\ \E i \in given : e[v] = own[order[i]]
             /\ (\A i \in given : i > m)
                  => (v \in DOMAIN e <=> v \in DOMAIN base) /\ (v \in DOMAIN base => e[v] = base[v])
           G == {m \in 0 .. n : Good(by[m], m)}
<1>3. 0 \in G
  <2>1. 0 \in 0 .. n /\ \A i \in given : ~(i <= 0)
    BY <1>1
  <2>2. QED
    BY <1>2, <2>1
<1>4. ASSUME NEW m \in 1 .. n, m - 1 \in G PROVE m \in G
  <2>1. m - 1 \in 0 .. n /\ m \in 0 .. n /\ by[m - 1] \in EnvOf(T)
    BY <1>1, <1>2
  <2> Good(by[m - 1], m - 1)
    BY <1>4
  <2>2. \A i \in given : i \in Nat /\ (i <= m <=> i <= m - 1 \/ i = m) /\ (i > m - 1 <=> i > m \/ i = m)
    BY <1>1
  <2>3. CASE order[m] \in DOMAIN own
    <3>1. pass[order[m]] \in Var /\ own[order[m]] \in T
      BY <1>1, <2>3, ElementOfSeq
    <3>2. IsInserted(by[m], by[m - 1], pass[order[m]], own[order[m]])
      <4>1. ASSUME NEW w \in Var, NEW x \in T
            PROVE  IsInserted(Insert(by[m - 1], w, x), by[m - 1], w, x)
        BY <2>1, InsertProperties
      <4>2. QED
        BY <1>2, <2>3, <3>1, <4>1
    <3>3. CASE m \in given
      <4>1. v \in DOMAIN by[m] /\ by[m][v] = own[order[m]]
        BY <3>2, <3>3 DEF IsInserted
      <4>2. ~(\A i \in given : i > m)
        BY <1>1, <3>3
      <4>3. Good(by[m], m)
        BY <3>3, <4>1, <4>2
      <4>4. QED
        BY <2>1, <4>3
    <3>4. CASE m \notin given
      <4>1. pass[order[m]] # v
        BY <1>1, <2>3, <3>4
      <4>2. /\ v \in DOMAIN by[m] <=> v \in DOMAIN by[m - 1]
            /\ v \in DOMAIN by[m - 1] => by[m][v] = by[m - 1][v]
        BY <3>2, <4>1 DEF IsInserted
      <4>3. \A i \in given : (i <= m <=> i <= m - 1) /\ (i > m <=> i > m - 1)
        BY <2>2, <3>4
      <4>4. Good(by[m], m)
        BY <4>2, <4>3
      <4>5. QED
        BY <2>1, <4>4
    <3>5. QED
      BY <3>3, <3>4
  <2>4. CASE order[m] \notin DOMAIN own
    <3>1. by[m] = by[m - 1] /\ m \notin given
      BY <1>2, <2>4
    <3>2. \A i \in given : (i <= m <=> i <= m - 1) /\ (i > m <=> i > m - 1)
      BY <2>2, <3>1
    <3>3. Good(by[m], m)
      BY <3>1, <3>2
    <3>4. QED
      BY <2>1, <3>3
  <2>5. QED
    BY <2>3, <2>4
<1>5. G = 0 .. n
  <2> HIDE DEF G
  <2>1. G \in SUBSET (0 .. n)
    BY DEF G
  <2>2. QED
    BY <1>1, <1>3, <1>4, <2>1, UptoInduction
<1>6. Good(env, n) /\ env \in EnvOf(T) /\ \A i \in given : i <= n
  <2>1. n \in 0 .. n /\ by[n] = env /\ by[n] \in EnvOf(T)
    <3> HIDE DEF G, Good
    <3>1. QED
      BY <1>1, <1>2
  <2>2. Good(env, n)
    BY <1>5, <2>1
  <2>3. QED
    BY <1>1, <2>1, <2>2
<1>7. QED
  BY <1>6

\* A sequence of a finite set's elements, each once, has them all.
LEMMA SeqsProperties ==
  ASSUME NEW D, IsFiniteSet(D), NEW order \in SetToSeqs(D)
  PROVE  order \in Seq(D) /\ \A d \in D : \E i \in DOMAIN order : order[i] = d
<1> DEFINE n == Cardinality(D)
<1>1. n \in Nat
  BY FS_CardinalityType
<1>2. order \in [1 .. n -> D] /\ \A i, j \in 1 .. n : i # j => order[i] # order[j]
  BY DEF SetToSeqs
<1>3. order \in Seq(D)
  BY <1>1, <1>2, SeqDef
<1>4. order \in Injection(1 .. n, D)
  BY <1>2 DEF Injection, IsInjective
<1>5. Cardinality(1 .. n) = n
  <2> HIDE DEF n
  <2>1. QED
    BY <1>1, FS_Interval
<1>6. order \in Surjection(1 .. n, D)
  BY <1>4, <1>5, FS_Injection
<1>7. QED
  BY <1>2, <1>3, <1>6 DEF Surjection

\* The layers, one above the other.
IsLayered(env, v, entry, passed, fromFile) ==
  /\ v \in DOMAIN entry.new => env[v] = entry.new[v]
  /\ v \notin DOMAIN entry.new /\ passed # {} => env[v] \in passed
  /\ v \notin DOMAIN entry.new /\ passed = {} /\ fromFile # {} => env[v] = entry.lines[Max(fromFile)][2]
  /\ v \notin DOMAIN entry.new /\ passed = {} /\ fromFile = {} => v \notin DOMAIN env

LEMMA Layers ==
  ASSUME NEW entry, IsEntry(entry), NEW own, NEW env \in Environments(entry, own), NEW v \in Var,
         NEW passed, passed = {own[old] : old \in {o \in DOMAIN entry.pass \cap DOMAIN own : entry.pass[o] = v}},
         NEW fromFile, fromFile = {i \in DOMAIN entry.lines : entry.lines[i][1] = v}
  PROVE  IsLayered(env, v, entry, passed, fromFile)
<1> DEFINE T == Val \cup {own[o] : o \in DOMAIN own}
           D == DOMAIN entry.pass
           base == ReadEnvFile(entry.lines)
<1>1. /\ entry.lines \in Seq(Var \X Val)
      /\ IsFiniteSet(D)
      /\ \A old \in D \cap DOMAIN own : entry.pass[old] \in Var /\ own[old] \in T
  BY DEF IsEntry, Within
<1>2. PICK order \in SetToSeqs(D) : env = InsertAll(Passed(base, entry.pass, own, order), entry.new)
  BY DEF Environments
<1> DEFINE mid == Passed(base, entry.pass, own, order)
           given == {i \in DOMAIN order : order[i] \in DOMAIN own /\ entry.pass[order[i]] = v}
<1>3. base \in EnvOf(Val) /\ LastCounts(base, v, entry.lines, fromFile)
  <2> HIDE DEF base
  <2>1. base = ReadEnvFile(entry.lines)
    BY DEF base
  <2>2. QED
    BY <1>1, <2>1, FileProperties
<1>4. order \in Seq(D) /\ \A d \in D : \E i \in DOMAIN order : order[i] = d
  <2> HIDE DEF D
  <2>1. QED
    BY <1>1, SeqsProperties
<1> HIDE DEF T, D, base
<1>5. base \in EnvOf(T)
  <2>1. base = [w \in DOMAIN base |-> base[w]] /\ Within(base, Var, Val)
    BY <1>3, EnvOfProperties
  <2>2. Within(base, Var, T)
    BY <2>1 DEF Within, T
  <2>3. QED
    BY <2>1, <2>2, EnvOfProperties
<1>6. /\ given # {} => v \in DOMAIN mid /\ \E i \in given : mid[v] = own[order[i]]
      /\ given = {} => (v \in DOMAIN mid <=> v \in DOMAIN base) /\ (v \in DOMAIN base => mid[v] = base[v])
  <2> HIDE DEF mid, given
  <2>1. /\ mid = Passed(base, entry.pass, own, order)
        /\ given = {i \in DOMAIN order : order[i] \in DOMAIN own /\ entry.pass[order[i]] = v}
    BY DEF mid, given
  <2>2. QED
    BY <1>1, <1>4, <1>5, <2>1, PassedProperties
<1>7. \A i \in DOMAIN order : order[i] \in D
  BY <1>4, LenProperties, ElementOfSeq
<1>8. given # {} <=> passed # {}
  BY <1>4, <1>7 DEF D
<1>9. \A i \in given : own[order[i]] \in passed
  BY <1>7 DEF D
<1> HIDE DEF mid, given
<1>10. env = [w \in DOMAIN mid \cup DOMAIN entry.new |-> IF w \in DOMAIN entry.new THEN entry.new[w] ELSE mid[w]]
  BY <1>2 DEF InsertAll, mid
<1>11. /\ v \in DOMAIN entry.new => env[v] = entry.new[v]
       /\ v \notin DOMAIN entry.new /\ v \in DOMAIN mid => env[v] = mid[v]
       /\ v \notin DOMAIN entry.new /\ v \notin DOMAIN mid => v \notin DOMAIN env
  BY <1>10
<1>12. QED
  BY <1>3, <1>6, <1>8, <1>9, <1>11 DEF LastCounts, IsLayered

\* A variable has the value that env gives it anew, or else one that is passed, or
\* else that of the last line for it in the env_file, and none if there is none, in
\* whatever order the names to pass are gone through.
THEOREM EnvCorrect == StartupSpec => []EnvIsLayered
<1>1. ReadTypeOK /\ Written => EnvIsLayered
  <2> SUFFICES ASSUME ReadTypeOK, Written, NEW n \in DOMAIN apps, NEW v \in Var
               PROVE  LET env     == apps[n].env
                          entry   == file.applications[apps[n].id]
                          passed(w)  == {Own[old] : old \in {o \in DOMAIN entry.pass \cap DOMAIN Own : entry.pass[o] = w}}
                          fromFile(w) == {i \in DOMAIN entry.lines : entry.lines[i][1] = w}
                      IN IF v \in DOMAIN entry.new THEN env[v] = entry.new[v]
                         ELSE IF passed(v) # {} THEN env[v] \in passed(v)
                         ELSE IF fromFile(v) # {} THEN env[v] = entry.lines[Max(fromFile(v))][2]
                         ELSE v \notin DOMAIN env
    BY DEF EnvIsLayered
  <2> DEFINE env == apps[n].env
             entry == file.applications[apps[n].id]
             passed == {Own[old] : old \in {o \in DOMAIN entry.pass \cap DOMAIN Own : entry.pass[o] = v}}
             fromFile == {i \in DOMAIN entry.lines : entry.lines[i][1] = v}
  <2>1. IsEntry(entry) /\ env \in Environments(entry, Own)
    BY SoundLimits DEF Written
  <2> HIDE DEF env, entry
  <2>2. IsLayered(env, v, entry, passed, fromFile)
    <3> HIDE DEF passed, fromFile
    <3>1. /\ passed = {Own[old] : old \in {o \in DOMAIN entry.pass \cap DOMAIN Own : entry.pass[o] = v}}
          /\ fromFile = {i \in DOMAIN entry.lines : entry.lines[i][1] = v}
      BY DEF passed, fromFile
    <3>2. QED
      BY <2>1, <3>1, Layers
  <2>3. IF v \in DOMAIN entry.new THEN env[v] = entry.new[v]
        ELSE IF passed # {} THEN env[v] \in passed
        ELSE IF fromFile # {} THEN env[v] = entry.lines[Max(fromFile)][2]
        ELSE v \notin DOMAIN env
    <3> HIDE DEF passed, fromFile
    <3>1. QED
      BY <2>2 DEF IsLayered
  <2>4. QED
    BY <2>3 DEF env, entry
<1>2. QED
  BY <1>1, WrittenCorrect, StartupTypeCorrect, PTL
=============================================================================
