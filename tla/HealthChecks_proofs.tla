------------------------- MODULE HealthChecks_proofs -------------------------
(***************************************************************************)
(* For all checks, intervals, timeouts and bounds: the types, how few      *)
(* probes can hang, and that no alarm is false and none is kept back.      *)
(***************************************************************************)
EXTENDS HealthChecks, FoldLemmas, SequenceTheorems, TLAPS

-----------------------------------------------------------------------------
(* About sequences.                                                        *)

\* What is left when an element is taken out.
LEMMA RemoveAtProperties ==
  ASSUME NEW S, NEW s \in Seq(S), NEW i \in DOMAIN s
  PROVE  /\ RemoveAt(s, i) \in Seq(S)
         /\ Len(RemoveAt(s, i)) = Len(s) - 1
         /\ DOMAIN RemoveAt(s, i) = 1 .. Len(s) - 1
         /\ \A j \in 1 .. Len(s) - 1 : RemoveAt(s, i)[j] = IF j < i THEN s[j] ELSE s[j + 1]
<1>1. Len(s) \in Nat /\ i \in 1 .. Len(s) /\ DOMAIN s = 1 .. Len(s)
  BY LenProperties
<1> DEFINE front == SubSeq(s, 1, i - 1)
           back  == SubSeq(s, i + 1, Len(s))
<1>2. \A j \in 1 .. Len(s) : s[j] \in S
  BY <1>1, ElementOfSeq
<1>3. /\ front \in Seq(S) /\ Len(front) = i - 1
      /\ \A j \in 1 .. i - 1 : front[j] = s[j]
  <2>1. /\ front \in Seq(S)
        /\ Len(front) = IF 1 <= i - 1 THEN i - 1 - 1 + 1 ELSE 0
        /\ \A j \in 1 .. i - 1 - 1 + 1 : front[j] = s[1 + j - 1]
    BY <1>1, <1>2, SubSeqProperties
  <2>2. QED
    BY <1>1, <2>1
<1>4. /\ back \in Seq(S) /\ Len(back) = Len(s) - i
      /\ \A j \in 1 .. Len(s) - i : back[j] = s[i + j]
  <2>1. /\ back \in Seq(S)
        /\ Len(back) = IF i + 1 <= Len(s) THEN Len(s) - (i + 1) + 1 ELSE 0
        /\ \A j \in 1 .. Len(s) - (i + 1) + 1 : back[j] = s[i + 1 + j - 1]
    BY <1>1, <1>2, SubSeqProperties
  <2>2. QED
    BY <1>1, <2>1
<1> HIDE DEF front, back
<1>5. /\ front \o back \in Seq(S)
      /\ Len(front \o back) = Len(front) + Len(back)
      /\ \A j \in 1 .. Len(front) + Len(back) :
           (front \o back)[j] = IF j <= Len(front) THEN front[j] ELSE back[j - Len(front)]
  BY <1>3, <1>4, ConcatProperties
<1>6. DOMAIN (front \o back) = 1 .. Len(front \o back)
  BY <1>5, LenProperties
<1>7. ASSUME NEW j \in 1 .. Len(s) - 1
      PROVE  (front \o back)[j] = IF j < i THEN s[j] ELSE s[j + 1]
  <2>1. CASE j < i
    BY <1>1, <1>3, <1>4, <1>5, <2>1
  <2>2. CASE ~(j < i)
    <3>1. (front \o back)[j] = back[j - (i - 1)]
      BY <1>1, <1>3, <1>4, <1>5, <2>2
    <3>2. j - (i - 1) \in 1 .. Len(s) - i
      BY <1>1, <2>2
    <3>3. back[j - (i - 1)] = s[i + (j - (i - 1))] /\ i + (j - (i - 1)) = j + 1
      BY <1>1, <1>4, <3>2
    <3>4. QED
      BY <2>2, <3>1, <3>3
  <2>3. QED
    BY <2>1, <2>2
<1>8. RemoveAt(s, i) = front \o back
  BY DEF RemoveAt, front, back
<1>9. Len(front) + Len(back) = Len(s) - 1
  BY <1>1, <1>3, <1>4
<1>10. QED
  BY <1>5, <1>6, <1>7, <1>8, <1>9

\* Nothing that is appended leaves a sequence as it was.
LEMMA AppendChanges ==
  ASSUME NEW S, NEW s \in Seq(S), NEW a \in S
  PROVE  s # Append(s, a) /\ (s # <<>> => Tail(s) # Append(s, a))
<1>1. Len(s) \in Nat /\ Len(Append(s, a)) = Len(s) + 1
  BY AppendProperties, LenProperties
<1>2. s # <<>> => Len(Tail(s)) = Len(s) - 1
  BY HeadTailProperties
<1>3. QED
  BY <1>1, <1>2

-----------------------------------------------------------------------------
(* Type correctness.                                                       *)

Hanging == {p \in Probe : Busy(p)}

LEMMA OlderIsProbe ==
  ASSUME NEW p \in Probe
  PROVE  /\ Older(p) \in Probe /\ Older(p).st = p.st /\ Older(p).ok = p.ok
         /\ Busy(Older(p)) <=> Busy(p)
         /\ Busy(p) => Older(p).age = p.age + 1
BY DEF Older, Probe, Busy

LEMMA FoundIsProbe ==
  ASSUME NEW c \in Check, NEW p \in Probe, MayLook(c, p)
  PROVE  /\ Found(c, p) \in Probe /\ Busy(Found(c, p)) /\ Busy(p)
         /\ Found(c, p).st = "found" /\ Found(c, p).age = p.age
<1>1. Well(c) \in BOOLEAN
  <2>1. KindOf[c] \in {"df", "proc", "tcp"}
    BY HealthChecksAssumption
  <2>2. DfCheck(c) \in BOOLEAN /\ ProcCheck(c) \in BOOLEAN /\ TcpCheck(c) \in BOOLEAN
    BY DEF DfCheck, ProcCheck, TcpCheck
  <2>3. QED
    BY <2>1, <2>2, Zenon DEF Well
<1>2. QED
  BY <1>1 DEF Found, MayLook, Probe, Busy

\* What a probe that was given up may turn into.
LEMMA LostIsTyped ==
  ASSUME NEW c \in Check, NEW s \in Seq(Hanging), NEW i \in DOMAIN s
  PROVE  /\ MayLook(c, s[i]) => [s EXCEPT ![i] = Found(c, @)] \in Seq(Hanging)
         /\ RemoveAt(s, i) \in Seq(Hanging)
<1>1. /\ Len(s) \in Nat /\ DOMAIN s = 1 .. Len(s) /\ i \in 1 .. Len(s)
      /\ \A j \in 1 .. Len(s) : s[j] \in Hanging
  BY LenProperties, ElementOfSeq
<1>2. ASSUME MayLook(c, s[i]) PROVE [s EXCEPT ![i] = Found(c, @)] \in Seq(Hanging)
  <2>1. Found(c, s[i]) \in Hanging
    BY <1>1, <1>2, FoundIsProbe DEF Hanging
  <2>2. QED
    BY <1>1, <2>1, ExceptSeq
<1>3. QED
  BY <1>2, RemoveAtProperties

LEMMA OlderIsTyped ==
  ASSUME NEW s \in Seq(Hanging)
  PROVE  [j \in DOMAIN s |-> Older(s[j])] \in Seq(Hanging)
<1>1. /\ Len(s) \in Nat /\ DOMAIN s = 1 .. Len(s)
      /\ \A j \in 1 .. Len(s) : s[j] \in Hanging
  BY LenProperties, ElementOfSeq
<1>2. \A j \in 1 .. Len(s) : Older(s[j]) \in Hanging
  BY <1>1, OlderIsProbe DEF Hanging
<1>3. QED
  BY <1>1, <1>2, IsASeq

\* Type correctness.
THEOREM TypeCorrect == Spec => []TypeOK
<1> USE HealthChecksAssumption
<1>1. Init => TypeOK
  <2> SUFFICES ASSUME Init PROVE TypeOK
    OBVIOUS
  <2>1. ASSUME NEW c \in Check PROVE due[c] \in -MaxLate .. Interval[c]
    <3>1. due[c] \in Nat /\ Interval[c] \in Nat /\ MaxLate \in Nat
      <4>1. \A d \in Check : 0 .. Interval[d] \subseteq Nat
        OBVIOUS
      <4>2. due[c] \in UNION {0 .. Interval[d] : d \in Check}
        BY DEF Init, FirstDue
      <4>3. QED
        BY <4>1, <4>2
    <3>2. due[c] = 0 \/ due[c] < Interval[c]
      BY DEF Init, FirstDue
    <3>3. QED
      BY <3>1, <3>2
  <2>2. due \in [Check -> Int]
    <3>1. \A c \in Check : due[c] \in Int
      BY <2>1
    <3>2. QED
      BY <3>1 DEF Init, FirstDue
  <2>3. NoProbe \in Probe
    BY DEF NoProbe, Probe
  <2>4. /\ lost \in [Check -> Seq({p \in Probe : Busy(p)})]
        /\ alarms \in Seq(Check)
    BY DEF Init
  <2>5. probe \in [Check -> Probe] /\ alive \in SUBSET Check
    BY <2>3 DEF Init
  <2>6. QED
    BY <2>1, <2>2, <2>4, <2>5 DEF Init, TypeOK
<1>2. TypeOK /\ [Next]_vars => TypeOK'
  <2> SUFFICES ASSUME TypeOK, [Next]_vars PROVE TypeOK'
    OBVIOUS
  <2>1. ASSUME NEW c \in Check, Begin(c) PROVE TypeOK'
    <3>1. NewProbe \in Probe /\ {Condition(c)} \subseteq {"well", "ill", "silent"}
      BY DEF NewProbe, Probe, Condition
    <3>2. due' \in [Check -> Int] /\ \A d \in Check : due'[d] \in -MaxLate .. Interval[d]
      BY <2>1 DEF Begin, TypeOK, Time
    <3>3. /\ alive' \in SUBSET Check /\ probe' \in [Check -> Probe]
          /\ seen' \in [Check -> SUBSET {"well", "ill", "silent"}]
      <4>1. CASE Threads < limit
        <5>1. /\ probe' = [probe EXCEPT ![c] = NewProbe] /\ alive' = alive
              /\ seen' = [seen EXCEPT ![c] = {Condition(c)}]
          BY <2>1, <4>1 DEF Begin
        <5>2. QED
          BY <3>1, <5>1 DEF TypeOK
      <4>2. CASE ~(Threads < limit)
        BY <2>1, <4>2 DEF Begin, TypeOK
      <4>3. QED
        BY <4>1, <4>2
    <3>4. QED
      BY <2>1, <3>2, <3>3 DEF Begin, TypeOK
  <2>2. ASSUME NEW c \in Check, Accept(c) PROVE TypeOK'
    <3>1. NoProbe \in Probe
      BY DEF NoProbe, Probe
    <3>2. alive' \in SUBSET Check /\ alarms' \in Seq(Check)
      <4>1. CASE UNCHANGED <<alive, alarms>>
        BY <4>1 DEF TypeOK
      <4>2. CASE Raise(c)
        BY <4>2, AppendProperties DEF Raise, TypeOK
      <4>3. QED
        BY <2>2, <4>1, <4>2 DEF Accept
    <3>3. probe' \in [Check -> Probe] /\ seen' \in [Check -> SUBSET {"well", "ill", "silent"}]
      BY <2>2, <3>1 DEF Accept, TypeOK
    <3>4. QED
      BY <2>2, <3>2, <3>3 DEF Accept, TypeOK
  <2>3. ASSUME NEW c \in Check, GiveUp(c) PROVE TypeOK'
    <3>1. NoProbe \in Probe
      BY DEF NoProbe, Probe
    <3>2. alive' \in SUBSET Check /\ alarms' \in Seq(Check)
      BY <2>3, AppendProperties DEF GiveUp, Raise, TypeOK
    <3>3. Append(lost[c], probe[c]) \in Seq({p \in Probe : Busy(p)})
      <4>1. probe[c] \in {p \in Probe : Busy(p)}
        BY <2>3 DEF GiveUp, Overdue, TypeOK
      <4>2. QED
        BY <4>1, AppendProperties DEF TypeOK
    <3>4. QED
      BY <2>3, <3>1, <3>2, <3>3 DEF GiveUp, TypeOK
  <2>4. ASSUME NEW c \in Check, Look(c) PROVE TypeOK'
    <3>1. Found(c, probe[c]) \in Probe
      BY <2>4, FoundIsProbe DEF Look, TypeOK
    <3>2. QED
      BY <2>4, <3>1 DEF Look, TypeOK
  <2>5. ASSUME NEW c \in Check, Answer(c) PROVE TypeOK'
    <3>1. Answered(probe[c].ok) \in Probe
      BY DEF Answered, Probe, TypeOK
    <3>2. QED
      BY <2>5, <3>1 DEF Answer, TypeOK
  <2>6. ASSUME NEW c \in Check, NEW i \in DOMAIN lost[c], LookLate(c, i) PROVE TypeOK'
    <3>1. [lost[c] EXCEPT ![i] = Found(c, @)] \in Seq(Hanging)
      BY <2>6, LostIsTyped DEF LookLate, TypeOK, Hanging
    <3>2. QED
      BY <2>6, <3>1 DEF LookLate, TypeOK, Hanging
  <2>7. ASSUME NEW c \in Check, NEW i \in DOMAIN lost[c], AnswerLate(c, i) PROVE TypeOK'
    <3>1. RemoveAt(lost[c], i) \in Seq(Hanging)
      BY LostIsTyped DEF TypeOK, Hanging
    <3>2. QED
      BY <2>7, <3>1 DEF AnswerLate, TypeOK, Hanging
  <2>8. ASSUME NEW c \in Check, Change(c) PROVE TypeOK'
    <3>1. Condition(c)' \in {"well", "ill", "silent"}
      BY DEF Condition
    <3>2. seen' \in [Check -> SUBSET {"well", "ill", "silent"}]
      BY <2>8, <3>1 DEF Change, TypeOK
    <3>3. world' \in Worlds
      <4>1. PICK new \in World(c) : world' = [world EXCEPT ![c] = new]
        BY <2>8 DEF Change
      <4>2. /\ world \in [Check -> UNION {World(d) : d \in Check}]
            /\ \A d \in Check : world[d] \in World(d)
        BY DEF TypeOK, Worlds
      <4>3. QED
        BY <4>1, <4>2 DEF Worlds
    <3>4. QED
      BY <2>8, <3>2, <3>3 DEF Change, TypeOK
  <2>9. CASE Hear
    BY <2>9, HeadTailProperties DEF Hear, TypeOK
  <2>10. CASE Tick
    <3>1. due' \in [Check -> Int] /\ \A d \in Check : due'[d] \in -MaxLate .. Interval[d]
      BY <2>10 DEF Tick, Sooner, TypeOK
    <3>2. probe' \in [Check -> Probe]
      BY <2>10, OlderIsProbe DEF Tick, TypeOK
    <3>3. lost' \in [Check -> Seq(Hanging)]
      <4>1. ASSUME NEW c \in Check PROVE [j \in DOMAIN lost[c] |-> Older(lost[c][j])] \in Seq(Hanging)
        BY OlderIsTyped DEF TypeOK, Hanging
      <4>2. QED
        BY <2>10, <4>1 DEF Tick
    <3>4. QED
      BY <2>10, <3>1, <3>2, <3>3 DEF Tick, TypeOK, Hanging
  <2>11. CASE HearNothing
    <3>1. lost' \in [Check -> Seq({p \in Probe : Busy(p)})]
      BY <2>11 DEF HearNothing
    <3>2. QED
      BY <2>11, <3>1 DEF HearNothing, TypeOK
  <2>12. CASE UNCHANGED vars
    BY <2>12 DEF vars, TypeOK
  <2>13. QED
    BY <2>1, <2>2, <2>3, <2>4, <2>5, <2>6, <2>7, <2>8, <2>9, <2>10, <2>11, <2>12
    DEF Next, Round, Probes
<1>3. QED
  BY <1>1, <1>2, PTL DEF Spec

-----------------------------------------------------------------------------
(* How few probes can hang.                                                *)

\* For how long a check has waited for its probe.
Waiting(p) == IF Busy(p) THEN p.age ELSE 0

\* The probes that a check has given up are a timeout apart from one another, and
\* the last of them from the one that it waits for.
Spaced(c, p, s) ==
  /\ Waiting(p) <= Patience[c]
  /\ \A i \in DOMAIN s :
       /\ s[i].age <= Patience[c]
       /\ Timeout[c] * (Len(s) - i + 1) + Waiting(p) <= s[i].age

Ages == \A c \in Check : Spaced(c, probe[c], lost[c])

LEMMA SpacedLess ==
  ASSUME NEW c \in Check, NEW p \in Probe, NEW q \in Probe, NEW s \in Seq(Hanging),
         Spaced(c, p, s), Waiting(q) <= Waiting(p)
  PROVE  Spaced(c, q, s)
<1>1. Waiting(p) \in Nat /\ Waiting(q) \in Nat /\ Patience[c] \in Nat
  BY HealthChecksAssumption DEF Waiting, Probe
<1>2. ASSUME NEW i \in DOMAIN s
      PROVE  Timeout[c] * (Len(s) - i + 1) + Waiting(q) <= s[i].age
  <2>1. s[i].age \in Nat /\ Timeout[c] * (Len(s) - i + 1) \in Int
    BY HealthChecksAssumption, LenProperties, ElementOfSeq DEF Hanging, Probe
  <2>2. Timeout[c] * (Len(s) - i + 1) + Waiting(p) <= s[i].age
    BY DEF Spaced
  <2>3. QED
    BY <1>1, <2>1, <2>2
<1>3. QED
  BY <1>1, <1>2 DEF Spaced

LEMMA SpacedGivenUp ==
  ASSUME NEW c \in Check, NEW p \in Hanging, NEW s \in Seq(Hanging),
         Spaced(c, p, s), p.age >= Timeout[c]
  PROVE  Spaced(c, NoProbe, Append(s, p))
<1>1. /\ Append(s, p) \in Seq(Hanging) /\ Len(Append(s, p)) = Len(s) + 1
      /\ \A i \in 1 .. Len(s) : Append(s, p)[i] = s[i]
      /\ Append(s, p)[Len(s) + 1] = p
      /\ DOMAIN Append(s, p) = 1 .. Len(s) + 1 /\ DOMAIN s = 1 .. Len(s) /\ Len(s) \in Nat
  BY AppendProperties, LenProperties
<1>2. /\ Waiting(NoProbe) = 0 /\ Waiting(p) = p.age /\ p.age \in Nat
      /\ Timeout[c] \in Nat /\ Patience[c] \in Nat
  BY HealthChecksAssumption DEF Waiting, NoProbe, Busy, Hanging, Probe
<1>3. ASSUME NEW i \in 1 .. Len(s) + 1
      PROVE  /\ Append(s, p)[i].age <= Patience[c]
             /\ Timeout[c] * (Len(s) + 1 - i + 1) + 0 <= Append(s, p)[i].age
  <2>1. CASE i = Len(s) + 1
    <3>1. Timeout[c] * (Len(s) + 1 - i + 1) = Timeout[c]
      BY <1>1, <1>2, <2>1
    <3>2. QED
      BY <1>1, <1>2, <2>1, <3>1 DEF Spaced
  <2>2. CASE i \in 1 .. Len(s)
    <3>1. s[i].age \in Nat
      BY <1>1, <2>2, ElementOfSeq DEF Hanging, Probe
    <3>2. s[i].age <= Patience[c] /\ Timeout[c] * (Len(s) - i + 1) + p.age <= s[i].age
      BY <1>1, <1>2, <2>2 DEF Spaced
    <3>3. Timeout[c] * (Len(s) + 1 - i + 1) = Timeout[c] * (Len(s) - i + 1) + Timeout[c]
      BY <1>1, <1>2
    <3>4. Timeout[c] * (Len(s) - i + 1) \in Int
      BY <1>1, <1>2
    <3>5. QED
      BY <1>1, <1>2, <2>2, <3>1, <3>2, <3>3, <3>4
  <2>3. QED
    BY <1>1, <2>1, <2>2
<1>4. QED
  BY <1>1, <1>2, <1>3 DEF Spaced

LEMMA SpacedFound ==
  ASSUME NEW c \in Check, NEW p \in Probe, NEW s \in Seq(Hanging), NEW i \in DOMAIN s,
         Spaced(c, p, s), MayLook(c, s[i])
  PROVE  Spaced(c, p, [s EXCEPT ![i] = Found(c, @)])
<1> DEFINE t == [s EXCEPT ![i] = Found(c, @)]
<1>1. /\ t \in Seq(Hanging) /\ DOMAIN t = DOMAIN s /\ DOMAIN s = 1 .. Len(s)
      /\ Len(t) = Len(s)
  BY LostIsTyped, LenProperties, ExceptSeq
<1>2. \A j \in DOMAIN s : t[j].age = s[j].age
  BY <1>1, FoundIsProbe, ElementOfSeq DEF Hanging
<1>3. QED
  BY <1>1, <1>2 DEF Spaced

LEMMA OneMore ==
  ASSUME NEW t \in Int, NEW k \in Int
  PROVE  t * (k + 1) = t * k + t
OBVIOUS

LEMMA SpacedRemoved ==
  ASSUME NEW c \in Check, NEW p \in Probe, NEW s \in Seq(Hanging), NEW i \in DOMAIN s,
         Spaced(c, p, s)
  PROVE  Spaced(c, p, RemoveAt(s, i))
<1> DEFINE t == RemoveAt(s, i)
<1>1. /\ Len(t) = Len(s) - 1 /\ DOMAIN t = 1 .. Len(s) - 1
      /\ \A j \in 1 .. Len(s) - 1 : t[j] = IF j < i THEN s[j] ELSE s[j + 1]
  BY RemoveAtProperties
<1>2. DOMAIN s = 1 .. Len(s) /\ Len(s) \in Nat /\ i \in 1 .. Len(s)
  BY LenProperties
<1>3. /\ Waiting(p) \in Nat /\ Timeout[c] \in Nat /\ Patience[c] \in Nat
      /\ \A j \in 1 .. Len(s) : s[j].age \in Nat
  BY <1>2, HealthChecksAssumption, ElementOfSeq DEF Waiting, Probe, Hanging
<1> HIDE DEF t
<1>4. ASSUME NEW j \in 1 .. Len(s) - 1
      PROVE  /\ t[j].age <= Patience[c]
             /\ Timeout[c] * (Len(s) - 1 - j + 1) + Waiting(p) <= t[j].age
  <2>1. CASE j < i
    <3>1. t[j] = s[j] /\ j \in 1 .. Len(s)
      BY <1>1, <1>2, <2>1
    <3>2. s[j].age <= Patience[c] /\ Timeout[c] * (Len(s) - j + 1) + Waiting(p) <= s[j].age
      BY <1>2, <3>1 DEF Spaced
    <3>3. Timeout[c] * (Len(s) - j + 1) = Timeout[c] * (Len(s) - 1 - j + 1) + Timeout[c]
      <4> DEFINE k == Len(s) - 1 - j + 1
      <4>1. Timeout[c] * (k + 1) = Timeout[c] * k + Timeout[c]
        <5>1. k \in Int /\ Timeout[c] \in Int
          BY <1>2, <1>3
        <5>2. QED
          BY <5>1, OneMore
      <4>2. Len(s) - j + 1 = k + 1
        BY <1>2
      <4>3. QED
        BY <4>1, <4>2
    <3>4. Timeout[c] * (Len(s) - 1 - j + 1) \in Int
      BY <1>2, <1>3
    <3>5. Timeout[c] * (Len(s) - 1 - j + 1) + Waiting(p) <= s[j].age
      <4>1. ASSUME NEW x \in Int, NEW y \in Int, NEW d \in Nat, NEW w \in Nat, NEW age \in Nat,
                   x = y + d, x + w <= age
            PROVE  y + w <= age
        BY <4>1
      <4>2. s[j].age \in Nat
        BY <1>3, <3>1
      <4> DEFINE y == Timeout[c] * (Len(s) - 1 - j + 1)
                 x == Timeout[c] * (Len(s) - j + 1)
      <4>3. y \in Int /\ x = y + Timeout[c] /\ x + Waiting(p) <= s[j].age
        BY <3>2, <3>3, <3>4
      <4> HIDE DEF x, y
      <4>4. y + Waiting(p) <= s[j].age
        BY <1>3, <4>1, <4>2, <4>3
      <4>5. QED
        BY <4>4 DEF y
    <3>6. QED
      BY <3>1, <3>2, <3>5
  <2>2. CASE ~(j < i)
    <3>1. t[j] = s[j + 1] /\ j + 1 \in 1 .. Len(s)
      BY <1>1, <1>2, <2>2
    <3>2. /\ s[j + 1].age <= Patience[c]
          /\ Timeout[c] * (Len(s) - (j + 1) + 1) + Waiting(p) <= s[j + 1].age
      BY <1>2, <3>1 DEF Spaced
    <3>3. Len(s) - (j + 1) + 1 = Len(s) - 1 - j + 1
      BY <1>2
    <3>4. QED
      BY <3>1, <3>2, <3>3
  <2>3. QED
    BY <2>1, <2>2
<1>5. QED
  BY <1>1, <1>4 DEF Spaced, t

LEMMA SpacedOlder ==
  ASSUME NEW c \in Check, NEW p \in Probe, NEW s \in Seq(Hanging), Spaced(c, p, s),
         Busy(p) => p.age < Patience[c], \A i \in DOMAIN s : s[i].age < Patience[c]
  PROVE  Spaced(c, Older(p), [i \in DOMAIN s |-> Older(s[i])])
<1> DEFINE t == [i \in DOMAIN s |-> Older(s[i])]
<1>1. /\ DOMAIN s = 1 .. Len(s) /\ Len(s) \in Nat /\ Len(t) = Len(s)
      /\ \A i \in DOMAIN s : s[i] \in Hanging
  BY OlderIsTyped, LenProperties, ElementOfSeq
<1>2. /\ Waiting(p) \in Nat /\ Waiting(Older(p)) \in Nat
      /\ Waiting(Older(p)) <= Waiting(p) + 1 /\ Waiting(Older(p)) <= Patience[c]
      /\ Timeout[c] \in Nat /\ Patience[c] \in Nat
  BY HealthChecksAssumption DEF Waiting, Older, Probe, Busy
<1>3. ASSUME NEW i \in DOMAIN s
      PROVE  /\ t[i].age <= Patience[c]
             /\ Timeout[c] * (Len(s) - i + 1) + Waiting(Older(p)) <= t[i].age
  <2>1. t[i].age = s[i].age + 1 /\ s[i].age \in Nat
    BY <1>1, OlderIsProbe DEF Hanging, Probe
  <2>2. Timeout[c] * (Len(s) - i + 1) + Waiting(p) <= s[i].age
    BY DEF Spaced
  <2>3. Timeout[c] * (Len(s) - i + 1) \in Int
    BY <1>1, <1>2
  <2>4. s[i].age < Patience[c]
    OBVIOUS
  <2> HIDE DEF t
  <2>5. t[i].age <= Patience[c]
    BY <1>2, <2>1, <2>4
  <2>6. QED
    BY <1>2, <2>1, <2>2, <2>3, <2>5
<1>4. QED
  BY <1>1, <1>2, <1>3 DEF Spaced

\* Probes that hang are at least a timeout apart in age, and none is older than Patience.
THEOREM AgesCorrect == Spec => []Ages
<1> USE HealthChecksAssumption
<1>1. Init => Ages
  <2> SUFFICES ASSUME Init, NEW c \in Check PROVE Spaced(c, NoProbe, <<>>)
    BY DEF Init, Ages
  <2>1. QED
    BY DEF Spaced, Waiting, NoProbe, Busy
<1>2. TypeOK /\ Ages /\ [Next]_vars => Ages'
  <2> SUFFICES ASSUME TypeOK, Ages, [Next]_vars, NEW c \in Check
               PROVE  Spaced(c, probe'[c], lost'[c])
    BY DEF Ages, Spaced
  <2>1. /\ probe[c] \in Probe /\ lost[c] \in Seq(Hanging) /\ Spaced(c, probe[c], lost[c])
        /\ Waiting(probe[c]) \in Nat
    BY DEF TypeOK, Ages, Hanging, Waiting, Probe
  <2>2. /\ NoProbe \in Probe /\ NewProbe \in Probe
        /\ Waiting(NoProbe) = 0 /\ Waiting(NewProbe) = 0
    BY DEF NoProbe, NewProbe, Probe, Waiting, Busy
  <2>3. CASE UNCHANGED <<probe, lost>>
    BY <2>1, <2>3
  <2>4. ASSUME NEW d \in Check, Begin(d) PROVE Spaced(c, probe'[c], lost'[c])
    <3>1. lost' = lost /\ (probe'[c] = probe[c] \/ probe'[c] = NewProbe)
      BY <2>4 DEF Begin, TypeOK
    <3>2. QED
      BY <2>1, <2>2, <3>1, SpacedLess
  <2>5. ASSUME NEW d \in Check, Accept(d) PROVE Spaced(c, probe'[c], lost'[c])
    <3>1. lost' = lost /\ (probe'[c] = probe[c] \/ probe'[c] = NoProbe)
      BY <2>5 DEF Accept, TypeOK
    <3>2. QED
      BY <2>1, <2>2, <3>1, SpacedLess
  <2>6. ASSUME NEW d \in Check, GiveUp(d) PROVE Spaced(c, probe'[c], lost'[c])
    <3>1. CASE d = c
      <4>1. probe[c] \in Hanging /\ probe[c].age >= Timeout[c]
        BY <2>1, <2>6, <3>1 DEF GiveUp, Overdue, Hanging
      <4>2. probe'[c] = NoProbe /\ lost'[c] = Append(lost[c], probe[c])
        BY <2>6, <3>1 DEF GiveUp, TypeOK
      <4>3. QED
        BY <2>1, <4>1, <4>2, SpacedGivenUp
    <3>2. CASE d # c
      BY <2>1, <2>6, <3>2 DEF GiveUp, TypeOK
    <3>3. QED
      BY <3>1, <3>2
  <2>7. ASSUME NEW d \in Check, Look(d) PROVE Spaced(c, probe'[c], lost'[c])
    <3>1. CASE d = c
      <4>1. probe'[c] = Found(c, probe[c]) /\ lost' = lost
        BY <2>7, <3>1 DEF Look, TypeOK
      <4>2. Found(c, probe[c]) \in Probe /\ Waiting(Found(c, probe[c])) = Waiting(probe[c])
        BY <2>1, <2>7, <3>1, FoundIsProbe DEF Look, Waiting
      <4>3. QED
        BY <2>1, <4>1, <4>2, SpacedLess
    <3>2. CASE d # c
      BY <2>1, <2>7, <3>2 DEF Look, TypeOK
    <3>3. QED
      BY <3>1, <3>2
  <2>8. ASSUME NEW d \in Check, Answer(d) PROVE Spaced(c, probe'[c], lost'[c])
    <3>1. CASE d = c
      <4>1. probe'[c] = Answered(probe[c].ok) /\ lost' = lost
        BY <2>8, <3>1 DEF Answer, TypeOK
      <4>2. Answered(probe[c].ok) \in Probe /\ Waiting(Answered(probe[c].ok)) = 0
        BY <2>1 DEF Answered, Probe, Waiting, Busy
      <4>3. QED
        BY <2>1, <4>1, <4>2, SpacedLess
    <3>2. CASE d # c
      BY <2>1, <2>8, <3>2 DEF Answer, TypeOK
    <3>3. QED
      BY <3>1, <3>2
  <2>9. ASSUME NEW d \in Check, NEW i \in DOMAIN lost[d], LookLate(d, i)
        PROVE  Spaced(c, probe'[c], lost'[c])
    <3>1. CASE d = c
      <4>1. probe' = probe /\ lost'[c] = [lost[c] EXCEPT ![i] = Found(c, @)] /\ MayLook(c, lost[c][i])
        BY <2>9, <3>1 DEF LookLate, TypeOK
      <4>2. QED
        BY <2>1, <3>1, <4>1, SpacedFound
    <3>2. CASE d # c
      BY <2>1, <2>9, <3>2 DEF LookLate, TypeOK
    <3>3. QED
      BY <3>1, <3>2
  <2>10. ASSUME NEW d \in Check, NEW i \in DOMAIN lost[d], AnswerLate(d, i)
         PROVE  Spaced(c, probe'[c], lost'[c])
    <3>1. CASE d = c
      <4>1. probe' = probe /\ lost'[c] = RemoveAt(lost[c], i)
        BY <2>10, <3>1 DEF AnswerLate, TypeOK
      <4>2. QED
        BY <2>1, <3>1, <4>1, SpacedRemoved
    <3>2. CASE d # c
      BY <2>1, <2>10, <3>2 DEF AnswerLate, TypeOK
    <3>3. QED
      BY <3>1, <3>2
  <2>11. CASE Tick
    <3>1. probe'[c] = Older(probe[c]) /\ lost'[c] = [i \in DOMAIN lost[c] |-> Older(lost[c][i])]
      BY <2>11 DEF Tick
    <3>2. Busy(probe[c]) => probe[c].age < Patience[c]
      BY <2>11 DEF Tick
    <3>3. ASSUME NEW i \in DOMAIN lost[c] PROVE lost[c][i].age < Patience[c]
      <4>1. lost[c][i] \in ToSet(lost[c]) /\ Busy(lost[c][i])
        BY <2>1, ElementOfSeq, LenProperties DEF ToSet, Hanging
      <4>2. QED
        BY <2>11, <4>1 DEF Tick
    <3>4. QED
      BY <2>1, <3>1, <3>2, <3>3, SpacedOlder
  <2>12. ASSUME NEW d \in Check, Change(d) PROVE UNCHANGED <<probe, lost>>
    BY <2>12 DEF Change
  <2>13. CASE HearNothing
    <3>1. probe' = probe /\ lost'[c] = <<>>
      BY <2>13 DEF HearNothing
    <3>2. QED
      BY <2>1, <3>1 DEF Spaced
  <2>14. QED
    BY <2>3, <2>4, <2>5, <2>6, <2>7, <2>8, <2>9, <2>10, <2>11, <2>12, <2>13
    DEF Next, Round, Probes, Hear, vars
<1>3. QED
  BY <1>1, <1>2, TypeCorrect, PTL DEF Spec

\* However many services hang, few threads do.
THEOREM FewThreadsCorrect == Spec => []FewThreads
<1>1. TypeOK /\ Ages => FewThreads
  <2> SUFFICES ASSUME TypeOK, Ages, NEW c \in Check
               PROVE  Timeout[c] * Len(lost[c]) <= Patience[c]
    BY DEF FewThreads
  <2>1. /\ lost[c] \in Seq(Hanging) /\ Len(lost[c]) \in Nat /\ DOMAIN lost[c] = 1 .. Len(lost[c])
        /\ Timeout[c] \in Nat /\ Patience[c] \in Nat
    BY HealthChecksAssumption, LenProperties DEF TypeOK, Hanging
  <2>2. CASE Len(lost[c]) = 0
    BY <2>1, <2>2
  <2>3. CASE Len(lost[c]) > 0
    <3>1. 1 \in DOMAIN lost[c]
      BY <2>1, <2>3
    <3>2. Waiting(probe[c]) \in Nat /\ lost[c][1].age \in Nat
      BY <2>1, <3>1, ElementOfSeq DEF TypeOK, Waiting, Probe, Hanging
    <3>3. /\ lost[c][1].age <= Patience[c]
          /\ Timeout[c] * (Len(lost[c]) - 1 + 1) + Waiting(probe[c]) <= lost[c][1].age
      BY <3>1 DEF Ages, Spaced
    <3>4. Len(lost[c]) - 1 + 1 = Len(lost[c]) /\ Timeout[c] * Len(lost[c]) \in Nat
      BY <2>1
    <3>5. QED
      BY <2>1, <3>2, <3>3, <3>4
  <2>4. QED
    BY <2>1, <2>2, <2>3
<1>2. QED
  BY <1>1, TypeCorrect, AgesCorrect, PTL

-----------------------------------------------------------------------------
(* No check is lost.                                                       *)

\* A check without an interval was never there.
Unstarted ==
  \A c \in Check : Interval[c] = 0 => c \notin alive /\ probe[c].st = "none" /\ lost[c] = <<>>

LEMMA UnstartedStep == TypeOK /\ Unstarted /\ [Next]_vars => Unstarted'
<1> SUFFICES ASSUME TypeOK, Unstarted, [Next]_vars, NEW c \in Check, Interval[c] = 0
             PROVE  c \notin alive' /\ probe'[c].st = "none" /\ lost'[c] = <<>>
  BY DEF Unstarted
<1>0. /\ c \notin alive /\ probe[c].st = "none" /\ lost[c] = <<>>
      /\ probe \in [Check -> Probe] /\ DOMAIN lost = Check
  BY DEF Unstarted, TypeOK
<1>1. ASSUME NEW d \in Check, Begin(d) PROVE c \notin alive' /\ probe'[c].st = "none" /\ lost'[c] = <<>>
  BY <1>0, <1>1 DEF Begin
<1>2. ASSUME NEW d \in Check, Accept(d) PROVE c \notin alive' /\ probe'[c].st = "none" /\ lost'[c] = <<>>
  BY <1>0, <1>2 DEF Accept, Raise
<1>3. ASSUME NEW d \in Check, GiveUp(d) PROVE c \notin alive' /\ probe'[c].st = "none" /\ lost'[c] = <<>>
  BY <1>0, <1>3 DEF GiveUp, Overdue, Busy, Raise
<1>4. ASSUME NEW d \in Check, Look(d) \/ Answer(d)
      PROVE  c \notin alive' /\ probe'[c].st = "none" /\ lost'[c] = <<>>
  BY <1>0, <1>4 DEF Look, Answer, MayLook
<1>5. ASSUME NEW d \in Check, NEW i \in DOMAIN lost[d], LookLate(d, i) \/ AnswerLate(d, i)
      PROVE  c \notin alive' /\ probe'[c].st = "none" /\ lost'[c] = <<>>
  <2>1. d # c
    BY <1>0
  <2>2. QED
    BY <1>0, <1>5, <2>1 DEF LookLate, AnswerLate
<1>6. ASSUME NEW d \in Check, Change(d) PROVE c \notin alive' /\ probe'[c].st = "none" /\ lost'[c] = <<>>
  BY <1>0, <1>6 DEF Change
<1>7. CASE Tick
  <2>1. probe'[c] = Older(probe[c]) /\ lost'[c] = [i \in DOMAIN lost[c] |-> Older(lost[c][i])] /\ alive' = alive
    BY <1>7 DEF Tick
  <2>2. lost'[c] \in Seq(Hanging)
    <3>1. lost[c] \in Seq(Hanging)
      BY DEF TypeOK, Hanging
    <3>2. QED
      BY <2>1, <3>1, OlderIsTyped
  <2>3. DOMAIN lost'[c] = {}
    BY <1>0, <2>1
  <2>4. lost'[c] = <<>>
    <3>1. Len(lost'[c]) \in Nat /\ 1 \notin 1 .. Len(lost'[c])
      BY <2>2, <2>3, LenProperties
    <3>2. Len(lost'[c]) = 0
      BY <3>1
    <3>3. QED
      BY <2>2, <3>2, EmptySeq
  <2>5. QED
    BY <1>0, <2>1, <2>4, OlderIsProbe
<1>8. CASE Hear \/ HearNothing \/ UNCHANGED vars
  BY <1>0, <1>8 DEF Hear, HearNothing, vars
<1>9. QED
  BY <1>1, <1>2, <1>3, <1>4, <1>5, <1>6, <1>7, <1>8 DEF Next, Round, Probes

LEMMA AtMostQuotient ==
  ASSUME NEW t \in Nat \ {0}, NEW n \in Nat, NEW p \in Nat, t * n <= p
  PROVE  n <= p \div t /\ p \div t \in Nat
OBVIOUS

\* When the kernel grants enough there is room for another probe of a check that is
\* not making one.
LEMMA RoomForOneMore ==
  ASSUME TypeOK, FewThreads, Unstarted, Enough,
         NEW c \in Check, Interval[c] > 0, ~Busy(probe[c])
  PROVE  Threads < limit
<1> DEFINE T == {x \in Check : Interval[x] > 0}
           busy(x) == IF Busy(probe[x]) THEN 1 ELSE 0
           f == [x \in Check |-> Len(lost[x]) + busy(x)]
           g == [x \in T |-> 1 + Patience[x] \div Timeout[x]]
<1>1. ASSUME NEW x \in Check
      PROVE  /\ Len(lost[x]) \in Nat /\ Len(lost[x]) <= Patience[x] \div Timeout[x]
             /\ Patience[x] \div Timeout[x] \in Nat
  <2>1. Timeout[x] \in Nat \ {0} /\ Patience[x] \in Nat
    BY HealthChecksAssumption DEF Enough
  <2>2. Len(lost[x]) \in Nat
    BY LenProperties DEF TypeOK
  <2>3. Timeout[x] * Len(lost[x]) <= Patience[x]
    BY DEF FewThreads
  <2>4. QED
    BY <2>1, <2>2, <2>3, AtMostQuotient
<1>2. (\A x \in Check : busy(x) \in {0, 1}) /\ busy(c) = 0
  OBVIOUS
<1>3. \A x \in Check \ T : Len(lost[x]) = 0 /\ busy(x) = 0
  <2> SUFFICES ASSUME NEW x \in Check \ T PROVE Len(lost[x]) = 0 /\ busy(x) = 0
    OBVIOUS
  <2>1. Interval[x] = 0
    BY HealthChecksAssumption
  <2>2. probe[x].st = "none" /\ lost[x] = <<>>
    BY <2>1 DEF Unstarted
  <2>3. QED
    BY <2>2 DEF Busy
<1>4. Threads = SumFunction(f) /\ SumFunction(g) <= limit
  BY DEF Threads, Enough
<1> HIDE DEF busy
<1>5. /\ f \in [Check -> Nat] /\ g \in [T -> Nat]
      /\ \A x \in T : f[x] <= g[x]
      /\ \A x \in Check \ T : f[x] = 0
      /\ c \in T /\ f[c] < g[c]
  BY <1>1, <1>2, <1>3
<1>6. T \in SUBSET Check /\ IsFiniteSet(Check)
  BY HealthChecksAssumption
<1> HIDE DEF T, f, g
<1>7. SumFunction(f) < SumFunction(g)
  BY <1>5, <1>6, SumLess
<1>8. SumFunction(f) \in Nat /\ SumFunction(g) \in Nat
  <2>1. IsFiniteSet(T)
    BY <1>6, FS_Subset
  <2>2. QED
    BY <1>5, <1>6, <2>1, SumIsNat
<1>9. limit \in Nat
  BY HealthChecksAssumption DEF TypeOK
<1>10. QED
  BY <1>4, <1>7, <1>8, <1>9

\* If the kernel grants each check as many threads as can hang, and one more, no
\* check is ever lost to a panic and the main loop goes on.
THEOREM UnbrokenCorrect == Spec => []Unbroken
<1>1. Init => Unstarted /\ Unbroken
  <2> SUFFICES ASSUME Init PROVE Unstarted /\ Unbroken
    OBVIOUS
  <2>1. Unstarted
    BY DEF Init, Unstarted, NoProbe
  <2>2. Unbroken
    BY DEF Init, Unbroken
  <2>3. QED
    BY <2>1, <2>2
<1>2. TypeOK /\ FewThreads /\ Unstarted /\ Unbroken /\ [Next]_vars => Unstarted' /\ Unbroken'
  <2> SUFFICES ASSUME TypeOK, FewThreads, Unstarted, Unbroken, [Next]_vars, Enough'
               PROVE  /\ \A c \in Check : c \in alive' <=> Interval[c] > 0
                      /\ (\E c \in Check : Interval[c] > 0) => main' = "runs"
    BY UnstartedStep DEF Unbroken
  <2>1. limit' = limit
    BY DEF Next, Hear, HearNothing, Tick, Round, Probes, Change, Begin, Accept, GiveUp, Look, Answer,
           LookLate, AnswerLate, vars
  <2>2. Enough
    BY <2>1 DEF Enough
  <2>3. /\ \A c \in Check : c \in alive <=> Interval[c] > 0
        /\ (\E c \in Check : Interval[c] > 0) => main = "runs"
    BY <2>2 DEF Unbroken
  <2>4. ASSUME NEW c \in Check, Begin(c) PROVE alive' = alive /\ main' = main
    <3>1. Interval[c] > 0 /\ ~Busy(probe[c])
      BY <2>3, <2>4 DEF Begin, Busy
    <3>2. Threads < limit
      BY <2>2, <3>1, RoomForOneMore
    <3>3. QED
      BY <2>4, <3>2 DEF Begin
  <2>5. CASE HearNothing
    BY <2>3, <2>5 DEF HearNothing
  <2>6. ASSUME NEW c \in Check, Accept(c) \/ GiveUp(c) \/ Probes(c) \/ Change(c)
        PROVE  alive' = alive /\ main' = main
    BY <2>6 DEF Accept, GiveUp, Raise, Probes, Look, Answer, LookLate, AnswerLate, Change
  <2>7. CASE Hear \/ Tick \/ UNCHANGED vars
    BY <2>3, <2>7 DEF Hear, Tick, vars
  <2>8. QED
    BY <2>3, <2>4, <2>5, <2>6, <2>7 DEF Next, Round
<1>3. QED
  BY <1>1, <1>2, TypeCorrect, FewThreadsCorrect, PTL DEF Spec

-----------------------------------------------------------------------------
(* No alarm is false, and none is kept back.                               *)

\* What a round has met so far: the present condition, and what its probe found.
Honest ==
  \A c \in Check :
    /\ probe[c].st = "none" => seen[c] = {}
    /\ probe[c].st # "none" => Condition(c) \in seen[c]
    /\ probe[c].st \in {"found", "answered"} /\ probe[c].ok => "well" \in seen[c]
    /\ probe[c].st \in {"found", "answered"} /\ ~probe[c].ok => seen[c] \ {"well"} # {}

LEMMA WellIsFound ==
  ASSUME NEW c \in Check, NEW p \in Probe, MayLook(c, p)
  PROVE  /\ Found(c, p).st = "found" /\ p.st = "looks"
         /\ Found(c, p).ok => Condition(c) = "well" \/ Silent(c)
         /\ ~Found(c, p).ok => Condition(c) # "well"
         /\ Silent(c) => ~Found(c, p).ok
<1>1. Found(c, p).st = "found" /\ Found(c, p).ok = Well(c) /\ p.st = "looks"
  BY DEF Found, Probe, MayLook
<1>2. Silent(c) => ~Well(c)
  BY DEF Silent, Well, TcpCheck
<1>3. QED
  BY <1>1, <1>2 DEF Condition

\* What a round or a probe knows is what it has met.
THEOREM HonestCorrect == Spec => []Honest
<1>1. Init => Honest
  BY DEF Init, Honest, NoProbe
<1>2. TypeOK /\ Honest /\ [Next]_vars => Honest'
  <2> SUFFICES ASSUME TypeOK, Honest, [Next]_vars PROVE Honest'
    OBVIOUS
  <2>0. \A c \in Check : world'[c] = world[c] => Condition(c)' = Condition(c)
    BY DEF Condition, Silent, Well, Free, DfCheck, ProcCheck, TcpCheck
  <2>1. ASSUME NEW d \in Check, Begin(d) PROVE Honest'
    <3>1. world' = world
      BY <2>1 DEF Begin
    <3>2. CASE Threads < limit
      <4>1. probe' = [probe EXCEPT ![d] = NewProbe] /\ seen' = [seen EXCEPT ![d] = {Condition(d)}]
        BY <2>1, <3>2 DEF Begin
      <4>2. QED
        BY <2>0, <3>1, <4>1 DEF Honest, TypeOK, NewProbe
    <3>3. CASE ~(Threads < limit)
      BY <2>0, <2>1, <3>1, <3>3 DEF Begin, Honest
    <3>4. QED
      BY <3>2, <3>3
  <2>2. ASSUME NEW d \in Check, Accept(d) \/ GiveUp(d) PROVE Honest'
    <3>1. /\ probe' = [probe EXCEPT ![d] = NoProbe] /\ seen' = [seen EXCEPT ![d] = {}]
          /\ world' = world
      BY <2>2 DEF Accept, GiveUp
    <3>2. QED
      BY <2>0, <3>1 DEF Honest, TypeOK, NoProbe
  <2>3. ASSUME NEW d \in Check, Look(d) PROVE Honest'
    <3>1. /\ probe' = [probe EXCEPT ![d] = Found(d, probe[d])] /\ seen' = seen /\ world' = world
          /\ MayLook(d, probe[d]) /\ probe[d] \in Probe
      BY <2>3 DEF Look, TypeOK
    <3>2. /\ Found(d, probe[d]).st = "found"
          /\ Found(d, probe[d]).ok => "well" \in seen[d]
          /\ ~Found(d, probe[d]).ok => seen[d] \ {"well"} # {}
          /\ Condition(d) \in seen[d]
      BY <3>1, WellIsFound DEF Honest
    <3>3. ASSUME NEW c \in Check, c # d PROVE probe'[c] = probe[c]
      BY <3>1, <3>3 DEF TypeOK
    <3>4. probe'[d] = Found(d, probe[d])
      BY <3>1 DEF TypeOK
    <3>5. QED
      BY <2>0, <3>1, <3>2, <3>3, <3>4 DEF Honest
  <2>4. ASSUME NEW d \in Check, Answer(d) PROVE Honest'
    <3>1. /\ probe'[d].st = "answered" /\ probe'[d].ok = probe[d].ok /\ probe[d].st = "found"
          /\ \A c \in Check : c # d => probe'[c] = probe[c]
          /\ seen' = seen /\ world' = world
      BY <2>4 DEF Answer, Answered, TypeOK
    <3>2. QED
      BY <2>0, <3>1 DEF Honest
  <2>5. ASSUME NEW d \in Check, Change(d) PROVE Honest'
    <3>1. /\ probe' = probe
          /\ seen'[d] = IF probe[d].st = "none" THEN {} ELSE seen[d] \cup {Condition(d)'}
          /\ \A c \in Check : c # d => seen'[c] = seen[c] /\ world'[c] = world[c]
      BY <2>5 DEF Change, TypeOK, Worlds
    <3>2. QED
      BY <2>0, <3>1 DEF Honest
  <2>6. CASE Tick
    <3>1. /\ \A c \in Check : probe'[c].st = probe[c].st /\ probe'[c].ok = probe[c].ok
          /\ seen' = seen /\ world' = world
      BY <2>6, OlderIsProbe DEF Tick, TypeOK
    <3>2. QED
      BY <2>0, <3>1 DEF Honest
  <2>7. CASE UNCHANGED <<probe, seen, world>>
    BY <2>0, <2>7 DEF Honest
  <2>8. ASSUME NEW c \in Check, NEW i \in DOMAIN lost[c], LookLate(c, i) \/ AnswerLate(c, i)
        PROVE  UNCHANGED <<probe, seen, world>>
    BY <2>8 DEF LookLate, AnswerLate
  <2>9. QED
    BY <2>1, <2>2, <2>3, <2>4, <2>5, <2>6, <2>7, <2>8 DEF Next, Round, Probes, Hear, HearNothing, vars
<1>3. QED
  BY <1>1, <1>2, TypeCorrect, PTL DEF Spec

\* Who raises an alarm.
LEMMA WhoRaises ==
  ASSUME TypeOK, Next, NEW c \in Check, alarms' = Append(alarms, c)
  PROVE  (Accept(c) /\ ~probe[c].ok) \/ GiveUp(c)
<1>1. alarms \in Seq(Check) /\ alarms' # alarms /\ (alarms # <<>> => alarms' # Tail(alarms))
  BY AppendChanges DEF TypeOK
<1>2. ASSUME NEW d \in Check, alarms' = Append(alarms, d) PROVE d = c
  <2>1. Append(alarms, d) = Append(alarms, c)
    BY <1>2
  <2>2. QED
    BY <1>1, <2>1, AppendInjective
<1>3. PICK d \in Check : Accept(d) \/ GiveUp(d)
  BY <1>1
  DEF Next, Round, Probes, Hear, HearNothing, Tick, Begin, Look, Answer, LookLate, AnswerLate, Change
<1>4. CASE Accept(d)
  <2>1. ~probe[d].ok /\ alarms' = Append(alarms, d)
    BY <1>1, <1>4 DEF Accept, Raise
  <2>2. QED
    BY <1>2, <1>4, <2>1
<1>5. CASE GiveUp(d)
  <2>1. alarms' = Append(alarms, d)
    BY <1>5 DEF GiveUp, Raise
  <2>2. QED
    BY <1>2, <1>5, <2>1
<1>6. QED
  BY <1>3, <1>4, <1>5

\* No check is reported that was well all along and answered in time.
THEOREM FailureIsRealCorrect == Spec => FailureIsReal
<1>1. TypeOK /\ Honest /\ [Next]_vars =>
        [\A c \in Check : alarms' = Append(alarms, c) =>
           seen[c] \ {"well"} # {} \/ probe[c].age >= Timeout[c]]_vars
  <2> SUFFICES ASSUME TypeOK, Honest, Next, NEW c \in Check, alarms' = Append(alarms, c)
               PROVE  seen[c] \ {"well"} # {} \/ probe[c].age >= Timeout[c]
    BY DEF vars
  <2>1. CASE Accept(c) /\ ~probe[c].ok
    BY <2>1 DEF Accept, Honest
  <2>2. CASE GiveUp(c)
    BY <2>2 DEF GiveUp, Overdue
  <2>3. QED
    BY <2>1, <2>2, WhoRaises
<1>2. QED
  BY <1>1, TypeCorrect, HonestCorrect, PTL DEF Spec, FailureIsReal

\* A condition is that of the world alone.
LEMMA SameCondition ==
  ASSUME NEW c \in Check, world'[c] = world[c]
  PROVE  Condition(c)' = Condition(c)
BY DEF Condition, Silent, Well, Free, DfCheck, ProcCheck, TcpCheck

\* The threads and channels of the checks implement Watchdog.
THEOREM VigilanceCorrect == Spec => Vigilance
<1> USE DEF W!Conditions
<1>0. \A c \in Check : Condition(c) \in W!Conditions /\ Condition(c)' \in W!Conditions
  BY DEF Condition
<1>1. Init => W!Init
  BY <1>0 DEF Init, W!Init, NoProbe
<1>2. TypeOK /\ Honest /\ [Next]_vars => [W!Next]_(W!vars)
  <2> SUFFICES ASSUME TypeOK, Honest, [Next]_vars PROVE [W!Next]_(W!vars)
    OBVIOUS
  <2> DEFINE condition == [c \in Check |-> Condition(c)]
             open      == {c \in Check : probe[c].st # "none"}
  <2>0. world' = world => condition' = condition
    BY DEF Condition, Silent, Well, Free, DfCheck, ProcCheck, TcpCheck
  <2>1. ASSUME NEW d \in Check, Begin(d) PROVE [W!Next]_(W!vars)
    <3>1. CASE Threads < limit
      <4>1. /\ probe' = [probe EXCEPT ![d] = NewProbe] /\ seen' = [seen EXCEPT ![d] = {Condition(d)}]
            /\ probe[d].st = "none" /\ world' = world /\ alarms' = alarms
        BY <2>1, <3>1 DEF Begin
      <4>2. open' = open \cup {d} /\ d \notin open
        BY <4>1 DEF TypeOK, NewProbe
      <4>3. W!Begin(d)
        BY <2>0, <4>1, <4>2 DEF W!Begin
      <4>4. QED
        BY <4>3 DEF W!Next
    <3>2. CASE ~(Threads < limit)
      BY <2>0, <2>1, <3>2 DEF Begin, W!vars
    <3>3. QED
      BY <3>1, <3>2
  <2>2. ASSUME NEW d \in Check, Accept(d) PROVE [W!Next]_(W!vars)
    <3>1. /\ probe' = [probe EXCEPT ![d] = NoProbe] /\ seen' = [seen EXCEPT ![d] = {}]
          /\ probe[d].st = "answered" /\ world' = world
      BY <2>2 DEF Accept
    <3>2. open' = open \ {d} /\ d \in open
      BY <3>1 DEF TypeOK, NoProbe
    <3>3. CASE probe[d].ok
      <4>1. alarms' = alarms /\ "well" \in seen[d]
        BY <2>2, <3>1, <3>3 DEF Accept, Honest
      <4>2. W!PassRound(d)
        BY <2>0, <3>1, <3>2, <4>1 DEF W!PassRound
      <4>3. QED
        BY <4>2 DEF W!Next
    <3>4. CASE ~probe[d].ok
      <4>1. alarms' = Append(alarms, d)
        BY <2>2, <3>4 DEF Accept, Raise
      <4>2. W!FailRound(d)
        BY <2>0, <3>1, <3>2, <4>1 DEF W!FailRound
      <4>3. QED
        BY <4>2 DEF W!Next
    <3>5. QED
      BY <3>3, <3>4
  <2>3. ASSUME NEW d \in Check, GiveUp(d) PROVE [W!Next]_(W!vars)
    <3>1. /\ probe' = [probe EXCEPT ![d] = NoProbe] /\ seen' = [seen EXCEPT ![d] = {}]
          /\ probe[d].st # "none" /\ world' = world /\ alarms' = Append(alarms, d)
      BY <2>3 DEF GiveUp, Overdue, Busy, Raise
    <3>2. open' = open \ {d} /\ d \in open
      BY <3>1 DEF TypeOK, NoProbe
    <3>3. W!FailRound(d)
      BY <2>0, <3>1, <3>2 DEF W!FailRound
    <3>4. QED
      BY <3>3 DEF W!Next
  <2>4. ASSUME NEW d \in Check, Look(d) \/ Answer(d) PROVE [W!Next]_(W!vars)
    <3>1. /\ probe[d].st # "none" /\ probe'[d].st # "none"
          /\ \A c \in Check : c # d => probe'[c] = probe[c]
          /\ world' = world /\ seen' = seen /\ alarms' = alarms
      <4>1. CASE Look(d)
        <5>1. MayLook(d, probe[d]) /\ probe[d] \in Probe /\ probe' = [probe EXCEPT ![d] = Found(d, probe[d])]
          BY <4>1 DEF Look, TypeOK
        <5>2. probe'[d] = Found(d, probe[d]) /\ \A c \in Check : c # d => probe'[c] = probe[c]
          BY <5>1 DEF TypeOK
        <5>3. QED
          BY <4>1, <5>1, <5>2, WellIsFound DEF Look
      <4>2. CASE Answer(d)
        BY <4>2 DEF Answer, Answered, TypeOK
      <4>3. QED
        BY <2>4, <4>1, <4>2
    <3>2. open' = open
      BY <3>1
    <3>3. QED
      BY <2>0, <3>1, <3>2 DEF W!vars
  <2>5. ASSUME NEW d \in Check, NEW i \in DOMAIN lost[d], LookLate(d, i) \/ AnswerLate(d, i)
        PROVE  [W!Next]_(W!vars)
    BY <2>0, <2>5 DEF LookLate, AnswerLate, W!vars
  <2>6. ASSUME NEW d \in Check, Change(d) PROVE [W!Next]_(W!vars)
    <3>1. /\ \A c \in Check : c # d => world'[c] = world[c]
          /\ seen' = [seen EXCEPT ![d] = IF probe[d].st = "none" THEN {} ELSE @ \cup {Condition(d)'}]
          /\ probe' = probe /\ alarms' = alarms
      BY <2>6 DEF Change, TypeOK, Worlds
    <3>2. \A c \in Check : c # d => Condition(c)' = Condition(c)
      BY <3>1, SameCondition
    <3>3. condition' = [condition EXCEPT ![d] = Condition(d)']
      BY <3>2
    <3>4. seen' = [seen EXCEPT ![d] = IF d \in open THEN @ \cup {Condition(d)'} ELSE {}]
      BY <3>1
    <3>5. W!Change(d)
      BY <1>0, <3>1, <3>3, <3>4 DEF W!Change
    <3>6. QED
      BY <3>5 DEF W!Next
  <2>7. CASE Hear
    BY <2>0, <2>7 DEF Hear, W!Hear, W!Next
  <2>8. CASE Tick
    <3>1. \A c \in Check : probe'[c].st = probe[c].st
      BY <2>8, OlderIsProbe DEF Tick, TypeOK
    <3>2. open' = open
      BY <3>1
    <3>3. QED
      BY <2>0, <2>8, <3>2 DEF Tick, W!vars
  <2>9. CASE UNCHANGED vars
    BY <2>0, <2>9 DEF vars, W!vars
  <2>10. CASE HearNothing
    BY <2>0, <2>10 DEF HearNothing, W!vars
  <2>11. QED
    BY <2>1, <2>2, <2>3, <2>4, <2>5, <2>6, <2>7, <2>8, <2>9, <2>10 DEF Next, Round, Probes
<1>3. QED
  BY <1>1, <1>2, TypeCorrect, HonestCorrect, PTL DEF Spec, W!Spec, Vigilance
=============================================================================
