------------------------------ MODULE Watchdog ------------------------------
(***************************************************************************)
(* What health checks promise, with nothing said of time, threads and      *)
(* channels.  Each check is made in rounds:                                *)
(*                                                                         *)
(*   - a round passes only if what it checks was well at some moment of    *)
(*     that same round;                                                    *)
(*   - a round that does not pass raises one alarm, and nothing else does; *)
(*   - alarms are heard in the order in which they were raised.            *)
(*                                                                         *)
(* That a round may fail although all is well is conceded here (the answer *)
(* was late); what has to excuse it is FailureIsReal of HealthChecks.      *)
(***************************************************************************)
EXTENDS Sequences

CONSTANT Check      \* the checks

VARIABLES
  condition,  \* of what each check is about
  open,       \* the checks that are being made
  seen,       \* the conditions met since the round of a check began
  alarms      \* raised and not heard yet

vars == <<condition, open, seen, alarms>>

Conditions == {"well", "ill", "silent"}

TypeOK ==
  /\ condition \in [Check -> Conditions]
  /\ open \in SUBSET Check
  /\ seen \in [Check -> SUBSET Conditions]
  /\ alarms \in Seq(Check)

Init ==
  /\ condition \in [Check -> Conditions]
  /\ open = {}
  /\ seen = [c \in Check |-> {}]
  /\ alarms = <<>>

Begin(c) ==
  /\ c \notin open
  /\ open' = open \cup {c}
  /\ seen' = [seen EXCEPT ![c] = {condition[c]}]
  /\ UNCHANGED <<condition, alarms>>

PassRound(c) ==
  /\ c \in open /\ "well" \in seen[c]
  /\ open' = open \ {c}
  /\ seen' = [seen EXCEPT ![c] = {}]
  /\ UNCHANGED <<condition, alarms>>

FailRound(c) ==
  /\ c \in open
  /\ open' = open \ {c}
  /\ seen' = [seen EXCEPT ![c] = {}]
  /\ alarms' = Append(alarms, c)
  /\ UNCHANGED condition

Hear ==
  /\ alarms # <<>>
  /\ alarms' = Tail(alarms)
  /\ UNCHANGED <<condition, open, seen>>

Change(c) ==
  /\ \E new \in Conditions :
       /\ condition' = [condition EXCEPT ![c] = new]
       /\ seen' = [seen EXCEPT ![c] = IF c \in open THEN @ \cup {new} ELSE {}]
  /\ UNCHANGED <<open, alarms>>

Next == Hear \/ \E c \in Check : Begin(c) \/ PassRound(c) \/ FailRound(c) \/ Change(c)

Spec == Init /\ [][Next]_vars
=============================================================================
