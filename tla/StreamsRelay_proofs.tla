------------------------- MODULE StreamsRelay_proofs -------------------------
(***************************************************************************)
(* When nothing fails, every destination is syslog and a poll has room for *)
(* all events, stream redirection implements Relay: lines are delivered,   *)
(* and the end of riffol waits for what is owed.                           *)
(***************************************************************************)
EXTENDS Streams_proofs

\* Nothing fails, every destination is syslog, and a poll has room for all events.
Calm == Faults = {} /\ Files = {} /\ Cardinality(Conn) <= Capacity

\* Lines are written at once.
Whole == {p \in Piece : p.part = "whole"}
Uncut == /\ pipe \in [Conn -> Seq(Whole)] /\ buf \in [Conn -> Seq(Whole)]
         /\ \A c \in Conn : writer[c] # "mid"

\* No more will come of a pipe, and nothing is left of it.
Spent(c) == writer[c] = "closed" /\ Data(c) = <<>>

\* Hang-ups are what they say, and a pipe that is removed is spent.
SettledAt(c) ==
  /\ \A e \in batch : e.conn = c /\ e.hup => writer[c] = "closed" /\ (e.readable \/ Spent(c))
  /\ pc \in {"read", "hup"} /\ event.conn = c /\ event.hup =>
       writer[c] = "closed" /\ (pc = "read" \/ Spent(c))
  /\ stage[c] = "gone" => Spent(c)
  /\ stage[c] # "deaf"
Settled == \A c \in Conn : SettledAt(c)

\* Close is the last message of all, and when the handler has it there is no pipe that
\* it has not been told of.
Closing ==
  /\ \A c \in Conn : stage[c] = "added" => \E i \in 1 .. Len(chan) : chan[i] = c
  /\ dropped => \A c \in Conn : writer[c] # "unborn" => stage[c] # "none"
  /\ \A c \in finished : writer[c] = "closed"
  /\ \A i \in 1 .. Len(chan) : chan[i] = Close => dropped /\ i = Len(chan)
  /\ closed => dropped /\ chan = <<>> /\ pc # "recv"

\* The last poll has brought everything that is owed.
LastCall ==
  closed /\ pc \in {"events", "read", "hup"} =>
    \A c \in finished : Data(c) # <<>> => WillRead(c)

-----------------------------------------------------------------------------
(* Reading and writing.                                                    *)

\* The inner loop reads one pipe.
LEMMA ReadsOne ==
  ASSUME TypeOK, NEW d \in Conn, ReadLine(d) \/ ReadTail(d) \/ StopReading(d)
  PROVE  /\ d = event.conn /\ pc = "read"
         /\ \A c \in Conn \ {d} : Data(c)' = Data(c) /\ pipe'[c] = pipe[c] /\ buf'[c] = buf[c]
<1>1. CASE ReadEof(d)
  BY <1>1 DEF ReadEof, Data, ReadLine, ReadTail, StopReading
<1>2. CASE ~ReadEof(d)
  <2>1. \E i : ReadUpTo(d, i)
    BY <1>2 DEF ReadLine, ReadTail, StopReading, ReadBad, ReadBlocks
  <2>2. \A c \in Conn \ {d} : pipe'[c] = pipe[c] /\ buf'[c] = buf[c]
    BY <2>1, ReadOthers DEF TypeOK
  <2>3. QED
    BY <2>2 DEF Data, ReadLine, ReadTail, StopReading
<1>3. QED
  BY <1>1, <1>2

\* What happens to pipes and buffers, and to the ends of applications.
LEMMA WhoReads ==
  ASSUME [Next]_vars
  PROVE  /\ \/ UNCHANGED <<pipe, buf>>
            \/ \E d \in Conn : Write(d) \/ ReadLine(d) \/ ReadTail(d) \/ StopReading(d)
         /\ writer' = writer \/ \E d \in Conn : Spawn(d) \/ Write(d) \/ CloseEnd(d)
BY DEF Next, Handler, Outside, RecvNothing, RecvAdd, RecvClose, Poll, PollFails, HangUp, EndTurn,
       TakeEvent, DropHandler, Rotate, Spawn, AddStream, Write, CloseEnd, ReadLine, ReadTail,
       StopReading, Terminated, vars, handler, outside

\* A pipe without writers gets none, and once it is spent remains so.
LEMMA StillSpent ==
  ASSUME TypeOK, Clean, [Next]_vars, NEW c \in Conn
  PROVE  /\ writer[c] = "closed" => writer'[c] = "closed"
         /\ Spent(c) => Spent(c)'
<1>1. ASSUME writer[c] = "closed" PROVE writer'[c] = "closed"
  BY <1>1, WhoReads DEF Spawn, Write, CloseEnd, TypeOK
<1>2. ASSUME writer[c] = "closed", Data(c) = <<>> PROVE Data(c)' = <<>>
  <2>1. CASE UNCHANGED <<pipe, buf>>
    BY <1>2, <2>1 DEF Data
  <2>2. ASSUME NEW d \in Conn, Write(d) PROVE Data(c)' = <<>>
    BY <1>2, <2>2 DEF Write, Data, TypeOK, handler
  <2>3. ASSUME NEW d \in Conn, ReadLine(d) \/ ReadTail(d) \/ StopReading(d) PROVE Data(c)' = <<>>
    <3>1. CASE d # c
      BY <1>2, <2>3, <3>1, ReadsOne
    <3>2. CASE d = c
      <4>1. ~ReadLine(c)
        BY <1>2 DEF ReadLine
      <4>2. QED
        BY <2>3, <3>2, <4>1, NothingLeft
    <3>3. QED
      BY <3>1, <3>2
  <2>4. QED
    BY <2>1, <2>2, <2>3, WhoReads
<1>3. QED
  BY <1>1, <1>2 DEF Spent

LEMMA UncutIsClean == Uncut => Clean
<1>1. Whole \subseteq Good
  BY DEF Whole, Good
<1>2. \A s \in Seq(Whole) : s \in Seq(Good)
  BY <1>1
<1>3. QED
  BY <1>2 DEF Uncut, Clean

LEMMA UncutStep == Faults = {} /\ TypeOK /\ Uncut /\ [Next]_vars => Uncut'
<1> SUFFICES ASSUME Faults = {}, TypeOK, Uncut, [Next]_vars PROVE Uncut'
  OBVIOUS
<1>1. ASSUME NEW c \in Conn, Write(c) PROVE Uncut'
  <2>1. /\ pipe' = [pipe EXCEPT ![c] = Append(@, [no |-> lines[c] + 1, part |-> "whole"])]
        /\ writer' = [writer EXCEPT ![c] = "open"] /\ buf' = buf
    BY <1>1 DEF Write, Uncut, handler
  <2>2. [no |-> lines[c] + 1, part |-> "whole"] \in Whole
    <3>1. lines[c] + 1 \in 0 .. MaxLines
      BY <1>1, StreamsAssumption DEF Write, Uncut, TypeOK
    <3>2. QED
      BY <3>1 DEF Whole, Piece, Part
  <2>3. Append(pipe[c], [no |-> lines[c] + 1, part |-> "whole"]) \in Seq(Whole)
    BY <2>2, AppendProperties DEF Uncut
  <2>4. QED
    BY <2>1, <2>3 DEF Uncut, TypeOK
<1>2. ASSUME NEW c \in Conn, ReadLine(c) \/ ReadTail(c) \/ StopReading(c) PROVE Uncut'
  <2>1. writer' = writer
    BY <1>2 DEF ReadLine, ReadTail, StopReading, outside
  <2>2. pipe' \in [Conn -> Seq(Whole)] /\ buf' \in [Conn -> Seq(Whole)]
    <3>1. CASE ReadEof(c)
      BY <3>1 DEF ReadEof, Uncut
    <3>2. CASE ~ReadEof(c)
      <4>1. Len(Data(c)) \in Nat
        BY DEF Data, TypeOK
      <4>2. (\A i \in 1 .. Len(Data(c)) : i \in 0 .. Len(Data(c))) /\ Len(Data(c)) \in 0 .. Len(Data(c))
        BY <4>1
      <4>3. PICK i \in 0 .. Len(Data(c)) : ReadUpTo(c, i)
        BY <1>2, <3>2, <4>2, Zenon DEF ReadLine, ReadTail, StopReading, ReadBad, ReadBlocks
      <4>4. QED
        BY <4>3, ReadUpToTyped DEF Uncut
    <3>3. QED
      BY <3>1, <3>2
  <2>3. QED
    BY <2>1, <2>2 DEF Uncut
<1>3. CASE UNCHANGED <<pipe, buf>> /\ ~(\E c \in Conn : Write(c))
  <2>1. \A c \in Conn : writer'[c] # "mid"
    BY <1>3, WhoReads DEF Spawn, CloseEnd, Uncut, TypeOK
  <2>2. QED
    BY <1>3, <2>1 DEF Uncut
<1>4. QED
  BY <1>1, <1>2, <1>3, WhoReads

-----------------------------------------------------------------------------
(* The end of a pipe.                                                      *)

LEMMA SettledStep ==
  Faults = {} /\ TypeOK /\ Clean /\ Drained /\ Settled /\ [Next]_vars => Settled'
<1> SUFFICES ASSUME Faults = {}, TypeOK, Clean, Drained, Settled, [Next]_vars, NEW c \in Conn
             PROVE  SettledAt(c)'
  BY DEF Settled
<1>1. SettledAt(c) /\ (writer[c] = "closed" => writer'[c] = "closed") /\ (Spent(c) => Spent(c)')
  BY StillSpent DEF Settled
<1>2. ASSUME NEW e \in batch', e.conn = c, e.hup
      PROVE  writer'[c] = "closed" /\ (e.readable \/ Spent(c)')
  <2>1. CASE e \in batch
    BY <1>1, <1>2, <2>1 DEF SettledAt
  <2>2. CASE Poll
    <3>1. PICK S \in SUBSET Conn :
            batch' = {[conn |-> d, readable |-> pipe[d] # <<>>, hup |-> writer[d] = "closed"] : d \in S}
      BY <2>2 DEF Poll, Returned, TypeOK
    <3>2. (pipe[c] # <<>> => e.readable) /\ writer[c] = "closed"
      <4>1. e = [conn |-> c, readable |-> pipe[c] # <<>>, hup |-> writer[c] = "closed"]
        BY <1>2, <3>1
      <4>2. e.readable = (pipe[c] # <<>>) /\ e.hup = (writer[c] = "closed")
        BY <4>1
      <4>3. QED
        BY <1>2, <4>2, Zenon
    <3>3. UNCHANGED <<writer, pipe, buf>> /\ buf[c] = <<>>
      BY <2>2 DEF Poll, outside, Drained
    <3>4. pipe[c] = <<>> => Data(c)' = <<>>
      BY <3>3 DEF Data
    <3>5. QED
      BY <1>2, <3>2, <3>3, <3>4 DEF Spent
  <2>3. batch' \subseteq batch \/ Poll
    BY DEF Next, Handler, Outside, RecvNothing, RecvAdd, RecvClose, PollFails, HangUp, EndTurn,
           TakeEvent, DropHandler, Rotate, Spawn, AddStream, Write, CloseEnd, ReadLine, ReadTail,
           StopReading, Terminated, vars, handler, outside
  <2>4. QED
    BY <1>2, <2>1, <2>2, <2>3
<1>3. ASSUME pc' \in {"read", "hup"}, event'.conn = c, event'.hup
      PROVE  writer'[c] = "closed" /\ (pc' = "read" \/ Spent(c)')
  <2>1. ASSUME NEW e \in batch, TakeEvent(e)
        PROVE  writer'[c] = "closed" /\ (pc' = "read" \/ Spent(c)')
    <3>1. event' = e /\ pc' = (IF e.readable THEN "read" ELSE "hup")
      BY <2>1 DEF TakeEvent
    <3>2. QED
      BY <1>1, <1>3, <3>1 DEF SettledAt
  <2>2. ASSUME NEW d \in Conn, ReadLine(d) \/ ReadTail(d)
        PROVE  writer'[c] = "closed" /\ (pc' = "read" \/ Spent(c)')
    <3>1. event' = event /\ pc = "read" /\ pc' \in {"read", "panicked"}
      BY <2>2 DEF ReadLine, ReadTail, NextOnLine
    <3>2. QED
      BY <1>1, <1>3, <3>1 DEF SettledAt
  <2>3. ASSUME NEW d \in Conn, StopReading(d)
        PROVE  writer'[c] = "closed" /\ (pc' = "read" \/ Spent(c)')
    <3>1. event' = event /\ pc = "read" /\ d = event.conn
      BY <2>3 DEF StopReading
    <3>2. d = c
      BY <1>3, <3>1
    <3>3. Data(c)' = <<>>
      BY <2>3, <3>2, NothingLeft
    <3>4. QED
      BY <1>1, <1>3, <3>1, <3>3 DEF SettledAt, Spent
  <2>4. CASE UNCHANGED <<pc, event>>
    BY <1>1, <1>3, <2>4 DEF SettledAt
  <2>5. \/ UNCHANGED <<pc, event>>
        \/ pc' \in {"poll", "events", "recv", "ended"}
        \/ \E e \in batch : TakeEvent(e)
        \/ \E d \in Conn : ReadLine(d) \/ ReadTail(d) \/ StopReading(d)
    BY DEF Next, Handler, Outside, RecvNothing, RecvAdd, RecvClose, NextOnClose, Poll, PollFails,
           HangUp, EndTurn, DropHandler, Rotate, Spawn, AddStream, Write, CloseEnd, Terminated,
           vars, handler, outside
  <2>6. QED
    BY <1>3, <2>1, <2>2, <2>3, <2>4, <2>5
<1>4. (stage'[c] = "gone" => Spent(c)') /\ stage'[c] # "deaf"
  <2>1. CASE stage'[c] = stage[c]
    BY <1>1, <2>1 DEF SettledAt
  <2>2. ASSUME NEW d \in Conn, AddStream(d) PROVE stage'[c] = stage[c] \/ stage'[c] = "added"
    BY <2>2 DEF AddStream, TypeOK
  <2>3. ASSUME RecvAdd PROVE stage'[c] = stage[c] \/ stage'[c] = "watched"
    BY <2>3 DEF RecvAdd, TypeOK
  <2>4. ASSUME HangUp PROVE stage'[c] = stage[c] \/ (stage'[c] = "gone" /\ Spent(c)')
    <3>1. stage'[c] = stage[c] \/ (stage'[c] = "gone" /\ event.hup /\ event.conn = c)
      BY <2>4 DEF HangUp, TypeOK
    <3>2. pc = "hup"
      BY <2>4 DEF HangUp
    <3>3. QED
      BY <1>1, <3>1, <3>2 DEF SettledAt
  <2>5. stage' = stage \/ RecvAdd \/ HangUp \/ \E d \in Conn : AddStream(d)
    BY DEF Next, Handler, Outside, RecvNothing, RecvClose, Poll, PollFails, EndTurn,
           TakeEvent, DropHandler, Rotate, Spawn, Write, CloseEnd, ReadLine, ReadTail,
           StopReading, Terminated, vars, handler, outside
  <2>6. QED
    BY <2>1, <2>2, <2>3, <2>4, <2>5
<1>5. QED
  BY <1>2, <1>3, <1>4, Zenon DEF SettledAt

-----------------------------------------------------------------------------
(* The end of riffol.                                                      *)

LEMMA ClosingStep ==
  TypeOK /\ Sorted /\ Closing /\ [Next]_vars => Closing'
<1> SUFFICES ASSUME TypeOK, Sorted, Closing, [Next]_vars PROVE Closing'
  OBVIOUS
<1>1. ASSUME NEW c \in Conn, Spawn(c) \/ Write(c) \/ CloseEnd(c) PROVE Closing'
  <2>1. /\ UNCHANGED <<dropped, finished, chan, stage, closed, pc>>
        /\ ~dropped \/ \A d \in Conn : writer'[d] # "unborn" => writer[d] # "unborn"
        /\ \A d \in Conn : writer[d] = "closed" => writer'[d] = "closed"
    BY <1>1 DEF Spawn, Write, CloseEnd, handler, TypeOK
  <2>2. QED
    BY <2>1 DEF Closing, TypeOK
<1>2. ASSUME NEW c \in Conn, AddStream(c) PROVE Closing'
  <2>1. /\ ~dropped /\ UNCHANGED <<dropped, finished, writer, closed, pc>>
        /\ chan' = Append(chan, c) /\ stage' = [stage EXCEPT ![c] = "added"]
    BY <1>2 DEF AddStream, outside, handler
  <2>2. /\ chan \in Seq(Conn \cup {Close}) /\ Len(chan) \in Nat /\ Len(chan') = Len(chan) + 1
        /\ \A i \in 1 .. Len(chan) : chan'[i] = chan[i]
        /\ chan'[Len(chan) + 1] = c
    BY <2>1 DEF TypeOK
  <2>3. c # Close
    BY StreamsAssumption
  <2>4. ASSUME NEW d \in Conn, stage'[d] = "added" PROVE \E i \in 1 .. Len(chan') : chan'[i] = d
    <3>1. CASE d = c
      BY <2>2, <3>1
    <3>2. CASE d # c
      <4>1. PICK i \in 1 .. Len(chan) : chan[i] = d
        BY <2>1, <2>4, <3>2 DEF Closing, TypeOK
      <4>2. i \in 1 .. Len(chan') /\ chan'[i] = d
        BY <2>2, <4>1
      <4>3. QED
        BY <4>2
    <3>3. QED
      BY <3>1, <3>2
  <2>5. \A i \in 1 .. Len(chan') : chan'[i] # Close
    BY <2>1, <2>2, <2>3 DEF Closing
  <2>6. QED
    BY <2>1, <2>4, <2>5 DEF Closing
<1>3. CASE DropHandler
  <2>1. /\ dropped' /\ UNCHANGED <<writer, stage, closed, pc>> /\ chan' = Append(chan, Close) /\ ~dropped
        /\ \A c \in Conn : writer[c] # "unborn" => stage[c] # "none"
        /\ \A c \in finished' : writer[c] = "closed"
    BY <1>3 DEF DropHandler, handler
  <2>2. /\ chan \in Seq(Conn \cup {Close}) /\ Len(chan) \in Nat /\ Len(chan') = Len(chan) + 1
        /\ \A i \in 1 .. Len(chan) : chan'[i] = chan[i]
    BY <2>1 DEF TypeOK
  <2>3. ~closed /\ \A i \in 1 .. Len(chan) : chan[i] # Close
    BY <2>1 DEF Closing
  <2>4. \A d \in Conn : stage'[d] = "added" => \E i \in 1 .. Len(chan') : chan'[i] = d
    BY <2>1, <2>2 DEF Closing
  <2>5. \A i \in 1 .. Len(chan') : chan'[i] = Close => dropped' /\ i = Len(chan')
    BY <2>1, <2>2, <2>3
  <2>6. QED
    BY <2>1, <2>3, <2>4, <2>5 DEF Closing
<1>4. ASSUME RecvAdd \/ RecvClose PROVE Closing'
  <2>1. /\ pc = "recv" /\ chan # <<>> /\ UNCHANGED <<dropped, finished, writer>>
        /\ pc' = "poll" /\ chan' = Tail(chan)
        /\ \A d \in Conn : stage'[d] = stage[d] \/ (d = Head(chan) /\ stage'[d] \in {"watched", "deaf"})
        /\ \/ Head(chan) # Close /\ closed' = closed
           \/ Head(chan) = Close /\ stage' = stage
    BY <1>4 DEF RecvAdd, RecvClose, NextOnClose, outside, TypeOK
  <2>2. /\ chan \in Seq(Conn \cup {Close}) /\ Len(chan) \in Nat /\ Len(chan) > 0 /\ Len(chan') = Len(chan) - 1
        /\ \A i \in 1 .. Len(chan') : chan'[i] = chan[i + 1] /\ i + 1 \in 1 .. Len(chan)
        /\ Head(chan) = chan[1] /\ 1 \in 1 .. Len(chan)
    BY <2>1 DEF TypeOK
  <2>3. ~closed
    BY <2>1 DEF Closing
  <2>4. ASSUME NEW d \in Conn, stage'[d] = "added" PROVE \E i \in 1 .. Len(chan') : chan'[i] = d
    <3>1. stage[d] = "added"
      BY <2>1, <2>4
    <3>2. PICK i \in 1 .. Len(chan) : chan[i] = d
      BY <3>1 DEF Closing
    <3>3. i # 1
      <4>1. d # Close
        BY StreamsAssumption
      <4>2. ASSUME i = 1 PROVE FALSE
        <5>1. Head(chan) = d
          BY <2>2, <3>2, <4>2
        <5>2. CASE RecvClose
          BY <5>1, <5>2, <4>1 DEF RecvClose
        <5>3. CASE RecvAdd
          BY <5>1, <5>3, <2>4 DEF RecvAdd, TypeOK
        <5>4. QED
          BY <1>4, <5>2, <5>3
      <4>3. QED
        BY <4>2
    <3>4. i - 1 \in 1 .. Len(chan') /\ chan'[i - 1] = d
      BY <2>2, <3>2, <3>3
    <3>5. QED
      BY <3>4
  <2>5. ASSUME NEW i \in 1 .. Len(chan'), chan'[i] = Close PROVE dropped' /\ i = Len(chan')
    <3>1. chan[i + 1] = Close /\ i + 1 \in 1 .. Len(chan)
      BY <2>2, <2>5
    <3>2. dropped /\ i + 1 = Len(chan)
      BY <3>1 DEF Closing
    <3>3. dropped'
      BY <2>1, <3>2
    <3>4. Len(chan') = Len(chan) - 1 /\ Len(chan) \in Nat /\ i \in 1 .. Len(chan')
      BY <2>2
    <3>5. i = Len(chan')
      BY <3>2, <3>4
    <3>6. QED
      BY <3>3, <3>5
  <2>6. closed' => dropped' /\ chan' = <<>> /\ pc' # "recv"
    <3>1. CASE Head(chan) # Close
      BY <2>1, <2>3, <3>1
    <3>2. CASE Head(chan) = Close
      <4>1. dropped /\ 1 = Len(chan)
        BY <2>2, <3>2 DEF Closing
      <4>2. chan' = <<>>
        BY <2>1, <2>2, <4>1
      <4>3. QED
        BY <2>1, <4>1, <4>2
    <3>3. QED
      BY <3>1, <3>2
  <2>7. dropped' => \A d \in Conn : writer'[d] # "unborn" => stage'[d] # "none"
    BY <2>1 DEF Closing
  <2>8. \A d \in finished' : writer'[d] = "closed"
    BY <2>1 DEF Closing
  <2>9. QED
    BY <2>4, <2>5, <2>6, <2>7, <2>8, Zenon DEF Closing
<1>5. ASSUME HangUp PROVE Closing'
  <2>1. /\ UNCHANGED <<dropped, finished, writer, chan, closed>> /\ pc' = "events"
        /\ \A d \in Conn : stage'[d] = stage[d] \/ stage'[d] = "gone"
    BY <1>5 DEF HangUp, outside, TypeOK
  <2>2. QED
    BY <2>1 DEF Closing
<1>6. CASE /\ UNCHANGED <<dropped, finished, writer, chan, stage, closed>>
           /\ pc' = "recv" => pc = "recv" \/ ~closed
  BY <1>6 DEF Closing
<1>7. \/ /\ UNCHANGED <<dropped, finished, writer, chan, stage, closed>>
         /\ pc' = "recv" => pc = "recv" \/ ~closed
      \/ RecvAdd \/ RecvClose \/ HangUp \/ DropHandler
      \/ \E c \in Conn : Spawn(c) \/ Write(c) \/ CloseEnd(c) \/ AddStream(c)
  BY DEF Next, Handler, Outside, RecvNothing, Poll, PollFails, EndTurn, TakeEvent, Rotate, ReadLine,
         ReadTail, NextOnLine, StopReading, Terminated, vars, handler, outside
<1>8. QED
  BY <1>1, <1>2, <1>3, <1>4, <1>5, <1>6, <1>7

LEMMA LastCallStep ==
  Calm /\ TypeOK /\ Clean /\ Drained /\ Sorted /\ Attentive /\ Settled /\ Closing /\ LastCall /\ [Next]_vars
    => LastCall'
<1> SUFFICES ASSUME Calm, TypeOK, Clean, Drained, Sorted, Attentive, Settled, Closing, LastCall, [Next]_vars
             PROVE  LastCall'
  OBVIOUS
<1>0. TypeOK'
  BY TypeStep
<1> SUFFICES ASSUME NEW c \in Conn, c \in finished', Data(c)' # <<>>,
                    closed', pc' \in {"events", "read", "hup"}
             PROVE  WillRead(c)'
  <2>1. finished' \subseteq Conn
    BY <1>0 DEF TypeOK
  <2>2. QED
    BY <2>1 DEF LastCall
<1>1. CASE Poll
  <2>1. closed /\ c \in finished /\ pc = "poll" /\ UNCHANGED <<pipe, buf, writer>>
    BY <1>1 DEF Poll, outside
  <2>2. dropped /\ chan = <<>> /\ writer[c] = "closed" /\ stage[c] # "none"
    BY <2>1 DEF Closing
  <2>3. stage[c] # "added"
    BY <2>2 DEF Closing
  <2>4. Data(c) # <<>> /\ SettledAt(c)
    BY <2>1 DEF Data, Settled
  <2>5. stage[c] = "watched"
    BY <2>2, <2>3, <2>4 DEF SettledAt, Spent, TypeOK, Stage
  <2>6. batch = {} /\ buf[c] = <<>>
    BY <2>1 DEF Sorted, Drained
  <2>7. ~WillRead(c)
    BY <2>1, <2>6 DEF WillRead
  <2>8. c \in edge
    BY <2>1, <2>4, <2>5, <2>7 DEF Attentive, Watched
  <2>9. pipe[c] # <<>>
    BY <2>4, <2>6 DEF Data, TypeOK
  <2> DEFINE ready == {d \in edge : Ready(d)}
  <2>10. PICK S \in Returned(ready) :
           batch' = {[conn |-> d, readable |-> pipe[d] # <<>>, hup |-> writer[d] = "closed"] : d \in S}
    BY <1>1 DEF Poll
  <2>11. c \in ready /\ ready \in SUBSET Conn
    BY <2>8, <2>9 DEF Ready, TypeOK
  <2>12. S = ready
    <3>1. /\ IsFiniteSet(ready) /\ Cardinality(ready) <= Cardinality(Conn)
          /\ Cardinality(ready) \in Nat /\ Cardinality(Conn) \in Nat /\ Capacity \in Nat
          /\ Cardinality(Conn) <= Capacity
      BY <2>11, FS_Subset, FS_CardinalityType, StreamsAssumption DEF Calm
    <3>2. S \in SUBSET ready /\ (S = ready \/ Cardinality(S) = Capacity)
      BY DEF Returned
    <3>3. /\ Cardinality(S) <= Cardinality(ready)
          /\ Cardinality(ready) = Cardinality(S) => ready = S
      BY <3>1, <3>2, FS_Subset
    <3>4. QED
      BY <3>1, <3>2, <3>3
  <2> DEFINE e == [conn |-> c, readable |-> pipe[c] # <<>>, hup |-> writer[c] = "closed"]
  <2>13. e \in batch'
    BY <2>10, <2>11, <2>12
  <2>14. e.conn = c /\ e.readable
    BY <2>9
  <2>15. QED
    BY <2>13, <2>14 DEF WillRead
<1>2. ASSUME closed, pc \in {"events", "read", "hup"}, c \in finished, Data(c) # <<>> PROVE WillRead(c)
  BY <1>2 DEF LastCall
<1>3. ASSUME NEW e \in batch, TakeEvent(e) PROVE WillRead(c)'
  <2>1. /\ closed /\ pc = "events" /\ c \in finished /\ event' = e /\ batch' = batch \ {e}
        /\ pc' = IF e.readable THEN "read" ELSE "hup"
    BY <1>3 DEF TakeEvent, outside
  <2>2. Data(c) # <<>>
    BY <1>3 DEF TakeEvent, Data
  <2>3. PICK x \in batch : x.conn = c /\ x.readable
    BY <1>2, <2>1, <2>2 DEF WillRead
  <2>4. CASE x = e
    BY <2>1, <2>3, <2>4 DEF WillRead
  <2>5. CASE x # e
    BY <2>1, <2>3, <2>5 DEF WillRead
  <2>6. QED
    BY <2>4, <2>5
<1>4. ASSUME NEW d \in Conn, ReadLine(d) \/ ReadTail(d) \/ StopReading(d) PROVE WillRead(c)'
  <2>1. /\ closed /\ pc = "read" /\ d = event.conn /\ c \in finished /\ UNCHANGED <<event, batch>>
        /\ pc' = "read" \/ ~ReadLine(d)
    BY <1>4 DEF ReadLine, ReadTail, StopReading, NextOnLine, outside
  <2>2. CASE d = c
    <3>1. ReadLine(c)
      BY <1>4, <2>2, NothingLeft
    <3>2. QED
      BY <2>1, <2>2, <3>1 DEF WillRead
  <2>3. CASE d # c
    <3>1. Data(c) # <<>>
      BY <1>4, <2>3, ReadsOne
    <3>2. PICK x \in batch : x.conn = c /\ x.readable
      BY <1>2, <2>1, <2>3, <3>1 DEF WillRead
    <3>3. QED
      BY <2>1, <3>2 DEF WillRead
  <2>4. QED
    BY <2>2, <2>3
<1>5. CASE HangUp
  <2>1. closed /\ pc = "hup" /\ c \in finished /\ batch' = batch
    BY <1>5 DEF HangUp, outside
  <2>2. Data(c) # <<>>
    BY <1>5 DEF HangUp, Data
  <2>3. QED
    BY <1>2, <2>1, <2>2 DEF WillRead
<1>6. ASSUME NEW d \in Conn, Write(d) PROVE WillRead(c)'
  <2>1. UNCHANGED <<closed, pc, event, batch, finished, buf>> /\ writer[d] # "closed"
    BY <1>6 DEF Write, handler
  <2>2. writer[c] = "closed"
    BY <2>1 DEF Closing
  <2>3. pipe'[c] = pipe[c]
    BY <1>6, <2>1, <2>2 DEF Write, TypeOK
  <2>4. Data(c) # <<>>
    BY <2>1, <2>3 DEF Data
  <2>5. QED
    BY <1>2, <2>1, <2>4 DEF WillRead
<1>7. CASE UNCHANGED <<closed, pc, event, batch, finished, pipe, buf>>
  <2>1. Data(c) # <<>>
    BY <1>7 DEF Data
  <2>2. QED
    BY <1>2, <1>7, <2>1 DEF WillRead
<1>8. CASE DropHandler
  BY <1>8 DEF DropHandler, handler, Closing
<1>9. \/ UNCHANGED <<closed, pc, event, batch, finished, pipe, buf>>
      \/ pc' \in {"poll", "recv", "ended"}
      \/ Poll \/ HangUp \/ DropHandler
      \/ \E e \in batch : TakeEvent(e)
      \/ \E d \in Conn : ReadLine(d) \/ ReadTail(d) \/ StopReading(d) \/ Write(d)
  BY DEF Next, Handler, Outside, RecvNothing, RecvAdd, RecvClose, NextOnClose, PollFails, EndTurn,
         Rotate, Spawn, AddStream, CloseEnd, Terminated, vars, handler, outside
<1>10. QED
  BY <1>1, <1>3, <1>4, <1>5, <1>6, <1>7, <1>8, <1>9

-----------------------------------------------------------------------------
(* Lines on their way, as Relay sees them.                                 *)

AsSent(p) == [no |-> p.no, whole |-> TRUE]
Q(s)  == [i \in 1 .. Len(s) |-> [no |-> s[i].no, whole |-> TRUE]]
Queue == [c \in Conn |-> Q(Data(c))]

LEMMA QueueTyped ==
  ASSUME NEW s \in Seq(Piece)
  PROVE  /\ Q(s) \in Seq(Line) /\ Len(Q(s)) = Len(s) /\ Len(s) \in Nat
         /\ \A i \in 1 .. Len(s) : Q(s)[i] = AsSent(s[i])
<1>1. ASSUME NEW i \in 1 .. Len(s) PROVE [no |-> s[i].no, whole |-> TRUE] \in Line
  <2>1. s[i] \in Piece
    OBVIOUS
  <2>2. s[i].no \in 0 .. MaxLines
    BY <2>1 DEF Piece
  <2>3. QED
    BY <2>2 DEF Line
<1>2. Len(s) \in Nat
  OBVIOUS
<1>3. Q(s) \in [1 .. Len(s) -> Line]
  BY <1>1 DEF Q
<1>4. Q(s) \in Seq(Line) /\ Len(Q(s)) = Len(s)
  BY <1>2, <1>3
<1>5. QED
  BY <1>2, <1>4 DEF Q, AsSent

LEMMA QueueAppend ==
  ASSUME NEW s \in Seq(Piece), NEW p \in Piece
  PROVE  Q(Append(s, p)) = Append(Q(s), AsSent(p)) /\ AsSent(p) \in Line
<1>1. /\ Append(s, p) \in Seq(Piece) /\ Len(Append(s, p)) = Len(s) + 1 /\ Len(s) \in Nat
      /\ \A i \in 1 .. Len(s) : Append(s, p)[i] = s[i]
      /\ Append(s, p)[Len(s) + 1] = p
  BY AppendProperties
<1>2. AsSent(p) \in Line
  <2>1. p.no \in 0 .. MaxLines
    BY DEF Piece
  <2>2. QED
    BY <2>1 DEF AsSent, Line
<1>3. /\ Q(s) \in Seq(Line) /\ Len(Q(s)) = Len(s)
      /\ \A i \in 1 .. Len(s) : Q(s)[i] = AsSent(s[i])
  BY QueueTyped
<1>4. /\ Append(Q(s), AsSent(p)) \in Seq(Line)
      /\ Len(Append(Q(s), AsSent(p))) = Len(s) + 1
      /\ \A i \in 1 .. Len(s) : Append(Q(s), AsSent(p))[i] = AsSent(s[i])
      /\ Append(Q(s), AsSent(p))[Len(s) + 1] = AsSent(p)
  BY <1>1, <1>2, <1>3, AppendProperties
<1>5. /\ Q(Append(s, p)) \in Seq(Line) /\ Len(Q(Append(s, p))) = Len(s) + 1
      /\ \A i \in 1 .. Len(s) + 1 : Q(Append(s, p))[i] = AsSent(Append(s, p)[i])
  BY <1>1, QueueTyped
<1>6. \A i \in 1 .. Len(s) + 1 : Q(Append(s, p))[i] = Append(Q(s), AsSent(p))[i]
  BY <1>1, <1>4, <1>5
<1>7. QED
  BY <1>2, <1>4, <1>5, <1>6, SeqEqual

LEMMA QueueTail ==
  ASSUME NEW s \in Seq(Piece), s # <<>>
  PROVE  /\ Q(s) # <<>> /\ Head(Q(s)) = AsSent(s[1])
         /\ Q(SubSeq(s, 2, Len(s))) = Tail(Q(s))
<1>1. Len(s) \in Nat /\ Len(s) > 0
  OBVIOUS
<1>2. /\ Q(s) \in Seq(Line) /\ Len(Q(s)) = Len(s)
      /\ \A i \in 1 .. Len(s) : Q(s)[i] = AsSent(s[i])
  BY QueueTyped
<1>3. Q(s) # <<>> /\ Head(Q(s)) = AsSent(s[1])
  BY <1>1, <1>2
<1>4. /\ Tail(Q(s)) \in Seq(Line) /\ Len(Tail(Q(s))) = Len(s) - 1
      /\ \A i \in 1 .. Len(s) - 1 : Tail(Q(s))[i] = AsSent(s[i + 1])
  BY <1>1, <1>2, <1>3
<1>5. /\ SubSeq(s, 2, Len(s)) = Tail(s) /\ Tail(s) \in Seq(Piece) /\ Len(Tail(s)) = Len(s) - 1
      /\ \A i \in 1 .. Len(Tail(s)) : Tail(s)[i] = s[i + 1]
  BY HeadTailProperties, TailIsSubSeq
<1>6. /\ Q(Tail(s)) \in Seq(Line) /\ Len(Q(Tail(s))) = Len(s) - 1
      /\ \A i \in 1 .. Len(s) - 1 : Q(Tail(s))[i] = AsSent(s[i + 1])
  BY <1>5, QueueTyped
<1>7. Q(Tail(s)) = Tail(Q(s))
  BY <1>1, <1>4, <1>6, SeqEqual
<1>8. QED
  BY <1>3, <1>5, <1>7

-----------------------------------------------------------------------------
(* Each step is one of Relay or none of its business.                      *)

LEMMA QueueOf ==
  ASSUME NEW D, \A d \in Conn : Data(d)' = D[d]
  PROVE  Queue' = [d \in Conn |-> Q(D[d])]
<1>1. ASSUME NEW d \in Conn PROVE Q(Data(d))' = Q(D[d])
  BY DEF Q
<1>2. QED
  BY <1>1 DEF Queue

\* A line is read at once, and arrives.
LEMMA OneArrives ==
  ASSUME Calm, TypeOK, Uncut, NEW c \in Conn, ReadLine(c)
  PROVE  /\ Data(c) # <<>>
         /\ Data(c)' = SubSeq(Data(c), 2, Len(Data(c)))
         /\ out' = [out EXCEPT ![c] = Append(@, AsSent(Data(c)[1]))]
<1>1. /\ Data(c) \in Seq(Piece) /\ Len(Data(c)) \in Nat
      /\ \A i \in 1 .. Len(Data(c)) : Data(c)[i].part = "whole"
  <2>1. Data(c) \in Seq(Whole)
    BY DEF Uncut, Data
  <2>2. QED
    BY <2>1 DEF Whole, TypeOK, Data
<1>2. PICK i \in 1 .. Len(Data(c)) :
        /\ EndsLine(Data(c), i) /\ ReadUpTo(c, i)
        /\ WriteLine(c, [no |-> Data(c)[i].no, whole |-> Data(c)[i].part = "whole" \/ i > 1])
  BY DEF ReadLine
<1>3. i = 1
  BY <1>1, <1>2 DEF EndsLine
<1>4. 1 \in 0 .. Len(Data(c)) /\ Data(c) # <<>>
  BY <1>1, <1>2, <1>3
<1>5. Data(c)' = SubSeq(Data(c), 2, Len(Data(c)))
  <2>1. Data(c)' = SubSeq(Data(c), 1 + 1, Len(Data(c)))
    BY <1>2, <1>3, <1>4, ReadRest DEF TypeOK
  <2>2. QED
    BY <2>1
<1>6. WriteLine(c, [no |-> Data(c)[1].no, whole |-> TRUE])
  <2>1. (Data(c)[1].part = "whole" \/ 1 > 1) = TRUE
    BY <1>1, <1>2, <1>3
  <2>2. QED
    BY <1>2, <1>3, <2>1
<1>7. SinkOf[c] \notin Files /\ "syslog" \notin Faults
  BY DEF Calm
<1>8. out' = [out EXCEPT ![c] = Append(@, AsSent(Data(c)[1]))]
  BY <1>6, <1>7 DEF WriteLine, AsSent
<1>9. QED
  BY <1>4, <1>5, <1>8

LEMMA NothingCut ==
  ASSUME TypeOK, Uncut, NEW c \in Conn
  PROVE  ~ReadTail(c) /\ (StopReading(c) => Data(c) = <<>>)
<1>1. /\ Len(Data(c)) \in Nat /\ Data(c) \in Seq(Piece)
      /\ \A i \in 1 .. Len(Data(c)) : Data(c)[i].part = "whole"
  <2>1. Data(c) \in Seq(Whole)
    BY DEF Uncut, Data
  <2>2. QED
    BY <2>1 DEF Whole, TypeOK, Data
<1>2. NoNewline(Data(c)) => Data(c) = <<>>
  BY <1>1 DEF NoNewline
<1>3. ~ReadBad(c)
  BY <1>1 DEF ReadBad
<1>4. QED
  BY <1>2, <1>3 DEF ReadTail, StopReading, ReadBlocks, ReadEof

\* What Relay knows of a state.
Open == {c \in Conn : writer[c] # "closed"}
Over == (pc = "ended")
Seen == <<Open, Queue, out, dropped, finished, Over>>

\* Steps of which Relay sees nothing.
LEMMA Unseen ==
  ASSUME \A c \in Conn : Data(c)' = Data(c),
         \A c \in Conn : writer'[c] # "closed" <=> writer[c] # "closed",
         pc' = "ended" <=> pc = "ended",
         UNCHANGED <<out, dropped, finished>>
  PROVE  UNCHANGED Seen
<1> DEFINE D == [c \in Conn |-> Data(c)]
<1>1. \A c \in Conn : Data(c)' = D[c]
  OBVIOUS
<1>2. Queue' = [c \in Conn |-> Q(D[c])]
  <2> HIDE DEF D
  <2>1. QED
    BY <1>1, QueueOf
<1>3. Queue' = Queue
  BY <1>2 DEF Queue
<1>4. Open' = Open
  BY DEF Open
<1>5. Over' = Over
  BY DEF Over
<1>6. QED
  BY <1>3, <1>4, <1>5 DEF Seen

LEMMA AppendLast ==
  ASSUME NEW s \in Seq(Piece), NEW t \in Seq(Piece), NEW p \in Piece
  PROVE  s \o Append(t, p) = Append(s \o t, p)
<1>1. s \o t \in Seq(Piece) /\ <<p>> \in Seq(Piece)
  OBVIOUS
<1>2. Append(t, p) = t \o <<p>>
  BY AppendIsConcat
<1>3. Append(s \o t, p) = (s \o t) \o <<p>>
  BY <1>1, AppendIsConcat
<1>4. (s \o t) \o <<p>> = s \o (t \o <<p>>)
  BY <1>1, ConcatAssociative
<1>5. QED
  BY <1>2, <1>3, <1>4

LEMMA RelaySend ==
  ASSUME Calm, TypeOK, Uncut, NEW c \in Conn, Write(c)
  PROVE  /\ c \in Open /\ UNCHANGED <<Open, out, dropped, finished, Over>>
         /\ \E item \in Line : Queue' = [Queue EXCEPT ![c] = Append(@, item)]
<1>1. /\ pipe' = [pipe EXCEPT ![c] = Append(@, [no |-> lines[c] + 1, part |-> "whole"])]
      /\ writer[c] = "open" /\ writer' = [writer EXCEPT ![c] = "open"]
      /\ UNCHANGED <<buf, out, pc, dropped, finished>> /\ lines[c] < MaxLines
  BY DEF Write, Uncut, handler, Calm
<1> DEFINE p == [no |-> lines[c] + 1, part |-> "whole"]
<1>2. p \in Piece
  <2>1. lines[c] + 1 \in 0 .. MaxLines
    BY <1>1, StreamsAssumption DEF TypeOK
  <2>2. QED
    BY <2>1 DEF Piece, Part
<1>3. pipe[c] \in Seq(Piece) /\ buf[c] \in Seq(Piece) /\ Data(c) \in Seq(Piece)
  BY DEF TypeOK, Data
<1>4. Data(c)' = Append(Data(c), p)
  <2>1. pipe'[c] = Append(pipe[c], p) /\ buf'[c] = buf[c]
    BY <1>1 DEF TypeOK
  <2>2. buf[c] \o Append(pipe[c], p) = Append(buf[c] \o pipe[c], p)
    <3> HIDE DEF p
    <3>1. QED
      BY <1>2, <1>3, AppendLast
  <2>3. QED
    BY <2>1, <2>2 DEF Data
<1> HIDE DEF p
<1>5. \A d \in Conn \ {c} : Data(d)' = Data(d)
  BY <1>1 DEF Data, TypeOK
<1> DEFINE D == [d \in Conn |-> IF d = c THEN Append(Data(c), p) ELSE Data(d)]
<1>6. \A d \in Conn : Data(d)' = D[d]
  BY <1>4, <1>5
<1>7. Queue' = [d \in Conn |-> Q(D[d])]
  <2> HIDE DEF D
  <2>1. QED
    BY <1>6, QueueOf
<1>8. /\ AsSent(p) \in Line
      /\ Q(D[c]) = Append(Q(Data(c)), AsSent(p))
      /\ \A d \in Conn \ {c} : Q(D[d]) = Q(Data(d))
  BY <1>2, <1>3, QueueAppend
<1>9. Queue' = [Queue EXCEPT ![c] = Append(@, AsSent(p))]
  <2> HIDE DEF D
  <2>1. QED
    BY <1>7, <1>8 DEF Queue
<1>10. c \in Open /\ Open' = Open
  BY <1>1 DEF Open, TypeOK
<1>11. Over' = Over
  BY <1>1 DEF Over
<1>12. QED
  BY <1>1, <1>8, <1>9, <1>10, <1>11

LEMMA RelayDeliver ==
  ASSUME Calm, TypeOK, Uncut, NEW c \in Conn, ReadLine(c)
  PROVE  /\ ~Over /\ Queue[c] # <<>> /\ UNCHANGED <<Open, dropped, finished, Over>>
         /\ out' = [out EXCEPT ![c] = Append(@, Head(Queue[c]))]
         /\ Queue' = [Queue EXCEPT ![c] = Tail(@)]
<1>1. UNCHANGED <<writer, dropped, finished>> /\ pc = "read" /\ pc' = "read"
  BY DEF ReadLine, NextOnLine, outside
<1>2. /\ Data(c) # <<>>
      /\ Data(c)' = SubSeq(Data(c), 2, Len(Data(c)))
      /\ out' = [out EXCEPT ![c] = Append(@, AsSent(Data(c)[1]))]
  BY OneArrives
<1>3. Data(c) \in Seq(Piece)
  BY DEF TypeOK, Data
<1>4. /\ Q(Data(c)) # <<>> /\ Head(Q(Data(c))) = AsSent(Data(c)[1])
      /\ Q(SubSeq(Data(c), 2, Len(Data(c)))) = Tail(Q(Data(c)))
  BY <1>2, <1>3, QueueTail
<1>5. \A d \in Conn \ {c} : Data(d)' = Data(d)
  BY ReadsOne
<1> DEFINE D == [d \in Conn |-> IF d = c THEN SubSeq(Data(c), 2, Len(Data(c))) ELSE Data(d)]
<1>6. \A d \in Conn : Data(d)' = D[d]
  BY <1>2, <1>5
<1>7. Queue' = [d \in Conn |-> Q(D[d])]
  <2> HIDE DEF D
  <2>1. QED
    BY <1>6, QueueOf
<1>8. /\ Q(D[c]) = Tail(Q(Data(c)))
      /\ \A d \in Conn \ {c} : Q(D[d]) = Q(Data(d))
  BY <1>4
<1>9. Queue[c] = Q(Data(c))
  BY DEF Queue
<1>10. Queue' = [Queue EXCEPT ![c] = Tail(@)]
  <2> HIDE DEF D
  <2>1. QED
    BY <1>7, <1>8 DEF Queue
<1>11. Open' = Open
  BY <1>1 DEF Open
<1>12. ~Over /\ Over' = Over
  BY <1>1 DEF Over
<1>13. QED
  BY <1>1, <1>2, <1>4, <1>9, <1>10, <1>11, <1>12

LEMMA RelayStep ==
  Calm /\ TypeOK /\ Uncut /\ Closing /\ LastCall /\ [Next]_vars => [R!Next]_(R!vars)
<1> SUFFICES ASSUME Calm, TypeOK, Uncut, Closing, LastCall, [Next]_vars
             PROVE  R!Next \/ UNCHANGED Seen
  BY DEF R!vars, Seen, Open, Over, Queue, Q
<1>1. ASSUME NEW c \in Conn, Write(c) PROVE R!Next
  <2>1. R!Send(c)
    BY <1>1, RelaySend DEF R!Send, Open, Over, Queue, Q
  <2>2. QED
    BY <2>1 DEF R!Next
<1>2. ASSUME NEW c \in Conn, ReadLine(c) PROVE R!Next
  <2>1. R!Deliver(c)
    BY <1>2, RelayDeliver DEF R!Deliver, Open, Over, Queue, Q
  <2>2. QED
    BY <2>1 DEF R!Next
<1>3. ASSUME NEW c \in Conn, CloseEnd(c) PROVE R!Next
  <2>1. /\ c \in Open /\ Open' = Open \ {c}
        /\ UNCHANGED <<pipe, buf, out, dropped, finished, pc>>
    BY <1>3 DEF CloseEnd, Open, handler, TypeOK
  <2>2. Queue' = Queue /\ Over' = Over
    BY <2>1 DEF Queue, Q, Data, Over
  <2>3. R!Finish(c)
    BY <2>1, <2>2 DEF R!Finish, Open, Over, Queue, Q
  <2>4. QED
    BY <2>3 DEF R!Next
<1>4. CASE DropHandler
  <2>1. /\ ~dropped /\ dropped' = TRUE /\ finished' = Conn \ Open
        /\ UNCHANGED <<writer, pipe, buf, out, pc>>
    BY <1>4 DEF DropHandler, Open, handler
  <2>2. Queue' = Queue /\ Over' = Over /\ Open' = Open
    BY <2>1 DEF Queue, Q, Data, Over, Open
  <2>3. R!Shut
    BY <2>1, <2>2 DEF R!Shut, Open, Over, Queue, Q
  <2>4. QED
    BY <2>3 DEF R!Next
<1>5. CASE EndTurn /\ closed
  <2>1. /\ pc = "events" /\ batch = {} /\ pc' = "ended"
        /\ UNCHANGED <<writer, pipe, buf, out, dropped, finished>>
    BY <1>5 DEF EndTurn, outside
  <2>2. Queue' = Queue /\ ~Over /\ Over' = TRUE /\ Open' = Open
    BY <2>1 DEF Queue, Q, Data, Over, Open
  <2>3. dropped
    BY <1>5 DEF Closing
  <2>4. \A c \in finished : Queue[c] = <<>>
    <3>1. ASSUME NEW c \in finished PROVE c \in Conn /\ Data(c) = <<>>
      BY <1>5, <2>1 DEF LastCall, WillRead, TypeOK
    <3>2. QED
      BY <3>1 DEF Queue, Q
  <2>5. R!End
    BY <2>1, <2>2, <2>3, <2>4 DEF R!End, Open, Over, Queue, Q
  <2>6. QED
    BY <2>5 DEF R!Next
<1>6. ASSUME NEW c \in Conn, StopReading(c) PROVE UNCHANGED Seen
  <2>1. UNCHANGED <<writer, out, dropped, finished>> /\ pc = "read" /\ pc' = "hup"
    BY <1>6 DEF StopReading, outside
  <2>2. Data(c)' = Data(c)
    BY <1>6, NothingCut, NothingLeft, UncutIsClean
  <2>3. \A d \in Conn : Data(d)' = Data(d)
    BY <1>6, <2>2, ReadsOne
  <2>4. QED
    BY <2>1, <2>3, Unseen
<1>7. CASE /\ UNCHANGED <<pipe, buf, out, dropped, finished>>
           /\ \A c \in Conn : writer'[c] # "closed" <=> writer[c] # "closed"
           /\ pc' = "ended" <=> pc = "ended"
  <2>1. \A c \in Conn : Data(c)' = Data(c)
    BY <1>7 DEF Data
  <2>2. QED
    BY <1>7, <2>1, Unseen
<1>8. \A c \in Conn : ~ReadTail(c)
  BY NothingCut
<1>9. \/ /\ UNCHANGED <<pipe, buf, out, dropped, finished>>
         /\ \A c \in Conn : writer'[c] # "closed" <=> writer[c] # "closed"
         /\ pc' = "ended" <=> pc = "ended"
      \/ DropHandler \/ (EndTurn /\ closed)
      \/ \E c \in Conn : ReadLine(c) \/ ReadTail(c) \/ StopReading(c) \/ Write(c) \/ CloseEnd(c)
  BY DEF Calm, Next, Handler, Outside, RecvNothing, RecvAdd, RecvClose, NextOnClose, Poll, PollFails,
         HangUp, TakeEvent, EndTurn, Rotate, Spawn, AddStream, Terminated, vars, handler, outside, TypeOK
<1>10. QED
  BY <1>1, <1>2, <1>3, <1>4, <1>5, <1>6, <1>7, <1>8, <1>9

-----------------------------------------------------------------------------

\* Stream redirection implements Relay when nothing fails: see Relayed.  Files are
\* left out because only the first line ever reaches one, and a poll must have
\* room for every pipe because the one after Close is the last.
THEOREM RelayedCorrect == ASSUME Calm PROVE Spec => Relayed
<1>1. Init => Uncut /\ Clean /\ Drained /\ Sorted /\ Attentive /\ Settled /\ Closing /\ LastCall
  <2>1. <<>> \in Seq(Whole) /\ <<>> \in Seq(Good)
    OBVIOUS
  <2>2. Init => Uncut /\ Clean /\ Drained
    BY <2>1 DEF Init, Uncut, Clean, Drained
  <2>3. Init => Sorted /\ Attentive /\ Settled
    BY DEF Init, Sorted, Attentive, Watched, Settled, SettledAt
  <2>4. Init => Closing /\ LastCall
    BY DEF Init, Closing, LastCall
  <2>5. QED
    BY <2>2, <2>3, <2>4
<1>2. Init => R!Init
  <2> SUFFICES ASSUME Init PROVE R!Init
    OBVIOUS
  <2>1. Queue = [c \in Conn |-> <<>>]
    BY DEF Init, Queue, Q, Data
  <2>2. QED
    BY <2>1 DEF Init, R!Init, Queue, Q
<1>3. Faults = {} /\ "bad" \notin Faults
  BY DEF Calm
<1>4. TypeOK /\ Uncut /\ Clean /\ Drained /\ Sorted /\ Attentive /\ Settled /\ Closing /\ LastCall /\ [Next]_vars
        => Uncut' /\ Clean' /\ Drained' /\ Sorted' /\ Attentive' /\ Settled' /\ Closing' /\ LastCall'
  BY <1>3, UncutStep, CleanStep, DrainedStep, SortedStep, AttentiveStep, SettledStep, ClosingStep, LastCallStep
<1>5. TypeOK /\ Uncut /\ Closing /\ LastCall /\ [Next]_vars => [R!Next]_(R!vars)
  BY RelayStep
<1>6. QED
  BY <1>1, <1>2, <1>4, <1>5, TypeCorrect, PTL DEF Spec, Relayed, R!Spec
=============================================================================
