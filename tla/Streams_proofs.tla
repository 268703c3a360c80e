--------------------------- MODULE Streams_proofs ---------------------------
(***************************************************************************)
(* For all pipes, destinations and faults: the types, that no edge of      *)
(* readiness is lost, and that lines arrive in the order in which they     *)
(* were written, none of them twice.                                       *)
(***************************************************************************)
EXTENDS Streams, FiniteSetTheorems, SequenceTheorems, TLAPS

-----------------------------------------------------------------------------
(* Lemmas about reading.                                                   *)

\* What is read is taken away from the front: no piece of another kind appears.
LEMMA ReadUpToTyped ==
  ASSUME NEW T, pipe \in [Conn -> Seq(T)], buf \in [Conn -> Seq(T)],
         NEW c \in Conn, NEW i \in 0 .. Len(Data(c)), ReadUpTo(c, i)
  PROVE  pipe' \in [Conn -> Seq(T)] /\ buf' \in [Conn -> Seq(T)]
<1>1. Data(c) \in Seq(T) /\ Len(Data(c)) = Len(buf[c]) + Len(pipe[c])
  BY DEF Data
<1>2. SubSeq(Data(c), i + 1, Len(Data(c))) \in Seq(T)
  <2>1. \A k \in i + 1 .. Len(Data(c)) : Data(c)[k] \in T
    BY <1>1
  <2>2. QED
    BY <1>1, <2>1, SubSeqProperties
<1>3. i <= Len(buf[c]) => SubSeq(buf[c], i + 1, Len(buf[c])) \in Seq(T)
  <2>1. \A k \in i + 1 .. Len(buf[c]) : buf[c][k] \in T
    OBVIOUS
  <2>2. QED
    BY <1>1, <2>1, SubSeqProperties
<1>4. <<>> \in Seq(T)
  OBVIOUS
<1>5. CASE i <= Len(buf[c])
  BY <1>3, <1>5 DEF ReadUpTo
<1>6. CASE ~(i <= Len(buf[c]))
  BY <1>2, <1>4, <1>6 DEF ReadUpTo
<1>7. QED
  BY <1>5, <1>6

\* When all is read nothing is left, in the pipe or in the buffer, and other
\* connections have what they had.
LEMMA ReadAll ==
  ASSUME NEW T, pipe \in [Conn -> Seq(T)], buf \in [Conn -> Seq(T)],
         NEW c \in Conn, ReadUpTo(c, Len(Data(c)))
  PROVE  Data(c)' = <<>>
<1>1. Data(c) \in Seq(T) /\ Len(Data(c)) = Len(buf[c]) + Len(pipe[c])
  BY DEF Data
<1>2. CASE Len(Data(c)) <= Len(buf[c])
  <2>1. pipe[c] = <<>>
    BY <1>1, <1>2, EmptySeq
  <2>2. buf'[c] = SubSeq(buf[c], Len(buf[c]) + 1, Len(buf[c])) /\ pipe'[c] = <<>>
    BY <1>1, <1>2, <2>1 DEF ReadUpTo
  <2>3. QED
    BY <2>2 DEF Data
<1>3. CASE ~(Len(Data(c)) <= Len(buf[c]))
  <2>1. buf'[c] = SubSeq(Data(c), Len(Data(c)) + 1, Len(Data(c))) /\ pipe'[c] = <<>>
    BY <1>3 DEF ReadUpTo
  <2>2. QED
    BY <1>1, <2>1 DEF Data
<1>4. QED
  BY <1>2, <1>3

LEMMA ReadOthers ==
  ASSUME pipe \in [Conn -> Seq(Piece)], buf \in [Conn -> Seq(Piece)],
         NEW c \in Conn, NEW d \in Conn \ {c}, NEW i, ReadUpTo(c, i)
  PROVE  pipe'[d] = pipe[d] /\ buf'[d] = buf[d]
BY DEF ReadUpTo

-----------------------------------------------------------------------------
(* Types.                                                                  *)

\* write_line() adds at most a line, and creates none but files.
LEMMA WriteTyped ==
  ASSUME TypeOK, NEW c \in Conn, NEW line \in Line, WriteLine(c, line)
  PROVE  out' \in [Conn -> Seq(Line)] /\ files' \in SUBSET Files
<1>1. Append(out[c], line) \in Seq(Line)
  BY DEF TypeOK
<1>2. QED
  BY <1>1 DEF WriteLine, TypeOK

\* One event for each pipe that poll returns, so no more than it may return.
LEMMA PollTyped ==
  ASSUME TypeOK, NEW S \in SUBSET Conn, Cardinality(S) <= Capacity,
         batch' = {[conn |-> c, readable |-> pipe[c] # <<>>, hup |-> writer[c] = "closed"] : c \in S}
  PROVE  batch' \in SUBSET Event /\ IsFiniteSet(batch') /\ Cardinality(batch') <= Capacity
<1> DEFINE f == [c \in S |-> [conn |-> c, readable |-> pipe[c] # <<>>, hup |-> writer[c] = "closed"]]
<1>1. IsFiniteSet(S)
  BY StreamsAssumption, FS_Subset
<1>2. f \in Surjection(S, batch')
  BY DEF Surjection
<1>3. IsFiniteSet(batch') /\ Cardinality(batch') <= Cardinality(S)
  BY <1>1, <1>2, FS_Surjection
<1>4. Cardinality(batch') \in Nat /\ Cardinality(S) \in Nat /\ Capacity \in Nat
  BY <1>1, <1>3, FS_CardinalityType, StreamsAssumption
<1>5. \A c \in S : [conn |-> c, readable |-> pipe[c] # <<>>, hup |-> writer[c] = "closed"] \in Event
  <2>1. \A c \in S : (pipe[c] # <<>>) \in BOOLEAN /\ (writer[c] = "closed") \in BOOLEAN
    OBVIOUS
  <2>2. QED
    BY <2>1, Zenon DEF Event
<1>6. QED
  BY <1>3, <1>4, <1>5

LEMMA TypeStep == TypeOK /\ [Next]_vars => TypeOK'
<1> SUFFICES ASSUME TypeOK, [Next]_vars PROVE TypeOK'
  OBVIOUS
<1> USE DEF outside, handler
<1>1. ASSUME NEW c \in Conn, Spawn(c) \/ AddStream(c) \/ CloseEnd(c) PROVE TypeOK'
  <2>1. chan' \in Seq(Conn \cup {Close})
    <3>1. Append(chan, c) \in Seq(Conn \cup {Close})
      BY AppendProperties DEF TypeOK
    <3>2. QED
      BY <1>1, <3>1 DEF Spawn, AddStream, CloseEnd, TypeOK
  <2>2. writer' \in [Conn -> {"unborn", "open", "mid", "closed"}] /\ stage' \in [Conn -> Stage]
    BY <1>1 DEF Spawn, AddStream, CloseEnd, TypeOK, Stage
  <2>3. edge' \in SUBSET Conn
    BY <1>1 DEF Spawn, AddStream, CloseEnd, Raise, TypeOK
  <2>4. QED
    BY <1>1, <2>1, <2>2, <2>3 DEF Spawn, AddStream, CloseEnd, TypeOK
<1>2. ASSUME NEW c \in Conn, Write(c) PROVE TypeOK'
  <2>1. edge' \in SUBSET Conn
    BY <1>2 DEF Write, Raise, TypeOK
  <2>2. /\ lines' \in [Conn -> 0 .. MaxLines]
        /\ pipe' \in [Conn -> Seq(Piece)]
        /\ writer' \in [Conn -> {"unborn", "open", "mid", "closed"}]
    <3>1. CASE writer[c] = "open"
      <4>1. lines[c] + 1 \in 1 .. MaxLines /\ lines' = [lines EXCEPT ![c] = @ + 1]
        BY <1>2, <3>1, StreamsAssumption DEF Write, TypeOK
      <4>2. PICK part \in Part :
              /\ pipe' = [pipe EXCEPT ![c] = Append(@, [no |-> lines[c] + 1, part |-> part])]
              /\ writer' = [writer EXCEPT ![c] = IF part = "first" THEN "mid" ELSE "open"]
        BY <1>2, <3>1 DEF Write, Part
      <4>3. [no |-> lines[c] + 1, part |-> part] \in Piece
        BY <4>1 DEF Piece
      <4>4. Append(pipe[c], [no |-> lines[c] + 1, part |-> part]) \in Seq(Piece)
        BY <4>3, AppendProperties DEF TypeOK
      <4>5. QED
        BY <4>1, <4>2, <4>4 DEF TypeOK
    <3>2. CASE writer[c] = "mid"
      <4>1. lines' = lines /\ writer' = [writer EXCEPT ![c] = "open"]
        BY <1>2, <3>2 DEF Write
      <4>2. pipe' = [pipe EXCEPT ![c] = Append(@, [no |-> lines[c], part |-> "last"])]
        BY <1>2, <3>2 DEF Write
      <4>3. [no |-> lines[c], part |-> "last"] \in Piece
        BY DEF TypeOK, Piece, Part
      <4>4. Append(pipe[c], [no |-> lines[c], part |-> "last"]) \in Seq(Piece)
        BY <4>3, AppendProperties DEF TypeOK
      <4>5. QED
        BY <4>1, <4>2, <4>4 DEF TypeOK
    <3>3. QED
      BY <1>2, <3>1, <3>2 DEF Write
  <2>3. QED
    BY <1>2, <2>1, <2>2 DEF Write, TypeOK
<1>3. ASSUME DropHandler PROVE TypeOK'
  BY <1>3 DEF DropHandler, TypeOK
<1>4. ASSUME NEW f \in Files, Rotate(f) PROVE TypeOK'
  BY <1>4 DEF Rotate, TypeOK
<1>5. ASSUME RecvNothing \/ RecvClose PROVE TypeOK'
  <2>1. chan # <<>> => Tail(chan) \in Seq(Conn \cup {Close})
    BY HeadTailProperties DEF TypeOK
  <2>2. QED
    BY <1>5, <2>1 DEF RecvNothing, RecvClose, NextOnClose, TypeOK
<1>6. ASSUME RecvAdd PROVE TypeOK'
  <2>1. Head(chan) \in Conn /\ Tail(chan) \in Seq(Conn \cup {Close})
    BY <1>6 DEF RecvAdd, TypeOK
  <2>2. stage' \in [Conn -> Stage] /\ edge' \in SUBSET Conn
    BY <1>6, <2>1 DEF RecvAdd, TypeOK, Stage
  <2>3. QED
    BY <1>6, <2>1, <2>2 DEF RecvAdd, TypeOK
<1>7. ASSUME Poll PROVE TypeOK'
  <2>1. PICK S \in Returned({c \in edge : Ready(c)}) :
          /\ batch' = {[conn |-> c, readable |-> pipe[c] # <<>>, hup |-> writer[c] = "closed"] : c \in S}
          /\ edge' = {c \in edge : Ready(c)} \ S
    BY <1>7 DEF Poll
  <2>2. S \in SUBSET Conn
    BY DEF Returned, TypeOK
  <2>3. Cardinality(S) <= Capacity
    BY StreamsAssumption DEF Returned
  <2>4. batch' \in SUBSET Event /\ IsFiniteSet(batch') /\ Cardinality(batch') <= Capacity
    BY <2>1, <2>2, <2>3, PollTyped
  <2>5. edge' \in SUBSET Conn
    BY <2>1 DEF TypeOK
  <2>6. QED
    BY <1>7, <2>4, <2>5 DEF Poll, TypeOK
<1>8. ASSUME PollFails \/ EndTurn \/ Terminated \/ UNCHANGED vars PROVE TypeOK'
  BY <1>8 DEF PollFails, EndTurn, Terminated, vars, TypeOK
<1>9. ASSUME NEW e \in batch, TakeEvent(e) PROVE TypeOK'
  <2>1. IsFiniteSet(batch \ {e}) /\ Cardinality(batch \ {e}) = Cardinality(batch) - 1
    BY FS_RemoveElement DEF TypeOK
  <2>2. Cardinality(batch) \in Nat /\ Capacity \in Nat
    BY FS_CardinalityType, StreamsAssumption DEF TypeOK
  <2>3. batch' \in SUBSET Event /\ IsFiniteSet(batch') /\ Cardinality(batch') <= Capacity
    BY <1>9, <2>1, <2>2 DEF TakeEvent, TypeOK
  <2>4. QED
    BY <1>9, <2>3 DEF TakeEvent, TypeOK
<1>10. ASSUME NEW c \in Conn, ReadLine(c) \/ ReadTail(c) \/ StopReading(c) PROVE TypeOK'
  <2>1. Len(Data(c)) \in Nat /\ Data(c) \in Seq(Piece)
    BY DEF Data, TypeOK
  <2>2. pipe' \in [Conn -> Seq(Piece)] /\ buf' \in [Conn -> Seq(Piece)]
    <3>1. CASE ReadEof(c)
      BY <3>1 DEF ReadEof, TypeOK
    <3>2. CASE ~ReadEof(c)
      <4>1. \A i \in 1 .. Len(Data(c)) : i \in 0 .. Len(Data(c))
        BY <2>1
      <4>2. Len(Data(c)) \in 0 .. Len(Data(c))
        BY <2>1
      <4>3. PICK i \in 0 .. Len(Data(c)) : ReadUpTo(c, i)
        BY <1>10, <3>2, <4>1, <4>2, Zenon DEF ReadLine, ReadTail, StopReading, ReadBad, ReadBlocks
      <4>4. QED
        BY <4>3, ReadUpToTyped DEF TypeOK
    <3>3. QED
      BY <3>1, <3>2
  <2>3. out' \in [Conn -> Seq(Line)] /\ files' \in SUBSET Files
    <3>1. CASE UNCHANGED <<out, files>>
      BY <3>1 DEF TypeOK
    <3>2. CASE \E line \in Line : WriteLine(c, line)
      BY <3>2, WriteTyped
    <3>3. UNCHANGED <<out, files>> \/ \E line \in Line : WriteLine(c, line)
      <4>1. CASE ReadLine(c)
        <5>1. PICK i \in 1 .. Len(Data(c)) :
                WriteLine(c, [no |-> Data(c)[i].no, whole |-> Data(c)[i].part = "whole" \/ i > 1])
          BY <4>1 DEF ReadLine
        <5>2. Data(c)[i].no \in 0 .. MaxLines
          <6>1. Data(c)[i] \in Piece
            BY <2>1, ElementOfSeq
          <6>2. QED
            BY <6>1 DEF Piece
        <5>3. (Data(c)[i].part = "whole" \/ i > 1) \in BOOLEAN
          OBVIOUS
        <5>4. [no |-> Data(c)[i].no, whole |-> Data(c)[i].part = "whole" \/ i > 1] \in Line
          BY <5>2, <5>3, Zenon DEF Line
        <5>5. QED
          BY <5>1, <5>4
      <4>2. CASE ReadTail(c)
        <5>1. 1 \in 1 .. Len(Data(c))
          BY <2>1, <4>2, EmptySeq DEF ReadTail
        <5>2. Data(c)[1].no \in 0 .. MaxLines
          <6>1. Data(c)[1] \in Piece
            BY <2>1, <5>1, ElementOfSeq
          <6>2. QED
            BY <6>1 DEF Piece
        <5>3. [no |-> Data(c)[1].no, whole |-> FALSE] \in Line
          BY <5>2 DEF Line
        <5>4. QED
          BY <4>2, <5>3 DEF ReadTail
      <4>3. CASE StopReading(c)
        BY <4>3 DEF StopReading
      <4>4. QED
        BY <1>10, <4>1, <4>2, <4>3
    <3>4. QED
      BY <3>1, <3>2, <3>3
  <2>4. pc' \in {"hup", "read", "panicked"}
    BY <1>10 DEF ReadLine, ReadTail, StopReading, NextOnLine
  <2>5. UNCHANGED <<outside, edge, chan, closed, stage, batch, event>>
    BY <1>10 DEF ReadLine, ReadTail, StopReading
  <2>6. QED
    BY <2>2, <2>3, <2>4, <2>5 DEF TypeOK
<1>11. ASSUME HangUp PROVE TypeOK'
  <2>1. stage' \in [Conn -> Stage] /\ edge' \in SUBSET Conn
    BY <1>11 DEF HangUp, TypeOK, Stage
  <2>2. QED
    BY <1>11, <2>1 DEF HangUp, TypeOK
<1>12. QED
  BY <1>1, <1>2, <1>3, <1>4, <1>5, <1>6, <1>7, <1>8, <1>9, <1>10, <1>11
  DEF Next, Handler, Outside

\* Every variable of stream redirection keeps to its type (stream.rs:146-201): the
\* slab and the events are about the pipes that were added, and a poll returns no
\* more events than there is room for.
THEOREM TypeCorrect == Spec => []TypeOK
<1>1. Init => TypeOK
  <2>1. IsFiniteSet({}) /\ Cardinality({}) = 0
    BY FS_EmptySet
  <2>2. 0 \in 0 .. MaxLines /\ 0 <= Capacity
    BY StreamsAssumption
  <2>3. <<>> \in Seq(Piece) /\ <<>> \in Seq(Line) /\ <<>> \in Seq(Conn \cup {Close})
    OBVIOUS
  <2>4. QED
    BY <2>1, <2>2, <2>3 DEF Init, TypeOK, Stage
<1>2. QED
  BY <1>1, TypeStep, PTL DEF Spec

-----------------------------------------------------------------------------
(* No edge is lost, as long as every line is UTF-8.                        *)

Good == {p \in Piece : p.part # "bad"}
Clean == pipe \in [Conn -> Seq(Good)] /\ buf \in [Conn -> Seq(Good)]

\* A BufReader holds something only while its pipe is being read.
Drained == \A c \in Conn : buf[c] # <<>> => pc = "read" /\ event.conn = c

Known(c) == stage[c] \in {"watched", "gone"}

\* Messages are about pipes that the handler does not know yet, each of them once;
\* events are about those that it knows, and none is left when the next poll comes.
Sorted ==
  /\ pc \in {"recv", "poll"} => batch = {}
  /\ pc \in {"read", "hup"} => event \in Event /\ Known(event.conn)
  /\ \A e \in batch : Known(e.conn)
  /\ \A c \in edge : Known(c)
  /\ \A i \in 1 .. Len(chan) : chan[i] # Close => stage[chan[i]] = "added"
  /\ \A i, j \in 1 .. Len(chan) : chan[i] = chan[j] /\ chan[i] # Close => i = j

\* A step that reads nothing and treats no event.
LEMMA StillSorted ==
  ASSUME Sorted, UNCHANGED <<pc, stage, batch, event, chan>>, \A c \in edge' \ edge : Known(c)
  PROVE  Sorted'
BY DEF Sorted, Known

\* Without a line that is not UTF-8 the inner loop leaves a pipe when it is empty.
LEMMA NothingLeft ==
  ASSUME TypeOK, Clean, NEW c \in Conn, ReadTail(c) \/ StopReading(c)
  PROVE  Data(c)' = <<>>
<1>1. ~ReadBad(c)
  <2>1. Data(c) \in Seq(Good)
    BY DEF Clean, Data
  <2>2. \A i \in 1 .. Len(Data(c)) : Data(c)[i].part # "bad"
    <3>1. \A i \in 1 .. Len(Data(c)) : Data(c)[i] \in Good
      BY <2>1, ElementOfSeq
    <3>2. QED
      BY <3>1 DEF Good
  <2>3. QED
    BY <2>2 DEF ReadBad
<1>2. CASE ReadEof(c)
  BY <1>2 DEF ReadEof, Data
<1>3. CASE ReadUpTo(c, Len(Data(c)))
  BY <1>3, ReadAll DEF TypeOK
<1>4. QED
  BY <1>1, <1>2, <1>3 DEF ReadTail, StopReading, ReadBlocks

LEMMA CleanStep == "bad" \notin Faults /\ TypeOK /\ Clean /\ [Next]_vars => Clean'
<1> SUFFICES ASSUME "bad" \notin Faults, TypeOK, Clean, [Next]_vars PROVE Clean'
  OBVIOUS
<1>1. ASSUME NEW c \in Conn, Write(c) PROVE Clean'
  <2>1. PICK piece \in Good : pipe' = [pipe EXCEPT ![c] = Append(@, piece)]
    <3>1. CASE writer[c] = "open"
      <4>1. PICK part \in {"whole", "first"} :
              pipe' = [pipe EXCEPT ![c] = Append(@, [no |-> lines[c] + 1, part |-> part])]
        BY <1>1, <3>1 DEF Write
      <4>2. lines[c] + 1 \in 0 .. MaxLines
        BY <1>1, <3>1, StreamsAssumption DEF Write, TypeOK
      <4>3. [no |-> lines[c] + 1, part |-> part] \in Good
        BY <4>2 DEF Good, Piece, Part
      <4>4. QED
        BY <4>1, <4>3
    <3>2. CASE writer[c] = "mid"
      <4>1. pipe' = [pipe EXCEPT ![c] = Append(@, [no |-> lines[c], part |-> "last"])]
        BY <1>1, <3>2 DEF Write
      <4>2. [no |-> lines[c], part |-> "last"] \in Good
        BY DEF TypeOK, Good, Piece, Part
      <4>3. QED
        BY <4>1, <4>2
    <3>3. QED
      BY <1>1, <3>1, <3>2 DEF Write
  <2>2. Append(pipe[c], piece) \in Seq(Good)
    BY AppendProperties DEF Clean
  <2>3. QED
    BY <1>1, <2>1, <2>2 DEF Write, handler, Clean
<1>2. ASSUME NEW c \in Conn, ReadLine(c) \/ ReadTail(c) \/ StopReading(c) PROVE Clean'
  <2>1. Len(Data(c)) \in Nat
    BY DEF Data, TypeOK
  <2>2. CASE ReadEof(c)
    BY <2>2 DEF ReadEof, Clean
  <2>3. CASE ~ReadEof(c)
    <3>1. \A i \in 1 .. Len(Data(c)) : i \in 0 .. Len(Data(c))
      BY <2>1
    <3>2. Len(Data(c)) \in 0 .. Len(Data(c))
      BY <2>1
    <3>3. PICK i \in 0 .. Len(Data(c)) : ReadUpTo(c, i)
      BY <1>2, <2>3, <3>1, <3>2, Zenon DEF ReadLine, ReadTail, StopReading, ReadBad, ReadBlocks
    <3>4. QED
      BY <3>3, ReadUpToTyped DEF Clean
  <2>4. QED
    BY <2>2, <2>3
<1>3. CASE UNCHANGED <<pipe, buf>>
  BY <1>3 DEF Clean
<1>4. UNCHANGED <<pipe, buf>> \/ \E c \in Conn : Write(c) \/ ReadLine(c) \/ ReadTail(c) \/ StopReading(c)
  BY DEF Next, Handler, Outside, RecvNothing, RecvAdd, RecvClose, Poll, PollFails, HangUp, EndTurn,
         TakeEvent, DropHandler, Rotate, Spawn, AddStream, CloseEnd, Terminated, vars, handler
<1>5. QED
  BY <1>1, <1>2, <1>3, <1>4

\* The inner loop leaves a pipe when there is nothing left of it.
LEMMA DrainedStep == TypeOK /\ Clean /\ Drained /\ [Next]_vars => Drained'
<1> SUFFICES ASSUME TypeOK, Clean, Drained, [Next]_vars PROVE Drained'
  OBVIOUS
<1>1. ASSUME NEW c \in Conn, ReadLine(c) PROVE Drained'
  <2>1. \A d \in Conn \ {c} : buf'[d] = buf[d]
    BY <1>1, ReadOthers DEF ReadLine, TypeOK
  <2>2. QED
    BY <1>1, <2>1 DEF ReadLine, NextOnLine, Drained
<1>2. ASSUME NEW c \in Conn, ReadTail(c) \/ StopReading(c) PROVE Drained'
  <2>1. \A d \in Conn \ {c} : buf'[d] = buf[d]
    BY <1>2, ReadOthers DEF ReadTail, StopReading, ReadBad, ReadBlocks, ReadEof, TypeOK
  <2>2. Data(c)' = <<>>
    BY <1>2, NothingLeft
  <2>3. buf' \in [Conn -> Seq(Piece)] /\ pipe' \in [Conn -> Seq(Piece)]
    BY <1>2, TypeStep DEF TypeOK
  <2>4. buf'[c] = <<>>
    BY <2>2, <2>3, EmptySeq DEF Data
  <2>5. QED
    BY <1>2, <2>1, <2>4 DEF ReadTail, StopReading, Drained
<1>3. CASE UNCHANGED buf /\ (pc = "read" => UNCHANGED <<pc, event>>)
  BY <1>3 DEF Drained
<1>4. \/ UNCHANGED buf /\ (pc = "read" => UNCHANGED <<pc, event>>)
      \/ \E c \in Conn : ReadLine(c) \/ ReadTail(c) \/ StopReading(c)
  BY DEF Next, Handler, Outside, RecvNothing, RecvAdd, RecvClose, Poll, PollFails, HangUp, EndTurn,
         TakeEvent, DropHandler, Rotate, Spawn, AddStream, Write, CloseEnd, Terminated, vars, handler
<1>5. QED
  BY <1>1, <1>2, <1>3, <1>4

LEMMA SortedStep == TypeOK /\ Sorted /\ [Next]_vars => Sorted'
<1> SUFFICES ASSUME TypeOK, Sorted, [Next]_vars PROVE Sorted'
  OBVIOUS
<1>1. ASSUME NEW c \in Conn, Spawn(c) \/ Write(c) \/ CloseEnd(c) PROVE Sorted'
  <2>1. \A d \in edge' \ edge : Known(d)
    BY <1>1 DEF Spawn, Write, CloseEnd, Raise, Known
  <2>2. QED
    BY <1>1, <2>1, StillSorted DEF Spawn, Write, CloseEnd, handler
<1>2. ASSUME NEW c \in Conn, AddStream(c) PROVE Sorted'
  <2>1. \A i \in 1 .. Len(chan) : chan[i] # c
    BY <1>2, StreamsAssumption DEF AddStream, Sorted
  <2>2. /\ Len(chan') = Len(chan) + 1 /\ Len(chan) \in Nat
        /\ chan'[Len(chan) + 1] = c /\ \A i \in 1 .. Len(chan) : chan'[i] = chan[i]
    BY <1>2, AppendProperties DEF AddStream, TypeOK
  <2>3. stage' = [stage EXCEPT ![c] = "added"] /\ ~Known(c)
    BY <1>2 DEF AddStream, Known
  <2>4. \A i \in 1 .. Len(chan') : chan'[i] # Close => stage'[chan'[i]] = "added"
    <3>1. SUFFICES ASSUME NEW i \in 1 .. Len(chan'), chan'[i] # Close PROVE stage'[chan'[i]] = "added"
      OBVIOUS
    <3>2. CASE i = Len(chan) + 1
      BY <2>2, <2>3, <3>2 DEF TypeOK
    <3>3. CASE i \in 1 .. Len(chan)
      <4>1. chan'[i] = chan[i] /\ chan[i] # c
        BY <2>1, <2>2, <3>3
      <4>2. stage[chan[i]] = "added" /\ chan[i] \in Conn
        BY <3>1, <3>3, <4>1 DEF Sorted, TypeOK
      <4>3. QED
        BY <2>3, <4>1, <4>2 DEF TypeOK
    <3>4. QED
      BY <2>2, <3>2, <3>3
  <2>5. \A i, j \in 1 .. Len(chan') : chan'[i] = chan'[j] /\ chan'[i] # Close => i = j
    BY <2>1, <2>2 DEF Sorted
  <2>6. \A d \in Conn \ {c} : stage'[d] = stage[d]
    BY <2>3 DEF TypeOK
  <2>7. \A d \in Conn : Known(d) => Known(d)'
    BY <2>3, <2>6 DEF Known
  <2>8. QED
    BY <1>2, <2>3, <2>4, <2>5, <2>6, <2>7 DEF AddStream, handler, Sorted, TypeOK, Event
<1>3. ASSUME DropHandler PROVE Sorted'
  <2>1. /\ Len(chan') = Len(chan) + 1 /\ Len(chan) \in Nat
        /\ chan'[Len(chan) + 1] = Close /\ \A i \in 1 .. Len(chan) : chan'[i] = chan[i]
    BY <1>3, AppendProperties DEF DropHandler, TypeOK
  <2>2. \A i \in 1 .. Len(chan') : chan'[i] # Close => i \in 1 .. Len(chan)
    BY <2>1
  <2>3. QED
    BY <1>3, <2>1, <2>2 DEF DropHandler, handler, Sorted, Known
<1>4. ASSUME RecvAdd \/ RecvClose PROVE Sorted'
  <2>1. chan # <<>> /\ chan' = Tail(chan) /\ Len(chan) \in Nat
    BY <1>4 DEF RecvAdd, RecvClose, TypeOK
  <2>2. Len(chan') = Len(chan) - 1 /\ \A i \in 1 .. Len(chan') : chan'[i] = chan[i + 1]
    BY <2>1, HeadTailProperties DEF TypeOK
  <2>3. Head(chan) = chan[1] /\ 1 \in 1 .. Len(chan)
    BY <2>1, EmptySeq DEF TypeOK
  <2>4. \A i \in 1 .. Len(chan') : i + 1 \in 1 .. Len(chan) /\ i + 1 # 1
    BY <2>1, <2>2
  <2>5. \A i, j \in 1 .. Len(chan') : chan'[i] = chan'[j] /\ chan'[i] # Close => i = j
    BY <2>2, <2>4 DEF Sorted
  <2>6. CASE RecvClose
    BY <2>2, <2>4, <2>5, <2>6 DEF RecvClose, NextOnClose, Sorted, Known
  <2>7. CASE RecvAdd
    <3>1. chan[1] \in Conn /\ stage[chan[1]] = "added" /\ chan[1] # Close
      BY <2>3, <2>7 DEF RecvAdd, Sorted, TypeOK
    <3>2. \A i \in 1 .. Len(chan') : chan'[i] # chan[1]
      BY <2>2, <2>3, <2>4, <3>1 DEF Sorted
    <3>3. PICK st \in {"watched", "deaf"} : stage' = [stage EXCEPT ![chan[1]] = st]
      BY <2>3, <2>7 DEF RecvAdd
    <3>4. \A d \in Conn \ {chan[1]} : stage'[d] = stage[d]
      BY <3>3 DEF TypeOK
    <3>5. \A i \in 1 .. Len(chan') : chan'[i] # Close => stage'[chan'[i]] = "added"
      <4>1. SUFFICES ASSUME NEW i \in 1 .. Len(chan'), chan'[i] # Close PROVE stage'[chan'[i]] = "added"
        OBVIOUS
      <4>2. chan'[i] = chan[i + 1] /\ i + 1 \in 1 .. Len(chan)
        BY <2>2, <2>4
      <4>3. stage[chan'[i]] = "added" /\ chan'[i] \in Conn
        BY <4>1, <4>2 DEF Sorted, TypeOK
      <4>4. QED
        BY <3>2, <3>4, <4>3
    <3>6. \A d \in Conn : Known(d) => Known(d)'
      BY <3>1, <3>4 DEF Known
    <3>7. \A d \in edge' : Known(d)'
      BY <2>3, <2>7, <3>1, <3>6 DEF RecvAdd, Sorted, TypeOK, Known
    <3>8. QED
      BY <2>5, <2>7, <3>5, <3>6, <3>7 DEF RecvAdd, Sorted, TypeOK, Event
  <2>8. QED
    BY <1>4, <2>6, <2>7
<1>5. ASSUME Poll PROVE Sorted'
  <2>1. PICK S \in Returned({c \in edge : Ready(c)}) :
          /\ batch' = {[conn |-> c, readable |-> pipe[c] # <<>>, hup |-> writer[c] = "closed"] : c \in S}
          /\ edge' = {c \in edge : Ready(c)} \ S
    BY <1>5 DEF Poll
  <2>2. S \subseteq edge
    BY DEF Returned
  <2>3. \A e \in batch' : e.conn \in edge
    BY <2>1, <2>2
  <2>4. QED
    BY <1>5, <2>1, <2>3 DEF Poll, Sorted, Known
<1>6. ASSUME RecvNothing \/ PollFails \/ EndTurn \/ Terminated \/ UNCHANGED vars PROVE Sorted'
  BY <1>6 DEF RecvNothing, PollFails, EndTurn, Terminated, vars, Sorted, Known
<1>7. ASSUME NEW e \in batch, TakeEvent(e) PROVE Sorted'
  BY <1>7 DEF TakeEvent, Sorted, Known, TypeOK
<1>8. ASSUME NEW c \in Conn, ReadLine(c) \/ ReadTail(c) \/ StopReading(c) PROVE Sorted'
  <2>1. Known(c) /\ c = event.conn /\ event \in Event
    BY <1>8 DEF ReadLine, ReadTail, StopReading, Sorted
  <2>2. UNCHANGED <<stage, batch, event, edge, chan>> /\ pc' \in {"read", "hup", "panicked"}
    BY <1>8 DEF ReadLine, ReadTail, StopReading, NextOnLine
  <2>3. QED
    BY <2>1, <2>2 DEF Sorted, Known
<1>9. ASSUME HangUp PROVE Sorted'
  <2>1. event \in Event /\ Known(event.conn) /\ event.conn \in Conn
    BY <1>9 DEF HangUp, Sorted, Event
  <2>2. \A d \in Conn : stage'[d] = stage[d] \/ (Known(d) /\ stage'[d] = "gone")
    <3>1. CASE event.hup
      <4>1. stage' = [stage EXCEPT ![event.conn] = "gone"]
        BY <1>9, <3>1 DEF HangUp
      <4>2. PICK k \in Conn : k = event.conn /\ Known(k)
        BY <2>1
      <4>3. stage' = [stage EXCEPT ![k] = "gone"]
        BY <4>1, <4>2
      <4>4. stage'[k] = "gone" /\ \A d \in Conn \ {k} : stage'[d] = stage[d]
        BY <4>3 DEF TypeOK
      <4>5. QED
        BY <4>2, <4>4
    <3>2. CASE ~event.hup
      <4>1. stage' = stage
        BY <1>9, <3>2 DEF HangUp
      <4>2. QED
        BY <4>1
    <3>3. QED
      BY <3>1, <3>2
  <2>3. \A d \in Conn : Known(d) => Known(d)'
    BY <2>2 DEF Known
  <2>4. \A i \in 1 .. Len(chan) : chan[i] # Close => stage'[chan[i]] = "added"
    <3>1. \A i \in 1 .. Len(chan) : chan[i] # Close => chan[i] \in Conn
      BY DEF TypeOK
    <3>2. QED
      BY <2>2, <3>1 DEF Sorted, Known
  <2>5. edge' \subseteq edge
    BY <1>9 DEF HangUp
  <2>6. QED
    BY <1>9, <2>2, <2>3, <2>4, <2>5 DEF HangUp, Sorted, Known, TypeOK, Event
<1>10. ASSUME NEW f \in Files, Rotate(f) PROVE Sorted'
  BY <1>10, StillSorted DEF Rotate, handler
<1>11. QED
  BY <1>1, <1>2, <1>3, <1>4, <1>5, <1>6, <1>7, <1>8, <1>9, <1>10 DEF Next, Handler, Outside

\* Of other connections than the one a step is about nothing changes that matters
\* to their readiness; what is watched then is watched now.
LEMMA OthersAttentive ==
  ASSUME Attentive, NEW c \in Conn, Watched(c)' => Watched(c),
         UNCHANGED <<batch, event>>, pc' = pc, c \in edge => c \in edge',
         pipe'[c] = pipe[c], buf'[c] = buf[c], writer'[c] = writer[c], Watched(c)'
  PROVE  /\ Data(c)' # <<>> => c \in edge' \/ WillRead(c)'
         /\ writer'[c] = "closed" => c \in edge' \/ WillHang(c)'
BY DEF Attentive, Data, WillRead, WillHang

LEMMA AttentiveStep == TypeOK /\ Clean /\ Drained /\ Sorted /\ Attentive /\ [Next]_vars => Attentive'
<1> SUFFICES ASSUME TypeOK, Clean, Drained, Sorted, Attentive, [Next]_vars,
                    NEW c \in Conn, Watched(c)'
             PROVE  /\ Data(c)' # <<>> => c \in edge' \/ WillRead(c)'
                    /\ writer'[c] = "closed" => c \in edge' \/ WillHang(c)'
  BY DEF Attentive
<1>1. ASSUME NEW d \in Conn, Spawn(d) \/ Write(d) \/ CloseEnd(d)
      PROVE  /\ Data(c)' # <<>> => c \in edge' \/ WillRead(c)'
             /\ writer'[c] = "closed" => c \in edge' \/ WillHang(c)'
  <2>1. UNCHANGED <<pc, stage, batch, event, buf>> /\ edge \subseteq edge'
    BY <1>1 DEF Spawn, Write, CloseEnd, Raise, handler
  <2>2. Watched(c)
    BY <2>1 DEF Watched
  <2>3. CASE c # d \/ Spawn(d)
    <3>1. pipe'[c] = pipe[c] /\ (writer'[c] = writer[c] \/ writer'[c] = "open")
      BY <1>1, <2>3 DEF Spawn, Write, CloseEnd, TypeOK
    <3>2. QED
      BY <2>1, <2>2, <3>1 DEF Attentive, Data, WillRead, WillHang
  <2>4. CASE c = d /\ ~Spawn(d)
    BY <1>1, <2>2, <2>4 DEF Write, CloseEnd, Raise, Watched
  <2>5. QED
    BY <2>3, <2>4
<1>2. ASSUME NEW d \in Conn, AddStream(d)
      PROVE  /\ Data(c)' # <<>> => c \in edge' \/ WillRead(c)'
             /\ writer'[c] = "closed" => c \in edge' \/ WillHang(c)'
  <2>1. Watched(c)
    BY <1>2 DEF AddStream, Watched, handler, TypeOK
  <2>2. QED
    BY <1>2, <2>1, OthersAttentive DEF AddStream, handler, outside
<1>3. ASSUME DropHandler \/ (\E f \in Files : Rotate(f)) \/ Terminated \/ UNCHANGED vars
      PROVE  /\ Data(c)' # <<>> => c \in edge' \/ WillRead(c)'
             /\ writer'[c] = "closed" => c \in edge' \/ WillHang(c)'
  <2>1. UNCHANGED <<pc, stage, batch, event, edge, pipe, buf, writer>>
    BY <1>3 DEF DropHandler, Rotate, Terminated, vars, handler, outside
  <2>2. QED
    BY <2>1, OthersAttentive DEF Watched
<1>4. ASSUME RecvNothing \/ RecvClose \/ EndTurn
      PROVE  /\ Data(c)' # <<>> => c \in edge' \/ WillRead(c)'
             /\ writer'[c] = "closed" => c \in edge' \/ WillHang(c)'
  <2>1. UNCHANGED <<stage, batch, event, edge, pipe, buf, writer>>
    BY <1>4 DEF RecvNothing, RecvClose, EndTurn, outside
  <2>2. Watched(c) /\ pc \notin {"read", "hup"}
    BY <1>4 DEF RecvNothing, RecvClose, EndTurn, Watched
  <2>3. QED
    BY <2>1, <2>2 DEF Attentive, Data, WillRead, WillHang
<1>5. ASSUME RecvAdd
      PROVE  /\ Data(c)' # <<>> => c \in edge' \/ WillRead(c)'
             /\ writer'[c] = "closed" => c \in edge' \/ WillHang(c)'
  <2>1. UNCHANGED <<batch, event, pipe, buf, writer>> /\ edge \subseteq edge' /\ pc = "recv" /\ pc' = "poll"
    BY <1>5 DEF RecvAdd, outside
  <2>2. CASE Watched(c)
    BY <2>1, <2>2 DEF Attentive, Data, WillRead, WillHang
  <2>3. CASE ~Watched(c)
    <3>1. stage[c] # "watched" /\ stage'[c] = "watched"
      BY <2>1, <2>3 DEF Watched
    <3>2. c = Head(chan) /\ (Ready(c) => c \in edge')
      BY <1>5, <3>1 DEF RecvAdd, TypeOK
    <3>3. Data(c) = pipe[c] /\ Data(c)' = pipe[c]
      BY <2>1, ConcatEmptySeq DEF Drained, Data, TypeOK
    <3>4. QED
      BY <2>1, <3>2, <3>3 DEF Ready
  <2>4. QED
    BY <2>2, <2>3
<1>6. ASSUME Poll
      PROVE  /\ Data(c)' # <<>> => c \in edge' \/ WillRead(c)'
             /\ writer'[c] = "closed" => c \in edge' \/ WillHang(c)'
  <2>1. PICK S \in Returned({d \in edge : Ready(d)}) :
          /\ batch' = {[conn |-> d, readable |-> pipe[d] # <<>>, hup |-> writer[d] = "closed"] : d \in S}
          /\ edge' = {d \in edge : Ready(d)} \ S
    BY <1>6 DEF Poll
  <2>2. UNCHANGED <<pipe, buf, writer, stage>> /\ pc = "poll"
    BY <1>6 DEF Poll, outside
  <2>3. batch = {} /\ Watched(c) /\ ~WillRead(c) /\ ~WillHang(c)
    BY <2>2 DEF Sorted, Watched, WillRead, WillHang
  <2>4. c \in S => \E e \in batch' : /\ e.conn = c /\ e.readable = (pipe[c] # <<>>)
                                    /\ e.hup = (writer[c] = "closed")
    <3>1. SUFFICES ASSUME c \in S
                   PROVE  \E e \in batch' : /\ e.conn = c /\ e.readable = (pipe[c] # <<>>)
                                            /\ e.hup = (writer[c] = "closed")
      OBVIOUS
    <3>2. [conn |-> c, readable |-> pipe[c] # <<>>, hup |-> writer[c] = "closed"] \in batch'
      BY <2>1, <3>1, Zenon
    <3>3. WITNESS [conn |-> c, readable |-> pipe[c] # <<>>, hup |-> writer[c] = "closed"] \in batch'
    <3>4. QED
      BY Zenon
  <2>5. Data(c) = pipe[c] /\ Data(c)' = pipe[c]
    BY <2>2, ConcatEmptySeq DEF Drained, Data, TypeOK
  <2>6. pipe[c] # <<>> \/ writer[c] = "closed" => c \in edge /\ Ready(c)
    BY <2>3, <2>5 DEF Attentive, Ready
  <2>7. c \in edge /\ Ready(c) => c \in S \/ c \in edge'
    BY <2>1
  <2>8. QED
    BY <2>2, <2>4, <2>5, <2>6, <2>7 DEF WillRead, WillHang
<1>7. ASSUME NEW e \in batch, TakeEvent(e)
      PROVE  /\ Data(c)' # <<>> => c \in edge' \/ WillRead(c)'
             /\ writer'[c] = "closed" => c \in edge' \/ WillHang(c)'
  <2>1. UNCHANGED <<pipe, buf, writer, stage, edge>> /\ pc = "events"
    BY <1>7 DEF TakeEvent, outside
  <2>2. event' = e /\ batch' = batch \ {e} /\ pc' = IF e.readable THEN "read" ELSE "hup"
    BY <1>7 DEF TakeEvent
  <2>3. Watched(c)
    BY <2>1 DEF Watched
  <2>4. WillRead(c) => WillRead(c)'
    BY <2>1, <2>2 DEF WillRead
  <2>5. WillHang(c) => WillHang(c)'
    BY <2>1, <2>2 DEF WillHang
  <2>6. QED
    BY <2>1, <2>3, <2>4, <2>5 DEF Attentive, Data
<1>8. ASSUME NEW d \in Conn, ReadLine(d) \/ ReadTail(d) \/ StopReading(d)
      PROVE  /\ Data(c)' # <<>> => c \in edge' \/ WillRead(c)'
             /\ writer'[c] = "closed" => c \in edge' \/ WillHang(c)'
  <2>1. UNCHANGED <<writer, stage, edge, batch, event>> /\ pc = "read" /\ event.conn = d
    BY <1>8 DEF ReadLine, ReadTail, StopReading, outside
  <2>2. Watched(c) /\ pc' \in {"read", "hup"}
    BY <1>8, <2>1 DEF ReadLine, ReadTail, StopReading, NextOnLine, Watched
  <2>3. WillHang(c) => WillHang(c)'
    BY <2>1, <2>2 DEF WillHang
  <2>4. CASE c = d
    <3>1. Data(c)' = <<>> \/ pc' = "read"
      BY <1>8, <2>4, NothingLeft DEF ReadLine, NextOnLine
    <3>2. QED
      BY <2>1, <2>2, <2>3, <2>4, <3>1 DEF Attentive, WillRead
  <2>5. CASE c # d
    <3>1. pipe'[c] = pipe[c] /\ buf'[c] = buf[c]
      BY <1>8, <2>5, ReadOthers DEF ReadLine, ReadTail, StopReading, ReadBad, ReadBlocks, ReadEof, TypeOK
    <3>2. WillRead(c) => WillRead(c)'
      BY <2>1, <2>5 DEF WillRead
    <3>3. QED
      BY <2>1, <2>2, <2>3, <3>1, <3>2 DEF Attentive, Data
  <2>6. QED
    BY <2>4, <2>5
<1>9. ASSUME HangUp
      PROVE  /\ Data(c)' # <<>> => c \in edge' \/ WillRead(c)'
             /\ writer'[c] = "closed" => c \in edge' \/ WillHang(c)'
  <2>1. UNCHANGED <<pipe, buf, writer, batch>> /\ pc = "hup"
    BY <1>9 DEF HangUp, outside
  <2>2. CASE event.hup /\ c = event.conn
    BY <1>9, <2>2 DEF HangUp, Watched, TypeOK
  <2>3. CASE ~(event.hup /\ c = event.conn)
    <3>1. Watched(c) /\ (c \in edge => c \in edge')
      BY <1>9, <2>1, <2>3 DEF HangUp, Watched, TypeOK
    <3>2. (WillRead(c) => WillRead(c)') /\ (WillHang(c) => WillHang(c)')
      BY <2>1, <2>3 DEF WillRead, WillHang
    <3>3. QED
      BY <2>1, <3>1, <3>2 DEF Attentive, Data
  <2>4. QED
    BY <2>2, <2>3
<1>10. CASE PollFails
  BY <1>10 DEF PollFails, Watched
<1>11. QED
  BY <1>1, <1>2, <1>3, <1>4, <1>5, <1>6, <1>7, <1>8, <1>9, <1>10, Zenon DEF Next, Handler, Outside

\* Whatever may fail except the decoding of a line, no edge is lost (stream.rs:166-199):
\* the handler never waits in poll for a pipe whose last event it has had and left
\* unread.  With lines that are not UTF-8 this is false, as a run shows.
THEOREM EdgesAreKept == ASSUME "bad" \notin Faults PROVE Spec => []Attentive
<1>1. Init => Clean /\ Drained /\ Sorted /\ Attentive
  <2>1. <<>> \in Seq(Good)
    OBVIOUS
  <2>2. Init => Clean /\ Drained
    BY <2>1 DEF Init, Clean, Drained
  <2>3. Init => Sorted /\ Attentive
    BY DEF Init, Sorted, Attentive, Watched
  <2>4. QED
    BY <2>2, <2>3
<1>2. TypeOK /\ Clean /\ Drained /\ Sorted /\ Attentive /\ [Next]_vars
        => Clean' /\ Drained' /\ Sorted' /\ Attentive'
  BY CleanStep, DrainedStep, SortedStep, AttentiveStep
<1>3. QED
  BY <1>1, <1>2, TypeCorrect, PTL DEF Spec

-----------------------------------------------------------------------------
(* The order in which lines arrive.                                        *)

\* How the numbers follow one another in what a pipe and its buffer hold, s, in what
\* has arrived, o, and in the line that was begun last, n, of which half is still
\* to come if mid.  Two pieces have one number only if they are halves of one line.
Ordered(s, o, n, mid) ==
  /\ \A i, j \in 1 .. Len(s) : i < j =>
       s[i].no < s[j].no \/ (s[i].part = "first" /\ s[i].no <= s[j].no)
  /\ \A i, j \in 1 .. Len(o) : i < j => o[i].no < o[j].no
  /\ \A i \in 1 .. Len(o), j \in 1 .. Len(s) : o[i].no < s[j].no
  /\ \A j \in 1 .. Len(s) : s[j].no <= n /\ (mid => s[j].no < n \/ s[j].part = "first")
  /\ \A i \in 1 .. Len(o) : o[i].no <= n /\ (mid => o[i].no < n)

Numbered == \A c \in Conn : Ordered(Data(c), out[c], lines[c], writer[c] = "mid")

-----------------------------------------------------------------------------
(* What each step makes of them.                                           *)

LEMMA NumbersAreNat ==
  /\ \A s \in Seq(Piece) : \A i \in 1 .. Len(s) : s[i] \in Piece /\ s[i].no \in Nat
  /\ \A o \in Seq(Line) : \A i \in 1 .. Len(o) : o[i].no \in Nat
<1>1. 0 .. MaxLines \subseteq Nat
  BY StreamsAssumption
<1>2. (\A p \in Piece : p.no \in Nat) /\ (\A l \in Line : l.no \in Nat)
  BY <1>1 DEF Piece, Line
<1>3. QED
  BY <1>2, ElementOfSeq

\* A line is begun.
LEMMA OrderedBegin ==
  ASSUME NEW s \in Seq(Piece), NEW o \in Seq(Line), NEW n \in Nat, NEW p \in Piece,
         Ordered(s, o, n, FALSE), p.no = n + 1, NEW mid \in BOOLEAN, mid => p.part = "first"
  PROVE  Ordered(Append(s, p), o, n + 1, mid)
<1>1. /\ Len(Append(s, p)) = Len(s) + 1 /\ Len(s) \in Nat /\ Len(o) \in Nat
      /\ \A i \in 1 .. Len(s) : Append(s, p)[i] = s[i]
      /\ Append(s, p)[Len(s) + 1] = p
  BY AppendProperties, LenProperties
<1>2. /\ \A i \in 1 .. Len(s) : s[i].no \in Nat
      /\ \A i \in 1 .. Len(o) : o[i].no \in Nat
  BY NumbersAreNat
<1>3. \A i, j \in 1 .. Len(s) + 1 : i < j =>
        \/ Append(s, p)[i].no < Append(s, p)[j].no
        \/ Append(s, p)[i].part = "first" /\ Append(s, p)[i].no <= Append(s, p)[j].no
  <2>1. ASSUME NEW i \in 1 .. Len(s) + 1, NEW j \in 1 .. Len(s) + 1, i < j
        PROVE  \/ Append(s, p)[i].no < Append(s, p)[j].no
               \/ Append(s, p)[i].part = "first" /\ Append(s, p)[i].no <= Append(s, p)[j].no
    <3>1. i \in 1 .. Len(s) /\ Append(s, p)[i] = s[i]
      BY <1>1, <2>1
    <3>2. CASE j = Len(s) + 1
      BY <1>1, <1>2, <3>1, <3>2 DEF Ordered
    <3>3. CASE j # Len(s) + 1
      <4>1. j \in 1 .. Len(s) /\ Append(s, p)[j] = s[j]
        BY <1>1, <3>3
      <4>2. QED
        BY <2>1, <3>1, <4>1 DEF Ordered
    <3>4. QED
      BY <3>2, <3>3
  <2>2. QED
    BY <2>1
<1>4. \A i \in 1 .. Len(o), j \in 1 .. Len(s) + 1 : o[i].no < Append(s, p)[j].no
  BY <1>1, <1>2 DEF Ordered
<1>5. /\ \A j \in 1 .. Len(s) + 1 :
           Append(s, p)[j].no <= n + 1
             /\ (mid => Append(s, p)[j].no < n + 1 \/ Append(s, p)[j].part = "first")
      /\ \A i \in 1 .. Len(o) : o[i].no <= n + 1 /\ o[i].no < n + 1
  BY <1>1, <1>2 DEF Ordered
<1>6. \A i, j \in 1 .. Len(o) : i < j => o[i].no < o[j].no
  BY DEF Ordered
<1>7. QED
  BY <1>1, <1>3, <1>4, <1>5, <1>6 DEF Ordered

\* The second half of a line is written.
LEMMA OrderedEnd ==
  ASSUME NEW s \in Seq(Piece), NEW o \in Seq(Line), NEW n \in Nat, NEW p \in Piece,
         Ordered(s, o, n, TRUE), p.no = n
  PROVE  Ordered(Append(s, p), o, n, FALSE)
<1>1. /\ Len(Append(s, p)) = Len(s) + 1 /\ Len(s) \in Nat /\ Len(o) \in Nat
      /\ \A i \in 1 .. Len(s) : Append(s, p)[i] = s[i]
      /\ Append(s, p)[Len(s) + 1] = p
  BY AppendProperties, LenProperties
<1>2. /\ \A i \in 1 .. Len(s) : s[i].no \in Nat
      /\ \A i \in 1 .. Len(o) : o[i].no \in Nat
  BY NumbersAreNat
<1>3. \A i \in 1 .. Len(s) : s[i].no <= n /\ (s[i].no < n \/ s[i].part = "first")
  BY DEF Ordered
<1>4. ASSUME NEW i \in 1 .. Len(s) + 1, NEW j \in 1 .. Len(s) + 1, i < j
      PROVE  \/ Append(s, p)[i].no < Append(s, p)[j].no
             \/ Append(s, p)[i].part = "first" /\ Append(s, p)[i].no <= Append(s, p)[j].no
  <2>1. i \in 1 .. Len(s) /\ Append(s, p)[i] = s[i]
    BY <1>1, <1>4
  <2>2. CASE j = Len(s) + 1
    BY <1>1, <1>2, <1>3, <2>1, <2>2
  <2>3. CASE j # Len(s) + 1
    <3>1. j \in 1 .. Len(s) /\ Append(s, p)[j] = s[j]
      BY <1>1, <2>3
    <3>2. QED
      BY <1>4, <2>1, <3>1 DEF Ordered
  <2>4. QED
    BY <2>2, <2>3
<1>5. /\ \A i, j \in 1 .. Len(o) : i < j => o[i].no < o[j].no
      /\ \A i \in 1 .. Len(o) : o[i].no <= n /\ o[i].no < n
  BY DEF Ordered
<1>6. \A i \in 1 .. Len(o), j \in 1 .. Len(s) + 1 : o[i].no < Append(s, p)[j].no
  BY <1>1, <1>2, <1>5 DEF Ordered
<1>7. \A j \in 1 .. Len(s) + 1 : Append(s, p)[j].no <= n
  BY <1>1, <1>3
<1>8. QED
  BY <1>1, <1>4, <1>5, <1>6, <1>7 DEF Ordered

\* The first pieces are taken away and come to nothing.
LEMMA OrderedLost ==
  ASSUME NEW s \in Seq(Piece), NEW o \in Seq(Line), NEW n \in Nat, NEW mid \in BOOLEAN,
         NEW i \in 0 .. Len(s), Ordered(s, o, n, mid)
  PROVE  Ordered(SubSeq(s, i + 1, Len(s)), o, n, mid)
<1>1. Len(s) \in Nat /\ \A k \in 1 .. Len(s) : s[k] \in Piece
  BY LenProperties, ElementOfSeq
<1>2. /\ Len(SubSeq(s, i + 1, Len(s))) = Len(s) - i
      /\ \A j \in 1 .. Len(s) - i : SubSeq(s, i + 1, Len(s))[j] = s[i + j]
  BY <1>1, SubSeqProperties
<1>3. \A j \in 1 .. Len(s) - i : i + j \in 1 .. Len(s)
  BY <1>1
<1>4. QED
  BY <1>1, <1>2, <1>3 DEF Ordered

\* They are a line that arrives, with its newline or at the end of the pipe.
LEMMA OrderedArrived ==
  ASSUME NEW s \in Seq(Piece), NEW o \in Seq(Line), NEW n \in Nat, NEW mid \in BOOLEAN,
         NEW i \in 1 .. Len(s), NEW k \in 1 .. i, NEW line \in Line, line.no = s[k].no,
         Ordered(s, o, n, mid),
         \/ s[k].part # "first"
         \/ i = Len(s) /\ ~mid
  PROVE  Ordered(SubSeq(s, i + 1, Len(s)), Append(o, line), n, mid)
<1> DEFINE t == SubSeq(s, i + 1, Len(s))
           q == Append(o, line)
<1>1. /\ Len(s) \in Nat /\ Len(o) \in Nat /\ k \in 1 .. Len(s)
      /\ \A j \in 1 .. Len(s) : s[j] \in Piece /\ s[j].no \in Nat
      /\ \A j \in 1 .. Len(o) : o[j].no \in Nat
  <2>1. Len(s) \in Nat /\ Len(o) \in Nat
    BY LenProperties
  <2>2. QED
    BY <2>1, NumbersAreNat
<1>2. Len(q) = Len(o) + 1 /\ q[Len(o) + 1] = line /\ \A j \in 1 .. Len(o) : q[j] = o[j]
  BY AppendProperties
<1>3. Ordered(t, o, n, mid)
  BY <1>1, OrderedLost
<1>4. Len(t) = Len(s) - i /\ \A j \in 1 .. Len(s) - i : t[j] = s[i + j] /\ i + j \in 1 .. Len(s)
  BY <1>1, SubSeqProperties
<1>5. \A j \in 1 .. Len(t) : line.no < t[j].no
  <2>1. CASE s[k].part # "first"
    BY <1>1, <1>4, <2>1 DEF Ordered
  <2>2. CASE i = Len(s)
    BY <1>1, <1>4, <2>2
  <2>3. QED
    BY <2>1, <2>2
<1>6. line.no <= n /\ (mid => line.no < n)
  BY <1>1 DEF Ordered
<1>7. \A j \in 1 .. Len(o) : o[j].no < line.no
  BY <1>1 DEF Ordered
<1> HIDE DEF t, q
<1>8. Len(t) \in Nat
  BY <1>1, <1>4
<1>9. QED
  <2>1. \A x, y \in 1 .. Len(q) : x < y => q[x].no < q[y].no
    <3>1. ASSUME NEW x \in 1 .. Len(o) + 1, NEW y \in 1 .. Len(o) + 1, x < y
          PROVE  q[x].no < q[y].no
      <4>1. CASE y = Len(o) + 1
        BY <1>1, <1>2, <1>7, <3>1, <4>1
      <4>2. CASE y # Len(o) + 1
        <5>1. x \in 1 .. Len(o) /\ y \in 1 .. Len(o)
          BY <1>1, <3>1, <4>2
        <5>2. QED
          BY <1>2, <3>1, <5>1 DEF Ordered
      <4>3. QED
        BY <4>1, <4>2
    <3>2. QED
      BY <1>2, <3>1
  <2>2. \A x \in 1 .. Len(q), j \in 1 .. Len(t) : q[x].no < t[j].no
    BY <1>1, <1>2, <1>3, <1>5, <1>8 DEF Ordered
  <2>3. \A x \in 1 .. Len(q) : q[x].no <= n /\ (mid => q[x].no < n)
    BY <1>1, <1>2, <1>3, <1>6 DEF Ordered
  <2>4. Ordered(t, q, n, mid)
    BY <1>3, <2>1, <2>2, <2>3 DEF Ordered
  <2>5. QED
    BY <2>4 DEF t, q

\* What is left of what a pipe and its buffer hold.
LEMMA ReadRest ==
  ASSUME pipe \in [Conn -> Seq(Piece)], buf \in [Conn -> Seq(Piece)],
         NEW c \in Conn, NEW i \in 0 .. Len(Data(c)), ReadUpTo(c, i)
  PROVE  Data(c)' = SubSeq(Data(c), i + 1, Len(Data(c)))
<1>1. /\ Data(c) \in Seq(Piece) /\ Len(Data(c)) = Len(buf[c]) + Len(pipe[c])
      /\ Len(buf[c]) \in Nat /\ Len(pipe[c]) \in Nat
      /\ \A j \in 1 .. Len(Data(c)) :
           Data(c)[j] = IF j <= Len(buf[c]) THEN buf[c][j] ELSE pipe[c][j - Len(buf[c])]
  BY DEF Data
<1> DEFINE rest == SubSeq(Data(c), i + 1, Len(Data(c)))
<1>2. /\ rest \in Seq(Piece) /\ Len(rest) = Len(Data(c)) - i
      /\ \A j \in 1 .. Len(Data(c)) - i : rest[j] = Data(c)[i + j]
  <2>1. \A j \in 1 .. Len(Data(c)) : Data(c)[j] \in Piece
    BY <1>1, ElementOfSeq
  <2>2. QED
    BY <1>1, <2>1, SubSeqProperties
<1>3. CASE i <= Len(buf[c])
  <2> DEFINE left == SubSeq(buf[c], i + 1, Len(buf[c]))
  <2>1. /\ left \in Seq(Piece) /\ Len(left) = Len(buf[c]) - i
        /\ \A j \in 1 .. Len(buf[c]) - i : left[j] = buf[c][i + j]
    <3>1. \A j \in 1 .. Len(buf[c]) : buf[c][j] \in Piece
      BY <1>1, ElementOfSeq
    <3>2. QED
      BY <1>1, <1>3, <3>1, SubSeqProperties
  <2>2. Data(c)' = left \o pipe[c]
    BY <1>3 DEF ReadUpTo, Data
  <2> HIDE DEF left
  <2>3. /\ left \o pipe[c] \in Seq(Piece) /\ Len(left \o pipe[c]) = Len(left) + Len(pipe[c])
        /\ \A j \in 1 .. Len(left) + Len(pipe[c]) :
             (left \o pipe[c])[j] = IF j <= Len(left) THEN left[j] ELSE pipe[c][j - Len(left)]
    <3>1. pipe[c] \in Seq(Piece)
      OBVIOUS
    <3>2. QED
      BY <2>1, <3>1, ConcatProperties
  <2>4. ASSUME NEW j \in 1 .. Len(left \o pipe[c]) PROVE (left \o pipe[c])[j] = rest[j]
    <3>1. i + j \in 1 .. Len(Data(c)) /\ j \in 1 .. Len(Data(c)) - i
      BY <1>1, <2>1, <2>3
    <3>2. CASE j <= Len(left)
      <4>1. (left \o pipe[c])[j] = buf[c][i + j] /\ i + j <= Len(buf[c])
        BY <1>1, <2>1, <2>3, <3>2
      <4>2. QED
        BY <1>1, <1>2, <3>1, <4>1
    <3>3. CASE ~(j <= Len(left))
      <4>1. (left \o pipe[c])[j] = pipe[c][j - Len(left)]
        BY <2>3, <3>3
      <4>2. ~(i + j <= Len(buf[c])) /\ j - Len(left) = i + j - Len(buf[c])
        BY <1>1, <2>1, <3>3
      <4>3. QED
        <5>1. rest[j] = Data(c)[i + j] /\ Data(c)[i + j] = pipe[c][i + j - Len(buf[c])]
          BY <1>1, <1>2, <3>1, <4>2
        <5>2. QED
          BY <4>1, <4>2, <5>1
    <3>4. QED
      BY <3>2, <3>3
  <2>5. Len(left \o pipe[c]) = Len(rest)
    BY <1>1, <1>2, <2>1, <2>3
  <2> HIDE DEF rest
  <2>6. left \o pipe[c] = rest
    BY <1>2, <2>3, <2>4, <2>5, SeqEqual
  <2>7. QED
    BY <2>2, <2>6 DEF rest
<1>4. CASE ~(i <= Len(buf[c]))
  <2>1. buf'[c] = rest /\ pipe'[c] = <<>>
    BY <1>4 DEF ReadUpTo
  <2>2. QED
    BY <1>2, <2>1 DEF Data
<1>5. QED
  BY <1>3, <1>4

-----------------------------------------------------------------------------

\* Lines whose numbers are in order are in order.
LEMMA NumberedIsInOrder == Numbered => InOrder
BY DEF Numbered, Ordered, InOrder

LEMMA NumberedStep == TypeOK /\ Numbered /\ [Next]_vars => Numbered'
<1> SUFFICES ASSUME TypeOK, Numbered, [Next]_vars, NEW c \in Conn
             PROVE  Ordered(Data(c)', out'[c], lines'[c], writer'[c] = "mid")
  BY DEF Numbered
<1>1. /\ Data(c) \in Seq(Piece) /\ out[c] \in Seq(Line) /\ lines[c] \in Nat
      /\ Ordered(Data(c), out[c], lines[c], writer[c] = "mid")
      /\ (writer[c] = "mid") \in BOOLEAN
  BY StreamsAssumption DEF TypeOK, Data, Numbered
<1>2. CASE UNCHANGED <<pipe, buf, out, lines, writer>>
  BY <1>1, <1>2 DEF Data
<1>3. ASSUME NEW d \in Conn, Spawn(d) \/ CloseEnd(d)
      PROVE  Ordered(Data(c)', out'[c], lines'[c], writer'[c] = "mid")
  <2>1. /\ UNCHANGED <<pipe, buf, out, lines>>
        /\ writer'[c] = "mid" => writer[c] = "mid"
    BY <1>3 DEF Spawn, CloseEnd, handler, TypeOK
  <2>2. QED
    BY <1>1, <2>1 DEF Ordered, Data
<1>4. ASSUME NEW d \in Conn, Write(d)
      PROVE  Ordered(Data(c)', out'[c], lines'[c], writer'[c] = "mid")
  <2>1. buf' = buf /\ out' = out
    BY <1>4 DEF Write, handler
  <2>2. CASE d # c
    <3>1. pipe'[c] = pipe[c] /\ lines'[c] = lines[c] /\ writer'[c] = writer[c]
      BY <1>4, <2>2 DEF Write, TypeOK
    <3>2. QED
      BY <1>1, <2>1, <3>1 DEF Data
  <2>3. ASSUME NEW p \in Piece, pipe'[c] = Append(pipe[c], p)
        PROVE  Data(c)' = Append(Data(c), p)
    BY <2>1, <2>3, AppendIsConcat, ConcatAssociative DEF Data, TypeOK
  <2>4. CASE d = c /\ writer[c] = "open"
    <3>1. PICK part \in Part :
            /\ pipe' = [pipe EXCEPT ![c] = Append(@, [no |-> lines[c] + 1, part |-> part])]
            /\ writer' = [writer EXCEPT ![c] = IF part = "first" THEN "mid" ELSE "open"]
      BY <1>4, <2>4 DEF Write, Part
    <3>2. lines'[c] = lines[c] + 1 /\ lines[c] + 1 \in 0 .. MaxLines
      BY <1>4, <2>4, StreamsAssumption DEF Write, TypeOK
    <3>3. [no |-> lines[c] + 1, part |-> part] \in Piece
      BY <3>2 DEF Piece
    <3>4. Data(c)' = Append(Data(c), [no |-> lines[c] + 1, part |-> part])
      BY <2>3, <3>1, <3>3 DEF TypeOK
    <3>5. (writer'[c] = "mid") \in BOOLEAN /\ (writer'[c] = "mid" => part = "first")
      BY <3>1 DEF TypeOK
    <3>6. Ordered(Data(c), out[c], lines[c], FALSE)
      BY <1>1, <2>4
    <3>7. QED
      BY <1>1, <2>1, <3>2, <3>3, <3>4, <3>5, <3>6, OrderedBegin
  <2>5. CASE d = c /\ writer[c] = "mid"
    <3>1. /\ pipe' = [pipe EXCEPT ![c] = Append(@, [no |-> lines[c], part |-> "last"])]
          /\ lines' = lines /\ writer'[c] = "open"
      BY <1>4, <2>5 DEF Write, TypeOK
    <3>2. [no |-> lines[c], part |-> "last"] \in Piece
      BY DEF Piece, Part, TypeOK
    <3>3. Data(c)' = Append(Data(c), [no |-> lines[c], part |-> "last"])
      BY <2>3, <3>1, <3>2 DEF TypeOK
    <3>4. Ordered(Data(c), out[c], lines[c], TRUE)
      BY <1>1, <2>5
    <3>5. QED
      BY <1>1, <2>1, <3>1, <3>2, <3>3, <3>4, OrderedEnd
  <2>6. QED
    BY <1>4, <2>2, <2>4, <2>5 DEF Write
<1>5. ASSUME NEW d \in Conn, ReadLine(d) \/ ReadTail(d) \/ StopReading(d)
      PROVE  Ordered(Data(c)', out'[c], lines'[c], writer'[c] = "mid")
  <2>1. lines' = lines /\ writer' = writer
    BY <1>5 DEF ReadLine, ReadTail, StopReading, outside
  <2>2. CASE d # c
    <3>1. pipe'[c] = pipe[c] /\ buf'[c] = buf[c]
      <4>1. CASE ReadEof(d)
        BY <4>1 DEF ReadEof
      <4>2. CASE ~ReadEof(d)
        <5>1. \E i : ReadUpTo(d, i)
          BY <1>5, <4>2 DEF ReadLine, ReadTail, StopReading, ReadBad, ReadBlocks
        <5>2. QED
          BY <2>2, <5>1, ReadOthers DEF TypeOK
      <4>3. QED
        BY <4>1, <4>2
    <3>2. out'[c] = out[c]
      BY <1>5, <2>2 DEF ReadLine, ReadTail, StopReading, WriteLine, TypeOK
    <3>3. QED
      BY <1>1, <2>1, <3>1, <3>2 DEF Data
  <2>3. ASSUME NEW i \in 0 .. Len(Data(c)), ReadUpTo(c, i), out' = out
        PROVE  Ordered(Data(c)', out'[c], lines'[c], writer'[c] = "mid")
    <3>1. Data(c)' = SubSeq(Data(c), i + 1, Len(Data(c)))
      BY <2>3, ReadRest DEF TypeOK
    <3>2. QED
      BY <1>1, <2>1, <2>3, <3>1, OrderedLost
  <2>4. CASE d = c /\ ReadLine(c)
    <3>1. PICK i \in 1 .. Len(Data(c)) :
            /\ EndsLine(Data(c), i) /\ ReadUpTo(c, i)
            /\ WriteLine(c, [no |-> Data(c)[i].no, whole |-> Data(c)[i].part = "whole" \/ i > 1])
      BY <2>4 DEF ReadLine
    <3> DEFINE line == [no |-> Data(c)[i].no, whole |-> Data(c)[i].part = "whole" \/ i > 1]
    <3>2. i \in 0 .. Len(Data(c)) /\ Data(c)[i] \in Piece
      BY <1>1, LenProperties, ElementOfSeq
    <3>3. CASE out' = out
      BY <2>3, <3>1, <3>2, <3>3
    <3>4. CASE out' = [out EXCEPT ![c] = Append(@, line)]
      <4>1. Data(c)' = SubSeq(Data(c), i + 1, Len(Data(c)))
        BY <3>1, <3>2, ReadRest DEF TypeOK
      <4>2. line \in Line /\ line.no = Data(c)[i].no
        <5>1. (Data(c)[i].part = "whole" \/ i > 1) \in BOOLEAN
          OBVIOUS
        <5>2. Data(c)[i].no \in 0 .. MaxLines
          BY <3>2 DEF Piece
        <5>3. QED
          BY <5>1, <5>2, Zenon DEF Line
      <4>3. i \in 1 .. i /\ Data(c)[i].part # "first"
        BY <1>1, <3>1 DEF EndsLine
      <4>4. out'[c] = Append(out[c], line)
        BY <3>4 DEF TypeOK
      <4> HIDE DEF line
      <4>5. Ordered(SubSeq(Data(c), i + 1, Len(Data(c))), Append(out[c], line), lines[c], writer[c] = "mid")
        BY <1>1, <4>2, <4>3, OrderedArrived
      <4>6. QED
        BY <2>1, <4>1, <4>4, <4>5
    <3>5. QED
      BY <3>1, <3>3, <3>4 DEF WriteLine
  <2>5. CASE d = c /\ ReadTail(c)
    <3> DEFINE all  == Len(Data(c))
               line == [no |-> Data(c)[1].no, whole |-> FALSE]
    <3>1. /\ ReadUpTo(c, all) /\ Data(c) # <<>> /\ writer[c] = "closed"
          /\ out' = out \/ WriteLine(c, line)
      BY <2>5 DEF ReadTail
    <3>2. /\ all \in Nat /\ all \in 1 .. all /\ 1 \in 1 .. all /\ all \in 0 .. all
          /\ Data(c)[1] \in Piece
      BY <1>1, <3>1, LenProperties, EmptySeq, ElementOfSeq
    <3>3. CASE out' = out
      BY <2>3, <3>1, <3>2, <3>3
    <3>4. CASE out' = [out EXCEPT ![c] = Append(@, line)]
      <4>1. Data(c)' = SubSeq(Data(c), all + 1, all)
        BY <3>1, <3>2, ReadRest DEF TypeOK
      <4>2. line \in Line /\ line.no = Data(c)[1].no
        BY <3>2 DEF Line, Piece
      <4>3. out'[c] = Append(out[c], line)
        BY <3>4 DEF TypeOK
      <4> HIDE DEF line
      <4>4. Ordered(SubSeq(Data(c), all + 1, all), Append(out[c], line), lines[c], writer[c] = "mid")
        BY <1>1, <3>1, <3>2, <4>2, OrderedArrived
      <4>5. QED
        BY <2>1, <4>1, <4>3, <4>4
    <3>5. QED
      BY <3>1, <3>3, <3>4 DEF WriteLine
  <2>6. CASE d = c /\ StopReading(c)
    <3>1. out' = out
      BY <2>6 DEF StopReading
    <3>2. CASE ReadEof(c)
      BY <1>1, <2>1, <3>1, <3>2 DEF ReadEof, Data
    <3>3. CASE ReadBad(c) \/ ReadBlocks(c)
      <4>1. Len(Data(c)) \in Nat
        BY <1>1, LenProperties
      <4>2. \E i \in 0 .. Len(Data(c)) : ReadUpTo(c, i)
        BY <3>3, <4>1 DEF ReadBad, ReadBlocks
      <4>3. QED
        BY <2>3, <3>1, <4>2
    <3>4. QED
      BY <2>6, <3>2, <3>3 DEF StopReading
  <2>7. QED
    BY <1>5, <2>2, <2>4, <2>5, <2>6
<1>6. \/ UNCHANGED <<pipe, buf, out, lines, writer>>
      \/ \E d \in Conn : Spawn(d) \/ CloseEnd(d) \/ Write(d) \/ ReadLine(d) \/ ReadTail(d) \/ StopReading(d)
  BY DEF Next, Handler, Outside, RecvNothing, RecvAdd, RecvClose, Poll, PollFails, HangUp, EndTurn,
         TakeEvent, DropHandler, Rotate, AddStream, Terminated, vars, handler, outside
<1>7. QED
  BY <1>2, <1>3, <1>4, <1>5, <1>6

\* Whatever fails, and however lines are cut up: what arrives is in order.
THEOREM InOrderCorrect == Spec => []InOrder
<1>1. Init => Numbered
  BY DEF Init, Numbered, Ordered, Data
<1>2. QED
  BY <1>1, NumberedStep, NumberedIsInOrder, TypeCorrect, PTL DEF Spec
=============================================================================
