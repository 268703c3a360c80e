------------------------------ MODULE Streams -------------------------------
(***************************************************************************)
(* Stream redirection (stream.rs): the handler thread, the channel on      *)
(* which the main thread adds pipes and tells it to close, and the pipes   *)
(* that applications write into.                                           *)
(*                                                                         *)
(* Each turn of the handler takes one message, polls, and treats the       *)
(* events one by one, reading lines until a pipe has no more.  Readiness   *)
(* is edge-triggered: a pipe that is left unread raises no event until     *)
(* something else happens to it.  A BufReader stands between the pipe and  *)
(* read_line: it takes all that the pipe has and hands it out by lines.    *)
(*                                                                         *)
(* A line is a number and the parts it is written in: at once, or in a     *)
(* first and a last part of which only the last has the newline.           *)
(***************************************************************************)
EXTENDS Naturals, Sequences, FiniteSets

CONSTANTS
  Conn,      \* the pipes that applications write to, one for each connection
  Sink,      \* the destinations
  Files,     \* those that are files; the others are syslog sockets
  SinkOf,    \* the destination of each pipe
  None,      \* no event
  Close,     \* Message::Close; Message::Add is the connection itself
  Capacity,  \* 128: how many events a poll returns
  Faults,    \* what may go wrong outside: see FaultKinds
  MaxLines   \* bound: lines that are written into a pipe

FaultKinds ==
  { "half",      \* lines are written in two parts, of which the last may not come
    "bad",       \* lines that are not UTF-8
    "multibyte", \* lines that end in a character of several bytes
    "syslog",    \* a syslog server cannot be reached
    "register",  \* the kernel refuses to watch a pipe
    "poll" }     \* the kernel refuses to poll

Event == [conn : Conn, readable : BOOLEAN, hup : BOOLEAN]

ASSUME StreamsAssumption ==
  /\ Files \subseteq Sink
  /\ SinkOf \in [Conn -> Sink]
  /\ None \notin Event /\ Close \notin Conn
  /\ IsFiniteSet(Conn)
  /\ Capacity \in Nat \ {0} /\ MaxLines \in Nat
  /\ Faults \subseteq FaultKinds

VARIABLES
  (* applications, and the main thread, which spawns them *)
  writer,     \* the other end of each pipe
  lines,      \* lines begun in each pipe
  dropped,    \* has run() ended, which drops the Handler?
  finished,   \* history: the pipes that were closed by then
  (* the kernel and the world outside *)
  pipe,       \* written and not read
  edge,       \* pipes with an event that no poll has returned
  files,      \* the files that exist
  (* what both threads use *)
  chan,       \* the channel, first in first out
  (* the handler thread *)
  pc,         \* where it is
  closed,     \* its local of that name
  stage,      \* what has become of each connection
  buf,        \* what each BufReader holds
  batch,      \* the events of the last poll that it has not treated
  event,      \* the one that it is treating, or None
  out         \* lines that have reached their destination

outside == <<writer, lines, dropped, finished>>
vars == <<outside, pipe, edge, files, chan, pc, closed, stage, buf, batch, event, out>>

Part  == {"whole", "first", "last", "bad"}
Piece == [no : 0 .. MaxLines, part : Part]
Line  == [no : 0 .. MaxLines, whole : BOOLEAN]
Stage == { "none",     \* not known
           "added",    \* add_stream was called
           "watched",  \* in the slab, and registered with the kernel
           "deaf",     \* in the slab, but not registered
           "gone" }    \* removed from the slab

TypeOK ==
  /\ writer \in [Conn -> {"unborn", "open", "mid", "closed"}]
  /\ lines \in [Conn -> 0 .. MaxLines]
  /\ dropped \in BOOLEAN
  /\ finished \in SUBSET Conn
  /\ pipe \in [Conn -> Seq(Piece)]
  /\ edge \in SUBSET Conn
  /\ files \in SUBSET Files
  /\ chan \in Seq(Conn \cup {Close})
  /\ pc \in {"recv", "poll", "events", "read", "hup", "ended", "panicked"}
  /\ closed \in BOOLEAN
  /\ stage \in [Conn -> Stage]
  /\ buf \in [Conn -> Seq(Piece)]
  /\ batch \in SUBSET Event /\ IsFiniteSet(batch) /\ Cardinality(batch) <= Capacity
  /\ event \in Event \cup {None}
  /\ out \in [Conn -> Seq(Line)]

Init ==
  /\ writer = [c \in Conn |-> "unborn"]
  /\ lines = [c \in Conn |-> 0]
  /\ dropped = FALSE
  /\ finished = {}
  /\ pipe = [c \in Conn |-> <<>>]
  /\ edge = {}
  /\ files \in SUBSET Files
  /\ chan = <<>>
  /\ pc = "recv"
  /\ closed = FALSE
  /\ stage = [c \in Conn |-> "none"]
  /\ buf = [c \in Conn |-> <<>>]
  /\ batch = {}
  /\ event = None
  /\ out = [c \in Conn |-> <<>>]

-----------------------------------------------------------------------------
(* Applications and the main thread.                                       *)

handler == <<pc, closed, buf, batch, event, out>>

\* Something has happened to the pipe: an event, if the kernel watches it.
Raise(c) == edge' = IF stage[c] = "watched" THEN edge \cup {c} ELSE edge

\* start() spawns a process with a pipe for its output...
Spawn(c) ==
  /\ ~dropped /\ writer[c] = "unborn"
  /\ writer' = [writer EXCEPT ![c] = "open"]
  /\ UNCHANGED <<lines, dropped, finished, pipe, edge, files, chan, stage, handler>>

\* ... and hands the pipe to the handler, while the process runs already.
AddStream(c) ==
  /\ ~dropped /\ writer[c] # "unborn" /\ stage[c] = "none"
  /\ stage' = [stage EXCEPT ![c] = "added"]
  /\ chan' = Append(chan, c)
  /\ UNCHANGED <<outside, pipe, edge, files, handler>>

Write(c) ==
  /\ \/ /\ writer[c] = "open" /\ lines[c] < MaxLines
        /\ lines' = [lines EXCEPT ![c] = @ + 1]
        /\ \E part \in {"whole"} \cup (IF "half" \in Faults THEN {"first"} ELSE {})
                                 \cup (IF "bad" \in Faults THEN {"bad"} ELSE {}) :
             /\ pipe' = [pipe EXCEPT ![c] = Append(@, [no |-> lines[c] + 1, part |-> part])]
             /\ writer' = [writer EXCEPT ![c] = IF part = "first" THEN "mid" ELSE "open"]
     \/ /\ writer[c] = "mid"
        /\ pipe' = [pipe EXCEPT ![c] = Append(@, [no |-> lines[c], part |-> "last"])]
        /\ writer' = [writer EXCEPT ![c] = "open"]
        /\ UNCHANGED lines
  /\ Raise(c)
  /\ UNCHANGED <<dropped, finished, files, chan, stage, handler>>

\* The last process that has the pipe open closes it, at its exit as a rule.
CloseEnd(c) ==
  /\ writer[c] \in {"open", "mid"}
  /\ writer' = [writer EXCEPT ![c] = "closed"]
  /\ Raise(c)
  /\ UNCHANGED <<lines, dropped, finished, pipe, files, chan, stage, handler>>

\* At the end of run(); start() has added every pipe that it made.
DropHandler ==
  /\ ~dropped
  /\ \A c \in Conn : writer[c] # "unborn" => stage[c] # "none"
  /\ dropped' = TRUE
  /\ finished' = {c \in Conn : writer[c] = "closed"}
  /\ chan' = Append(chan, Close)
  /\ UNCHANGED <<writer, lines, pipe, edge, files, stage, handler>>

\* Somebody moves a file away, as logrotate does.
Rotate(f) ==
  /\ f \in files
  /\ files' = files \ {f}
  /\ UNCHANGED <<outside, pipe, edge, chan, stage, handler>>

-----------------------------------------------------------------------------
(* The handler thread.                                                     *)

\* What poll reports of a pipe: data to be read, or no more writers, or both.
Ready(c) == pipe[c] # <<>> \/ writer[c] = "closed"

RecvNothing ==
  /\ pc = "recv" /\ chan = <<>>
  /\ pc' = "poll"
  /\ UNCHANGED <<outside, pipe, edge, files, chan, closed, stage, buf, batch, event, out>>

\* Message::Add.  The connection is in the slab even if registering it fails.
RecvAdd ==
  /\ pc = "recv" /\ chan # <<>> /\ Head(chan) # Close
  /\ chan' = Tail(chan)
  /\ \/ /\ stage' = [stage EXCEPT ![Head(chan)] = "watched"]
        /\ edge' = IF Ready(Head(chan)) THEN edge \cup {Head(chan)} ELSE edge
     \/ /\ "register" \in Faults
        /\ stage' = [stage EXCEPT ![Head(chan)] = "deaf"]
        /\ UNCHANGED edge
  /\ pc' = "poll"
  /\ UNCHANGED <<outside, pipe, files, closed, buf, batch, event, out>>

\* Faulty variant: Message::Close breaks out of the loop.
BreakOnClose == "ended"

\* What is ready is still polled for, and read, before the loop ends.
NextOnClose == "poll"

RecvClose ==
  /\ pc = "recv" /\ chan # <<>> /\ Head(chan) = Close
  /\ chan' = Tail(chan)
  /\ closed' = TRUE
  /\ pc' = NextOnClose
  /\ UNCHANGED <<outside, pipe, edge, files, stage, buf, batch, event, out>>

\* Faulty variants: there is room for every event; poll waits for as long as it takes.
AllReturned(ready) == {ready}

ReturnedInTheEnd(ready) ==
  {S \in SUBSET ready : S # {} /\ (S = ready \/ Cardinality(S) = Capacity)}

\* Of the pipes that are ready, those that one poll returns.  When there are none,
\* it gives up after 50 ms.
Returned(ready) ==
  {S \in SUBSET ready : \/ S = ready /\ Cardinality(S) <= Capacity
                        \/ Cardinality(S) = Capacity}

Poll ==
  /\ pc = "poll"
  /\ LET ready == {c \in edge : Ready(c)} IN
     \E S \in Returned(ready) :
       /\ batch' = {[conn |-> c, readable |-> pipe[c] # <<>>, hup |-> writer[c] = "closed"] : c \in S}
       /\ edge' = ready \ S
  /\ pc' = "events"
  /\ UNCHANGED <<outside, pipe, files, chan, closed, stage, buf, event, out>>

PollFails ==
  /\ pc = "poll" /\ "poll" \in Faults
  /\ pc' = "ended"
  /\ UNCHANGED <<outside, pipe, edge, files, chan, closed, stage, buf, batch, event, out>>

TakeEvent(e) ==
  /\ pc = "events" /\ e \in batch
  /\ event' = e
  /\ batch' = batch \ {e}
  /\ pc' = IF e.readable THEN "read" ELSE "hup"
  /\ UNCHANGED <<outside, pipe, edge, files, chan, closed, stage, buf, out>>

\* Faulty variant: what was buffered comes last.
DataUnbuffered(c) == pipe[c] \o buf[c]

Data(c) == buf[c] \o pipe[c]

\* The i-th piece of s has the first newline in s.
EndsLine(s, i) == s[i].part # "first" /\ \A j \in 1 .. i - 1 : s[j].part = "first"
NoNewline(s)   == \A i \in 1 .. Len(s) : s[i].part = "first"

\* What the BufReader and the pipe hold after the first i pieces are read.
ReadUpTo(c, i) ==
  IF i <= Len(buf[c])
    THEN buf' = [buf EXCEPT ![c] = SubSeq(@, i + 1, Len(@))] /\ UNCHANGED pipe
    ELSE /\ buf' = [buf EXCEPT ![c] = SubSeq(Data(c), i + 1, Len(Data(c)))]
         /\ pipe' = [pipe EXCEPT ![c] = <<>>]

\* write_line().  The file is opened with create_new, which fails if it exists.
\* What cannot be written is lost to all but riffol's own log.
WriteLine(c, line) ==
  LET sink == SinkOf[c] IN
  \/ /\ sink \notin files
     /\ out' = [out EXCEPT ![c] = Append(@, line)]
     /\ files' = files \cup ({sink} \cap Files)
  \/ /\ IF sink \in Files THEN sink \in files ELSE "syslog" \in Faults
     /\ UNCHANGED <<out, files>>

\* Faulty variant: one line for each event.
AfterLine == "hup"

\* The inner loop goes on until there is no more.
NextOnLine == "read"

\* read_line() returns a line.
ReadLine(c) ==
  /\ pc = "read" /\ c = event.conn
  /\ \E i \in 1 .. Len(Data(c)) :
       /\ EndsLine(Data(c), i) /\ Data(c)[i].part # "bad"
       /\ ReadUpTo(c, i)
       /\ WriteLine(c, [no |-> Data(c)[i].no, whole |-> Data(c)[i].part = "whole" \/ i > 1])
  /\ pc' = NextOnLine
  /\ UNCHANGED <<outside, edge, chan, closed, stage, batch, event>>

\* The last line has no newline.  Its last byte is cut off all the same; in the
\* middle of a character that panics.
ReadTail(c) ==
  /\ pc = "read" /\ c = event.conn
  /\ Data(c) # <<>> /\ NoNewline(Data(c)) /\ writer[c] = "closed"
  /\ ReadUpTo(c, Len(Data(c)))
  /\ \/ WriteLine(c, [no |-> Data(c)[1].no, whole |-> FALSE]) /\ pc' = NextOnLine
     \/ "multibyte" \in Faults /\ pc' = "panicked" /\ UNCHANGED <<out, files>>
  /\ UNCHANGED <<outside, edge, chan, closed, stage, batch, event>>

\* It fails with InvalidData.
ReadBad(c) ==
  \E i \in 1 .. Len(Data(c)) :
    EndsLine(Data(c), i) /\ Data(c)[i].part = "bad" /\ ReadUpTo(c, i)

\* It has read all there is and found no newline, with more to come: WouldBlock.
\* What it has read so far is dropped.
ReadBlocks(c) ==
  NoNewline(Data(c)) /\ writer[c] # "closed" /\ ReadUpTo(c, Len(Data(c)))

ReadEof(c) ==
  Data(c) = <<>> /\ writer[c] = "closed" /\ UNCHANGED <<buf, pipe>>

StopReading(c) ==
  /\ pc = "read" /\ c = event.conn
  /\ ReadBad(c) \/ ReadBlocks(c) \/ ReadEof(c)
  /\ pc' = "hup"
  /\ UNCHANGED <<outside, edge, files, chan, closed, stage, batch, event, out>>

HangUp ==
  /\ pc = "hup"
  /\ IF event.hup
       THEN /\ stage' = [stage EXCEPT ![event.conn] = "gone"]
            /\ edge' = edge \ {event.conn}
       ELSE UNCHANGED <<stage, edge>>
  /\ event' = None
  /\ pc' = "events"
  /\ UNCHANGED <<outside, pipe, files, chan, closed, buf, batch, out>>

EndTurn ==
  /\ pc = "events" /\ batch = {}
  /\ pc' = IF closed THEN "ended" ELSE "recv"
  /\ UNCHANGED <<outside, pipe, edge, files, chan, closed, stage, buf, batch, event, out>>

\* The handler thread is gone.
Terminated == pc \in {"ended", "panicked"} /\ UNCHANGED vars

-----------------------------------------------------------------------------

Handler ==
  \/ RecvNothing \/ RecvAdd \/ RecvClose \/ Poll \/ PollFails \/ HangUp \/ EndTurn
  \/ \E e \in batch : TakeEvent(e)
  \/ \E c \in Conn : ReadLine(c) \/ ReadTail(c) \/ StopReading(c)

Outside ==
  \/ DropHandler
  \/ \E f \in Files : Rotate(f)
  \/ \E c \in Conn : Spawn(c) \/ AddStream(c) \/ Write(c) \/ CloseEnd(c)

Next == Handler \/ Outside \/ Terminated

Spec == Init /\ [][Next]_vars

FairSpec == Spec /\ WF_vars(Handler)

-----------------------------------------------------------------------------
(* Safety.                                                                 *)

Watched(c)  == stage[c] = "watched" /\ pc \notin {"ended", "panicked"}
WillRead(c) == \/ \E e \in batch : e.conn = c /\ e.readable
               \/ pc = "read" /\ event.conn = c
WillHang(c) == \/ \E e \in batch : e.conn = c /\ e.hup
               \/ pc \in {"read", "hup"} /\ event.conn = c /\ event.hup

\* Edges are not lost: whenever there is something to be read from a pipe that the
\* handler watches, or its last writer has gone, the handler is about to deal with
\* it or the next poll reports it.  With edge-triggered readiness this rests on the
\* inner loop, which must not leave a pipe before it is empty.
Attentive ==
  \A c \in Conn : Watched(c) =>
    /\ Data(c) # <<>> => c \in edge \/ WillRead(c)
    /\ writer[c] = "closed" => c \in edge \/ WillHang(c)

\* Lines reach a destination in the order they were written in, and none of them
\* twice, whatever fails.
InOrder == \A c \in Conn : \A i, j \in 1 .. Len(out[c]) : i < j => out[c][i].no < out[c][j].no

\* Lines whose newline is known to have been written: a later one was begun, or the
\* writer is still there and not in the middle of one.  A line that its writer left
\* unfinished when it closed the pipe is none of them.
Finished(c) == {n \in 1 .. lines[c] : n < lines[c] \/ writer[c] = "open"}

\* Of a line that was written to its end, it is the whole line that reaches the
\* destination, in whatever pieces the application wrote it.
LinesAreWhole ==
  \A c \in Conn : \A i \in 1 .. Len(out[c]) : out[c][i].no \in Finished(c) => out[c][i].whole

-----------------------------------------------------------------------------
(* Liveness, under FairSpec.                                               *)

\* Dropping the Handler, which joins its thread, comes to an end.
DropReturns == dropped ~> pc = "ended"

\* What is written into a pipe that was added is read, unless the handler ends.
LinesAreRead ==
  \A c \in Conn :
    (stage[c] # "none" /\ Data(c) # <<>>) ~> (Data(c) = <<>> \/ pc = "ended")

-----------------------------------------------------------------------------
(* What this implements.                                                   *)

R == INSTANCE Relay WITH
  Stream  <- Conn,
  Item    <- Line,
  open    <- {c \in Conn : writer[c] # "closed"},
  queue   <- [c \in Conn |-> [i \in 1 .. Len(Data(c)) |-> [no |-> Data(c)[i].no, whole |-> TRUE]]],
  got     <- out,
  closing <- dropped,
  owed    <- finished,
  over    <- (pc = "ended")

\* Everything that is written arrives, in order and once, and what came from
\* processes that are over arrives even while riffol ends.
Relayed == R!Spec
=============================================================================
