----------------------------- MODULE Downloads_proofs -----------------------------
(***************************************************************************)
(* Theorems about the two halves of a download.                            *)
(*                                                                         *)
(* DownloadStream, for every size of the file, the buffers and the water   *)
(* marks: what is in memory stays bounded, no wake-up of the reader is     *)
(* lost, and the file grows as FileTransfer promises.                      *)
(*                                                                         *)
(* RemoteFiles, for every number of downloads, versions, bindings and      *)
(* leases: the type invariant, and the four safety invariants its runs     *)
(* check, each from a stronger one about a path or about the job.          *)
(***************************************************************************)
EXTENDS DownloadStream, RemoteFiles, SequenceTheorems, TLAPS

-----------------------------------------------------------------------------
(* The inductive invariant.                                                *)

\* What the writer has taken from the queue and not counted.
InHand(w) == IF w.at \in {"writing", "counting"} THEN w.chunk ELSE 0

\* The queue holds the bytes between what the writer took and what the reader
\* received: at[i] is where the queue's i-th chunk starts in the file.
Spans(at, o, w) ==
    /\ at \in [1..(Len(o.queue) + 1) -> 0..Size]
    /\ at[1] = o.written + InHand(w) /\ at[Len(o.queue) + 1] = o.received
    /\ \A i \in 1..Len(o.queue) : at[i + 1] = at[i] + o.queue[i]
    /\ \A i \in 1..(Len(o.queue) + 1) : at[i] <= o.received
Over(w) == w.at \in {"closing", "ended"}
Ordered(o, w) == Over(w) \/ \E at : Spans(at, o, w)

Places == {"getting", "writing", "counting", "waking", "closing", "ended"}
Typed ==
    /\ reply \in Replies /\ op \in Downloads /\ writer \in Writers
    /\ gui \in {"idle", "draining", "reading"}
    /\ inbox \in Seq({"drained", "done"})
    /\ outcome \in {"running", "kept", "failed", "dropped"}

\* Bytes are counted once, on the wire, in the reply's buffer or as received.
Counted ==
    /\ reply.coming + reply.unread + op.received = Size
    /\ writer.at = "writing" => writer.chunk > 0 /\ op.bytes = op.written
    /\ writer.at = "counting" => op.bytes = op.written + writer.chunk
    /\ writer.at \in {"getting", "waking"} => op.bytes = op.written
    /\ op.written <= op.received

\* A reader that is not paused has room for one more buffer.
Bounded ==
    /\ ~op.paused /\ ~op.finished => Backlog(op) < High
    /\ gui = "reading" /\ ~op.finished => ~op.paused
    /\ gui # "idle" \/ ~op.finished => Backlog(op) < High + Cap
    /\ Backlog(op) < High + 2 * Cap

\* Who may still act: a handler only for a running operation, and the writer on a
\* target nobody has closed.
Alive ==
    /\ gui # "idle" => outcome = "running"
    /\ outcome # "running" => op.aborted \/ writer.at = "ended"
    /\ (\E i \in DOMAIN inbox : inbox[i] = "done") => writer.at = "ended"
    /\ op.finished <=> reply.ended # "no"
    /\ gui = "idle" /\ outcome = "running" /\ op.finished => reply.unread = 0

StreamInv == Typed /\ Ordered(op, writer) /\ Counted /\ Bounded /\ Alive
                   /\ SleepingReaderIsWoken

-----------------------------------------------------------------------------
(* The queue as spans of the file.                                         *)

LEMMA MoreIsQueued ==
    ASSUME NEW o \in Downloads, NEW w \in Writers, Ordered(o, w),
           NEW n \in 0..Cap, NEW v \in Downloads,
           v.queue = Append(o.queue, n), v.written = o.written,
           v.received = o.received + n
    PROVE  Ordered(v, w)
<1> SUFFICES ASSUME ~Over(w) PROVE Ordered(v, w)
  BY DEF Ordered
<1>1. PICK at : Spans(at, o, w)
  BY DEF Ordered
<1>2. /\ o.queue \in Seq(0..Cap) /\ Len(o.queue) \in Nat /\ v.received \in 0..Size
      /\ Len(v.queue) = Len(o.queue) + 1 /\ o.received \in 0..Size
  BY DEF Downloads
<1>3. /\ v.queue[Len(v.queue)] = n
      /\ \A i \in 1..Len(o.queue) : v.queue[i] = o.queue[i]
  BY <1>2
<1> DEFINE last == Len(v.queue) + 1
           up == [i \in 1..last |-> IF i = last THEN v.received ELSE at[i]]
<1>4. /\ at \in [1..(Len(o.queue) + 1) -> 0..Size]
      /\ at[1] = o.written + InHand(w) /\ at[Len(o.queue) + 1] = o.received
      /\ \A i \in 1..Len(o.queue) : at[i + 1] = at[i] + o.queue[i]
      /\ \A i \in 1..(Len(o.queue) + 1) : at[i] <= o.received
  BY <1>1 DEF Spans
<1>5. up \in [1..last -> 0..Size]
  BY <1>2, <1>4
<1>6. up[1] = v.written + InHand(w) /\ up[last] = v.received
  BY <1>2, <1>4
<1>7. \A i \in 1..Len(v.queue) : up[i + 1] = up[i] + v.queue[i]
  <2> SUFFICES ASSUME NEW i \in 1..Len(v.queue) PROVE up[i + 1] = up[i] + v.queue[i]
    OBVIOUS
  <2>1. CASE i = Len(v.queue)
    BY <1>2, <1>3, <1>4, <2>1
  <2>2. CASE i < Len(v.queue)
    BY <1>2, <1>3, <1>4, <2>2
  <2> QED BY <1>2, <2>1, <2>2
<1>8. \A i \in 1..last : up[i] <= v.received
  <2> SUFFICES ASSUME NEW i \in 1..last PROVE up[i] <= v.received
    OBVIOUS
  <2>1. CASE i = last
    BY <1>2, <2>1
  <2>2. CASE i < last
    <3>0. i \in 1..(Len(o.queue) + 1) /\ i # last
      BY <1>2, <2>2
    <3>1. up[i] = at[i] /\ at[i] \in Int
      BY <1>4, <3>0, SizeAssumption
    <3>2. at[i] <= o.received /\ o.received <= v.received
      BY <1>2, <1>4, <3>0, CapAssumption, SizeAssumption
    <3> HIDE DEF up
    <3> QED BY <1>2, <3>1, <3>2, SizeAssumption
  <2> QED BY <1>2, <2>1, <2>2
<1> HIDE DEF up
<1> QED BY <1>5, <1>6, <1>7, <1>8 DEF Ordered, Spans

\* The writer takes the first chunk, which the sentinel does not move.
LEMMA HeadIsTaken ==
    ASSUME NEW o \in Downloads, NEW w \in Writers, NEW x \in Writers, Ordered(o, w), ~Over(w),
           o.queue # <<>>, InHand(w) = 0, InHand(x) = Head(o.queue),
           NEW v \in Downloads, v.queue = Tail(o.queue), v.written = o.written,
           v.received = o.received
    PROVE  Ordered(v, x)
<1>1. PICK at : Spans(at, o, w)
  BY DEF Ordered
<1>2. /\ o.queue \in Seq(0..Cap) /\ Len(o.queue) \in Nat /\ Len(o.queue) >= 1
      /\ Len(v.queue) = Len(o.queue) - 1 /\ Head(o.queue) = o.queue[1]
      /\ \A i \in 1..Len(v.queue) : v.queue[i] = o.queue[i + 1]
  BY DEF Downloads
<1> DEFINE down == [i \in 1..(Len(v.queue) + 1) |-> at[i + 1]]
<1>3. /\ at \in [1..(Len(o.queue) + 1) -> 0..Size]
      /\ at[1] = o.written /\ at[Len(o.queue) + 1] = o.received
      /\ \A i \in 1..Len(o.queue) : at[i + 1] = at[i] + o.queue[i]
      /\ \A i \in 1..(Len(o.queue) + 1) : at[i] <= o.received
  BY <1>1 DEF Spans, Downloads
<1>4. down \in [1..(Len(v.queue) + 1) -> 0..Size]
  BY <1>2, <1>3
<1>5. down[1] = v.written + InHand(x) /\ down[Len(v.queue) + 1] = v.received
  BY <1>2, <1>3
<1>6. \A i \in 1..Len(v.queue) : down[i + 1] = down[i] + v.queue[i]
  BY <1>2, <1>3
<1>7. \A i \in 1..(Len(v.queue) + 1) : down[i] <= v.received
  BY <1>2, <1>3
<1> HIDE DEF down
<1> QED BY <1>4, <1>5, <1>6, <1>7 DEF Ordered, Spans

\* Nothing that the spans depend on has changed.
LEMMA SameSpans ==
    ASSUME NEW o, NEW w, NEW v, NEW x, Ordered(o, w),
           Over(w) => Over(x), v.queue = o.queue, v.received = o.received,
           v.written + InHand(x) = o.written + InHand(w)
    PROVE  Ordered(v, x)
BY DEF Ordered, Spans

LEMMA InHandFits ==
    ASSUME NEW o \in Downloads, NEW w \in Writers, Ordered(o, w), ~Over(w)
    PROVE  InHand(w) \in 0..Cap /\ o.written + InHand(w) <= o.received
<1>1. PICK at : Spans(at, o, w)
  BY DEF Ordered
<1>2. Len(o.queue) \in Nat
  BY DEF Downloads
<1>3. at[1] <= o.received /\ at[1] = o.written + InHand(w)
  BY <1>1, <1>2 DEF Spans
<1> QED BY <1>3, CapAssumption DEF InHand, Writers

LEMMA StoppedIs ==
    ASSUME NEW o \in Downloads, NEW w \in Writers, Ordered(o, w)
    PROVE  /\ Stopped(o) \in Downloads /\ Ordered(Stopped(o), w)
           /\ Stopped(o).received = o.received /\ Stopped(o).written = o.written
           /\ Stopped(o).paused = o.paused /\ Stopped(o).finished = o.finished
           /\ Stopped(o).aborted = o.aborted /\ Stopped(o).error = o.error
           /\ Stopped(o).bytes = o.bytes
<1>1. CASE o.stopped
  BY <1>1 DEF Stopped
<1>2. CASE ~o.stopped
  <2> DEFINE q == Append(o.queue, End)
             v == [o EXCEPT !.stopped = TRUE, !.queue = q]
  <2>1. q \in Seq(0..Cap)
    BY CapAssumption DEF Downloads, End
  <2>2. Stopped(o) = v
    BY <1>2 DEF Stopped
  <2> HIDE DEF q
  <2>3. /\ v \in Downloads /\ v.queue = q /\ v.received = o.received
        /\ v.written = o.written /\ v.paused = o.paused /\ v.finished = o.finished
        /\ v.aborted = o.aborted /\ v.error = o.error /\ v.bytes = o.bytes
    BY <2>1 DEF Downloads
  <2> HIDE DEF v
  <2>4. v.received = o.received + End /\ End \in 0..Cap
    BY <2>3, CapAssumption DEF End, Downloads
  <2>5. Ordered(v, w)
    BY <2>3, <2>4, MoreIsQueued DEF q
  <2> QED BY <2>2, <2>3, <2>5
<1> QED BY <1>1, <1>2

LEMMA AbortedIs ==
    ASSUME NEW o \in Downloads, NEW w \in Writers, Ordered(o, w)
    PROVE  /\ Aborted(o) \in Downloads /\ Ordered(Aborted(o), w) /\ Aborted(o).aborted
           /\ Aborted(o).received = o.received /\ Aborted(o).written = o.written
           /\ Aborted(o).paused = o.paused /\ Aborted(o).finished = o.finished
           /\ Aborted(o).error = o.error /\ Aborted(o).bytes = o.bytes
<1> DEFINE s == Stopped(o)
           v == [s EXCEPT !.aborted = TRUE]
<1>1. /\ s \in Downloads /\ Ordered(s, w) /\ s.received = o.received
      /\ s.written = o.written /\ s.paused = o.paused /\ s.finished = o.finished
      /\ s.error = o.error /\ s.bytes = o.bytes
  BY StoppedIs
<1> HIDE DEF s
<1>2. /\ v \in Downloads /\ v.aborted /\ v.queue = s.queue /\ v.received = s.received
      /\ v.written = s.written /\ v.paused = s.paused /\ v.finished = s.finished
      /\ v.error = s.error /\ v.bytes = s.bytes
  BY <1>1 DEF Downloads
<1>3. Aborted(o) = v
  BY DEF Aborted, s
<1> HIDE DEF v
<1>4. Ordered(v, w)
  BY <1>1, <1>2, SameSpans
<1> QED BY <1>1, <1>2, <1>3, <1>4

LEMMA EnqueuedIs ==
    ASSUME NEW o \in Downloads, NEW w \in Writers, Ordered(o, w), NEW n \in 0..Cap,
           o.received + n <= Size
    PROVE  LET v == Enqueued(o, n)
           IN  /\ v \in Downloads /\ Ordered(v, w)
               /\ v.received = o.received + n /\ v.written = o.written
               /\ v.finished = o.finished /\ v.aborted = o.aborted
               /\ v.error = o.error /\ v.bytes = o.bytes
               /\ o.paused => v.paused
               /\ n > 0 /\ ~v.paused /\ ~o.finished => ~(Backlog(o) + n >= High)
               /\ n = 0 => v = o
<1>1. CASE n = 0
  BY <1>1 DEF Enqueued, Downloads
<1>2. CASE n > 0
  <2> DEFINE q == Append(o.queue, n)
             r == o.received + n
             p == o.paused \/ (~o.finished /\ Backlog(o) + n >= High)
             v == [o EXCEPT !.received = r, !.queue = q, !.paused = p]
  <2>1. q \in Seq(0..Cap) /\ r \in 0..Size /\ p \in BOOLEAN
    BY SizeAssumption, CapAssumption DEF Downloads
  <2>2. Enqueued(o, n) = v
    BY <1>2 DEF Enqueued
  <2>p. /\ o.paused => p
        /\ ~p /\ ~o.finished => ~(Backlog(o) + n >= High)
    OBVIOUS
  <2> HIDE DEF q, r, p
  <2>3. /\ v \in Downloads /\ v.received = r /\ v.queue = q /\ v.paused = p
        /\ v.written = o.written /\ v.finished = o.finished /\ v.aborted = o.aborted
        /\ v.error = o.error /\ v.bytes = o.bytes
    BY <2>1 DEF Downloads
  <2> HIDE DEF v
  <2>4. Ordered(v, w)
    BY <2>3, MoreIsQueued DEF q, r
  <2> QED BY <1>2, <2>2, <2>3, <2>4, <2>p DEF r
<1> QED BY <1>1, <1>2

-----------------------------------------------------------------------------
(* The steps.                                                              *)

Mapped == [Transfer!Next]_<<op.bytes, outcome>>

LEMMA ArriveKeeps ==
    ASSUME StreamInv, Arrive
    PROVE  StreamInv' /\ Mapped
<1>1. PICK n \in 1..Size : Room(n) /\ reply' = [reply EXCEPT !.coming = @ - n, !.unread = @ + n]
  BY DEF Arrive
<1>2. reply' \in Replies /\ reply'.coming + reply'.unread = reply.coming + reply.unread
      /\ reply'.ended = reply.ended
  <2> DEFINE c == reply.coming - n
             u == reply.unread + n
  <2>1. reply \in Replies /\ reply.coming \in 0..Size /\ reply.unread \in 0..Cap
    BY DEF StreamInv, Typed, Replies
  <2>2. c \in 0..Size /\ u \in 0..Cap /\ c + u = reply.coming + reply.unread
    BY <1>1, <2>1, CapAssumption, SizeAssumption DEF Room
  <2>3. reply' = [reply EXCEPT !.coming = c, !.unread = u]
    BY <1>1
  <2> HIDE DEF c, u
  <2>4. reply' \in Replies /\ reply'.coming = c /\ reply'.unread = u /\ reply'.ended = reply.ended
    BY <2>1, <2>2, <2>3 DEF Replies
  <2> QED BY <2>2, <2>4
<1> QED BY <1>2 DEF Arrive, StreamInv, Typed, Counted, Bounded, Alive, SleepingReaderIsWoken,
                     Mapped

LEMMA EndKeeps ==
    ASSUME StreamInv, NEW how \in {"ok", "error"}, ReplyEnds(how)
    PROVE  StreamInv' /\ Mapped
<1> DEFINE v == [op EXCEPT !.finished = TRUE]
<1>1. /\ v \in Downloads /\ v.finished /\ v.received = op.received /\ v.written = op.written
      /\ v.queue = op.queue /\ v.paused = op.paused /\ v.aborted = op.aborted
      /\ v.error = op.error /\ v.bytes = op.bytes
  BY DEF StreamInv, Typed, Downloads
<1>2. op' = v
  BY DEF ReplyEnds
<1> HIDE DEF v
<1>3. /\ reply' \in Replies /\ reply'.coming = reply.coming /\ reply'.unread = reply.unread
      /\ reply'.ended = how
  BY DEF StreamInv, Typed, Replies, ReplyEnds
<1>4. Ordered(v, writer)
  BY <1>1, SameSpans DEF StreamInv
<1>5. ~op.finished
  BY DEF ReplyEnds, StreamInv, Alive
<1> QED BY <1>1, <1>2, <1>3, <1>4, <1>5
        DEF ReplyEnds, StreamInv, Typed, Counted, Bounded, Backlog, Alive,
            SleepingReaderIsWoken, Mapped

LEMMA AskKeeps ==
    ASSUME StreamInv, Ask
    PROVE  StreamInv' /\ Mapped
<1> DEFINE p == op.paused /\ ~(CanRead(op) /\ ~op.finished)
<1>1. /\ op' \in Downloads /\ op'.paused = p /\ op'.finished = op.finished
      /\ op'.received = op.received /\ op'.written = op.written /\ op'.queue = op.queue
      /\ op'.aborted = op.aborted /\ op'.error = op.error /\ op'.bytes = op.bytes
  BY DEF Ask, StreamInv, Typed, Downloads
<1>2. Ordered(op', writer)
  BY <1>1, SameSpans DEF StreamInv
<1>3. Bounded'
  <2>1. ~op.finished /\ CanRead(op) => Backlog(op) < High
    BY MarksAssumption DEF CanRead, StreamInv, Bounded, Backlog, Typed, Downloads
  <2> QED BY <1>1, <2>1 DEF Ask, CanRead, StreamInv, Bounded, Backlog
<1>4. SleepingReaderIsWoken'
  BY <1>1, MarksAssumption
     DEF Ask, CanRead, StreamInv, Typed, Downloads, SleepingReaderIsWoken, Backlog
<1> QED BY <1>1, <1>2, <1>3, <1>4
        DEF Ask, CanRead, StreamInv, Typed, Counted, Alive, Mapped

LEMMA ReadKeeps ==
    ASSUME StreamInv, Read
    PROVE  StreamInv' /\ Mapped
<1> DEFINE n == reply.unread
           o == Enqueued(op, n)
<1>a. /\ op \in Downloads /\ writer \in Writers /\ Ordered(op, writer) /\ n \in 0..Cap
      /\ op.received + n <= Size /\ op.received \in 0..Size /\ op.written \in 0..Size
      /\ reply.coming \in 0..Size
  BY SizeAssumption, CapAssumption DEF StreamInv, Typed, Counted, Replies, Downloads
<1>1. /\ o \in Downloads /\ Ordered(o, writer)
      /\ o.received = op.received + n /\ o.written = op.written
      /\ o.finished = op.finished /\ o.aborted = op.aborted
      /\ o.error = op.error /\ o.bytes = op.bytes
      /\ n > 0 /\ ~o.paused /\ ~op.finished => ~(Backlog(op) + n >= High)
      /\ n = 0 => o = op
  BY <1>a, EnqueuedIs
<1>2. op' = IF op.finished THEN Stopped(o) ELSE o
  BY DEF Read
<1> HIDE DEF o
<1>3. /\ op' \in Downloads /\ Ordered(op', writer)
      /\ op'.received = op.received + n /\ op'.written = op.written
      /\ op'.finished = op.finished /\ op'.aborted = op.aborted
      /\ op'.error = op.error /\ op'.bytes = op.bytes
      /\ op'.paused = o.paused
  BY <1>a, <1>1, <1>2, StoppedIs
<1>4. reply' \in Replies /\ reply'.coming = reply.coming /\ reply'.unread = 0
      /\ reply'.ended = reply.ended
  BY CapAssumption DEF Read, StreamInv, Typed, Replies
<1>5. Bounded'
  <2>1. Backlog(op') = Backlog(op) + n /\ Backlog(op) \in Int /\ Backlog(op) < High + Cap
    BY <1>a, <1>3 DEF Backlog, StreamInv, Bounded, Read
  <2>2. ~op.finished => ~op.paused /\ Backlog(op) < High
    BY DEF StreamInv, Bounded, Read
  <2>3. ~op'.paused /\ ~op'.finished => Backlog(op') < High
    BY <1>a, <1>1, <1>3, <2>1, <2>2, MarksAssumption
  <2>4. Backlog(op') < High + 2 * Cap /\ (~op'.finished => Backlog(op') < High + Cap)
    BY <1>a, <1>3, <2>1, <2>2, MarksAssumption, CapAssumption
  <2>5. gui' = "idle"
    BY DEF Read
  <2> QED BY <2>3, <2>4, <2>5 DEF Bounded
<1>6. Counted'
  BY <1>a, <1>3, <1>4 DEF Read, StreamInv, Counted
<1> QED BY <1>3, <1>4, <1>5, <1>6
        DEF Read, StreamInv, Typed, Alive, SleepingReaderIsWoken, Replies, Mapped

LEMMA GivenUpKeeps ==
    ASSUME StreamInv, Refuse \/ Abort
    PROVE  StreamInv' /\ Mapped
<1>1. /\ op' \in Downloads /\ Ordered(op', writer) /\ op'.aborted
      /\ op'.received = op.received /\ op'.written = op.written
      /\ op'.paused = op.paused /\ op'.finished = op.finished
      /\ op'.error = op.error /\ op'.bytes = op.bytes
  BY AbortedIs DEF Refuse, Abort, StreamInv, Typed
<1>2. outcome = "running" /\ outcome' \in {"failed", "dropped"} /\ gui' = "idle"
      /\ UNCHANGED <<reply, writer, inbox>>
  BY DEF Refuse, Abort, StreamInv, Alive
<1>3. Bounded'
  BY <1>1, <1>2 DEF StreamInv, Bounded, Backlog
<1>4. Mapped
  BY <1>1, <1>2 DEF Mapped, Transfer!Next, Transfer!GiveUp
<1> QED BY <1>1, <1>2, <1>3, <1>4
        DEF StreamInv, Typed, Counted, Alive, SleepingReaderIsWoken

LEMMA InboxTail ==
    ASSUME NEW q \in Seq({"drained", "done"}), q # <<>>
    PROVE  /\ Tail(q) \in Seq({"drained", "done"})
           /\ \A i \in DOMAIN Tail(q) : i + 1 \in DOMAIN q /\ Tail(q)[i] = q[i + 1]
           /\ \A i \in DOMAIN q : i = 1 \/ (i - 1 \in DOMAIN Tail(q) /\ Tail(q)[i - 1] = q[i])
           /\ 1 \in DOMAIN q /\ Head(q) = q[1]
OBVIOUS

LEMMA DrainedKeeps ==
    ASSUME StreamInv, WriterDrained
    PROVE  StreamInv' /\ Mapped
<1>1. /\ inbox' \in Seq({"drained", "done"})
      /\ \A i \in DOMAIN inbox' : i + 1 \in DOMAIN inbox /\ inbox'[i] = inbox[i + 1]
  BY InboxTail DEF WriterDrained, StreamInv, Typed
<1> QED BY <1>1 DEF WriterDrained, StreamInv, Typed, Counted, Bounded, Alive,
                     SleepingReaderIsWoken, Mapped

LEMMA DoneKeeps ==
    ASSUME StreamInv, StreamDone
    PROVE  StreamInv' /\ Mapped
<1>1. /\ inbox \in Seq({"drained", "done"}) /\ inbox # <<>> /\ inbox' = Tail(inbox)
      /\ Head(inbox) = "done"
  BY DEF StreamDone, StreamInv, Typed
<1>2. /\ inbox' \in Seq({"drained", "done"})
      /\ \A i \in DOMAIN inbox' : i + 1 \in DOMAIN inbox /\ inbox'[i] = inbox[i + 1]
      /\ \A i \in DOMAIN inbox : i = 1 \/ (i - 1 \in DOMAIN inbox' /\ inbox'[i - 1] = inbox[i])
      /\ 1 \in DOMAIN inbox /\ inbox[1] = "done"
  BY <1>1, InboxTail
<1>3. writer.at = "ended"
  BY <1>2 DEF StreamInv, Alive
<1>4. /\ outcome' \in {"running", "kept", "failed", "dropped"} /\ outcome' # "running"
      /\ outcome = "running" => outcome' = "failed" \/ (outcome' = "kept" /\ op.bytes = Size)
      /\ outcome # "running" => outcome' = outcome
  BY DEF StreamDone, Complete, StreamInv, Typed
<1>5. UNCHANGED <<reply, op, writer, gui>> /\ gui = "idle"
  BY DEF StreamDone
<1>6. Mapped
  BY <1>4, <1>5 DEF Mapped, Transfer!Next, Transfer!GiveUp, Transfer!Keep
<1> QED BY <1>2, <1>3, <1>4, <1>5, <1>6
        DEF StreamInv, Typed, Counted, Bounded, Alive, SleepingReaderIsWoken

LEMMA GetKeeps ==
    ASSUME StreamInv, Get
    PROVE  StreamInv' /\ Mapped
<1>a. /\ op \in Downloads /\ writer \in Writers /\ Ordered(op, writer)
      /\ op.queue \in Seq(0..Cap) /\ op.queue # <<>> /\ writer.at = "getting"
  BY DEF Get, StreamInv, Typed, Downloads
<1>b. Head(op.queue) \in 0..Cap /\ Tail(op.queue) \in Seq(0..Cap)
  BY <1>a, HeadTailProperties
<1>1. /\ op' \in Downloads /\ op'.queue = Tail(op.queue) /\ op'.received = op.received
      /\ op'.written = op.written /\ op'.paused = op.paused /\ op'.finished = op.finished
      /\ op'.aborted = op.aborted /\ op'.error = op.error /\ op'.bytes = op.bytes
  BY <1>a, <1>b DEF Get, Downloads
<1>2. CASE Head(op.queue) = End
  <2>1. writer' \in Writers /\ writer'.at = "closing"
    BY <1>a, <1>2 DEF Get, WriterAt, Writers
  <2> QED BY <1>a, <1>1, <2>1
          DEF Get, StreamInv, Typed, Ordered, Over, Counted, Bounded, Backlog, Alive,
              SleepingReaderIsWoken, Mapped
<1>3. CASE Head(op.queue) # End
  <2>1. writer' = [at |-> "writing", chunk |-> Head(op.queue)]
    BY <1>3 DEF Get
  <2>2. /\ writer' \in Writers /\ writer'.at = "writing" /\ writer'.chunk = Head(op.queue)
        /\ writer'.chunk > 0
    BY <1>3, <1>b, <2>1, CapAssumption DEF Writers, End
  <2>3. Ordered(op', writer')
    <3>1. InHand(writer) = 0 /\ InHand(writer') = Head(op.queue) /\ ~Over(writer)
      BY <1>a, <2>2 DEF InHand, Over
    <3> QED BY <1>a, <1>1, <2>2, <3>1, HeadIsTaken
  <2> QED BY <1>a, <1>1, <2>2, <2>3
          DEF Get, StreamInv, Typed, Counted, Bounded, Backlog, Alive,
              SleepingReaderIsWoken, Mapped
<1> QED BY <1>2, <1>3

LEMMA WriteKeeps ==
    ASSUME StreamInv, Write
    PROVE  StreamInv' /\ Mapped
<1>a. /\ op \in Downloads /\ writer \in Writers /\ Ordered(op, writer)
      /\ writer.at = "writing" /\ writer.chunk \in 1..Cap /\ op.bytes = op.written
      /\ op.bytes \in 0..Size /\ op.received \in 0..Size
  BY CapAssumption DEF Write, StreamInv, Typed, Counted, Downloads, Writers
<1>1. CASE ~op.aborted /\ op' = [op EXCEPT !.bytes = @ + writer.chunk] /\ WriterAt("counting")
  <2> DEFINE b == op.bytes + writer.chunk
  <2>1. op.written + writer.chunk <= op.received
    BY <1>a, InHandFits DEF Over, InHand
  <2>2. b \in (op.bytes + 1)..Size /\ b \in 0..Size
    BY <1>a, <2>1, SizeAssumption, CapAssumption
  <2>3. op' = [op EXCEPT !.bytes = b]
    BY <1>1
  <2>4. b = op.written + writer.chunk
    BY <1>a
  <2> HIDE DEF b
  <2>5. /\ op' \in Downloads /\ op'.queue = op.queue /\ op'.received = op.received
        /\ op'.written = op.written /\ op'.paused = op.paused /\ op'.finished = op.finished
        /\ op'.aborted = op.aborted /\ op'.error = op.error /\ op'.bytes = b
    BY <1>a, <2>2, <2>3 DEF Downloads
  <2>6. writer' \in Writers /\ writer'.at = "counting" /\ writer'.chunk = writer.chunk
    BY <1>a, <1>1 DEF WriterAt, Writers
  <2>7. Ordered(op', writer')
    BY <1>a, <2>5, <2>6, SameSpans DEF InHand, Over
  <2>8. Mapped
    <3>1. outcome = "running"
      BY <1>a, <1>1 DEF StreamInv, Alive
    <3> QED BY <2>2, <2>5, <3>1 DEF Write, Mapped, Transfer!Next, Transfer!Grow
  <2> QED BY <1>a, <2>4, <2>5, <2>6, <2>7, <2>8
          DEF Write, StreamInv, Typed, Counted, Bounded, Backlog, Alive,
              SleepingReaderIsWoken
<1>2. CASE op' = [op EXCEPT !.error = TRUE] /\ WriterAt("closing")
  <2>1. /\ op' \in Downloads /\ op'.queue = op.queue /\ op'.received = op.received
        /\ op'.written = op.written /\ op'.paused = op.paused /\ op'.finished = op.finished
        /\ op'.aborted = op.aborted /\ op'.error /\ op'.bytes = op.bytes
    BY <1>a, <1>2 DEF Downloads
  <2>2. writer' \in Writers /\ writer'.at = "closing"
    BY <1>a, <1>2 DEF WriterAt, Writers
  <2> QED BY <1>a, <2>1, <2>2
          DEF Write, StreamInv, Typed, Ordered, Over, Counted, Bounded, Backlog, Alive,
              SleepingReaderIsWoken, Mapped
<1> QED BY <1>1, <1>2 DEF Write

LEMMA CountKeeps ==
    ASSUME StreamInv, CountWritten
    PROVE  StreamInv' /\ Mapped
<1> DEFINE resumes == Resumes(op, writer.chunk)
           p == op.paused /\ ~resumes
           n == op.written + writer.chunk
<1>a. /\ op \in Downloads /\ writer \in Writers /\ Ordered(op, writer)
      /\ writer.at = "counting" /\ writer.chunk \in 0..Cap /\ op.bytes = n
      /\ op.written \in 0..Size /\ op.received \in 0..Size
  BY DEF CountWritten, StreamInv, Typed, Counted, Downloads, Writers
<1>b. n \in 0..Size /\ n <= op.received
  BY <1>a, InHandFits, SizeAssumption, CapAssumption DEF Over, InHand
<1>c. /\ op' = [op EXCEPT !.written = n, !.paused = p]
      /\ WriterAt(IF resumes THEN "waking" ELSE "getting")
  BY DEF CountWritten
<1>d. op.received - n = Backlog(op) - writer.chunk /\ Backlog(op) \in Int
  BY <1>a DEF Backlog
<1> HIDE DEF n, resumes
<1>1. /\ op' \in Downloads /\ op'.queue = op.queue /\ op'.received = op.received
      /\ op'.written = n /\ op'.paused = p /\ op'.finished = op.finished
      /\ op'.aborted = op.aborted /\ op'.error = op.error /\ op'.bytes = op.bytes
  BY <1>a, <1>b, <1>c DEF Downloads
<1>2. /\ writer' \in Writers /\ writer'.chunk = writer.chunk
      /\ writer'.at = IF resumes THEN "waking" ELSE "getting"
  BY <1>a, <1>c DEF WriterAt, Writers
<1>3. Ordered(op', writer')
  <2>1. InHand(writer') = 0 /\ InHand(writer) = writer.chunk /\ ~Over(writer)
    BY <1>a, <1>2 DEF InHand, Over
  <2>2. op'.written + InHand(writer') = op.written + InHand(writer)
    BY <1>a, <1>1, <2>1 DEF n
  <2> QED BY <1>a, <1>1, <2>1, <2>2, SameSpans
<1>4. Backlog(op') = Backlog(op) - writer.chunk /\ Backlog(op') <= Backlog(op)
      /\ Backlog(op') \in Int
  BY <1>a, <1>b, <1>1, <1>d, CapAssumption DEF Backlog
<1>5. CASE resumes
  <2>1. ~op'.paused /\ Backlog(op') < Low /\ writer'.at = "waking"
    BY <1>1, <1>2, <1>4, <1>5 DEF resumes, Resumes
  <2>2. Bounded'
    BY <1>a, <1>1, <1>4, <1>d, <2>1, MarksAssumption, CapAssumption
       DEF CountWritten, StreamInv, Bounded
  <2> QED BY <1>a, <1>b, <1>1, <1>2, <1>3, <2>1, <2>2
          DEF CountWritten, StreamInv, Typed, Counted, Alive, SleepingReaderIsWoken, Mapped
<1>6. CASE ~resumes
  <2>1. /\ op'.paused = op.paused /\ writer'.at = "getting"
        /\ op.paused => ~(Backlog(op') < Low)
    <3>1. op.paused \in BOOLEAN
      BY <1>a DEF Downloads
    <3>2. op'.paused = op.paused /\ writer'.at = "getting"
      BY <1>1, <1>2, <1>6, <3>1
    <3> QED BY <1>4, <1>6, <3>2 DEF resumes, Resumes
  <2>2. Bounded'
    BY <1>a, <1>1, <1>4, <1>d, <2>1, MarksAssumption, CapAssumption
       DEF CountWritten, StreamInv, Bounded
  <2>3. op.paused => Backlog(op') >= Low
    BY <1>4, <2>1, MarksAssumption
  <2>4. SleepingReaderIsWoken'
    BY <1>a, <1>1, <2>1, <2>3 DEF CountWritten, StreamInv, SleepingReaderIsWoken
  <2> QED BY <1>a, <1>b, <1>1, <1>2, <1>3, <2>1, <2>2, <2>4
          DEF CountWritten, StreamInv, Typed, Counted, Alive, Mapped
<1> QED BY <1>5, <1>6

LEMMA InboxGrows ==
    ASSUME NEW q \in Seq({"drained", "done"}), NEW x \in {"drained", "done"}
    PROVE  /\ Append(q, x) \in Seq({"drained", "done"})
           /\ \A i \in DOMAIN q : i \in DOMAIN Append(q, x) /\ Append(q, x)[i] = q[i]
           /\ \A i \in DOMAIN Append(q, x) :
                  i = Len(q) + 1 \/ (i \in DOMAIN q /\ Append(q, x)[i] = q[i])
           /\ Len(q) + 1 \in DOMAIN Append(q, x) /\ Append(q, x)[Len(q) + 1] = x
OBVIOUS

LEMMA WakeKeeps ==
    ASSUME StreamInv, Wake
    PROVE  StreamInv' /\ Mapped
<1>1. /\ inbox' \in Seq({"drained", "done"})
      /\ \A i \in DOMAIN inbox' : i = Len(inbox) + 1 \/ (i \in DOMAIN inbox /\ inbox'[i] = inbox[i])
      /\ Len(inbox) + 1 \in DOMAIN inbox' /\ inbox'[Len(inbox) + 1] = "drained"
  BY InboxGrows DEF Wake, StreamInv, Typed
<1>2. writer.at = "waking" /\ writer' \in Writers /\ writer'.at = "getting"
  BY DEF Wake, WriterAt, StreamInv, Typed, Writers
<1>3. Ordered(op, writer')
  <2>1. op.written + InHand(writer') = op.written + InHand(writer)
    BY <1>2 DEF InHand
  <2> QED BY <1>2, <2>1, SameSpans DEF StreamInv, Over
<1> QED BY <1>1, <1>2, <1>3
        DEF Wake, StreamInv, Typed, Counted, Bounded, Alive, SleepingReaderIsWoken, Mapped

LEMMA CloseKeeps ==
    ASSUME StreamInv, CloseTarget
    PROVE  StreamInv' /\ Mapped
<1>1. /\ inbox' \in Seq({"drained", "done"})
      /\ \A i \in DOMAIN inbox : i \in DOMAIN inbox' /\ inbox'[i] = inbox[i]
  BY InboxGrows DEF CloseTarget, StreamInv, Typed
<1>2. writer.at = "closing" /\ writer' \in Writers /\ writer'.at = "ended"
  BY DEF CloseTarget, WriterAt, StreamInv, Typed, Writers
<1>3. PICK fails \in BOOLEAN : op' = [op EXCEPT !.error = @ \/ (fails /\ ~op.aborted)]
  BY DEF CloseTarget
<1>4. /\ op' \in Downloads /\ op'.queue = op.queue /\ op'.received = op.received
      /\ op'.written = op.written /\ op'.paused = op.paused /\ op'.finished = op.finished
      /\ op'.aborted = op.aborted /\ (op.error => op'.error) /\ op'.bytes = op.bytes
  BY <1>3 DEF StreamInv, Typed, Downloads
<1> QED BY <1>1, <1>2, <1>4
        DEF CloseTarget, StreamInv, Typed, Ordered, Over, Counted, Bounded, Backlog, Alive,
            SleepingReaderIsWoken, Mapped

LEMMA StreamStarts == StreamInit => StreamInv
<1> SUFFICES ASSUME StreamInit PROVE StreamInv
  OBVIOUS
<1>1. reply \in Replies /\ op \in Downloads /\ writer \in Writers /\ inbox \in Seq({"drained", "done"})
  BY SizeAssumption, CapAssumption DEF StreamInit, Replies, Downloads, Writers
<1>2. Ordered(op, writer)
  <2> DEFINE at == [i \in 1..1 |-> 0]
  <2>1. Spans(at, op, writer)
    BY SizeAssumption DEF Spans, StreamInit, InHand
  <2> QED BY <2>1 DEF Ordered
<1> QED BY <1>1, <1>2, SizeAssumption, MarksAssumption, CapAssumption
        DEF StreamInit, StreamInv, Typed, Counted, Bounded, Backlog, Alive, SleepingReaderIsWoken

LEMMA StreamSteps == StreamInv /\ [StreamNext]_streamVars => StreamInv' /\ Mapped
<1> SUFFICES ASSUME StreamInv, [StreamNext]_streamVars PROVE StreamInv' /\ Mapped
  OBVIOUS
<1>1. CASE UNCHANGED streamVars
  BY <1>1 DEF streamVars, StreamInv, Typed, Ordered, Over, Spans, InHand, Counted, Bounded, Backlog,
              Alive, SleepingReaderIsWoken, Mapped
<1>2. CASE StreamNext
  BY <1>2, ArriveKeeps, EndKeeps, AskKeeps, ReadKeeps, GivenUpKeeps, DrainedKeeps, DoneKeeps,
     GetKeeps, WriteKeeps, CountKeeps, WakeKeeps, CloseKeeps
     DEF StreamNext, Network, EndsWhole, Breaks, Gui, Writer
<1> QED BY <1>1, <1>2

-----------------------------------------------------------------------------
(* The theorems.                                                           *)

\* Every field keeps its type, and the bytes in memory their bound, whatever the
\* network, the disk and the owner do.
THEOREM StreamTypeCorrect == StreamSpec => []StreamTypeOK
<1>1. StreamInv => StreamTypeOK
  <2> SUFFICES ASSUME StreamInv PROVE StreamTypeOK
    OBVIOUS
  <2>1. Backlog(op) < High + (IF op.finished THEN 2 * Cap ELSE Cap)
    BY DEF StreamInv, Bounded
  <2> QED BY <2>1 DEF StreamInv, Typed, StreamTypeOK
<1> QED BY StreamStarts, StreamSteps, <1>1, PTL DEF StreamSpec

\* A reader that has stopped with bytes in its buffer is always woken.
THEOREM SleepersAreWoken == StreamSpec => []SleepingReaderIsWoken
<1>1. StreamInv => SleepingReaderIsWoken
  BY DEF StreamInv
<1> QED BY StreamStarts, StreamSteps, <1>1, PTL DEF StreamSpec

\* Every step of the download is a step of FileTransfer: the file only grows, within the
\* size the listing gave, is kept only whole, and is left alone once it is kept or given up.
THEOREM StreamsTransfer == StreamSpec => Transfer!Init /\ [][Transfer!Next]_<<op.bytes, outcome>>
<1>1. StreamInit => Transfer!Init
  BY DEF StreamInit, Transfer!Init
<1>2. StreamInv /\ [StreamNext]_streamVars => [Transfer!Next]_<<op.bytes, outcome>>
  BY StreamSteps DEF Mapped
<1> QED BY StreamStarts, StreamSteps, <1>1, <1>2, PTL DEF StreamSpec

-----------------------------------------------------------------------------
(* RemoteFiles.                                                            *)

\* An open service's operations fit its generations, and what a restore is for is a
\* version: only fetched metadata is verified.
Proven(j) == j.verified => j.fetched
Within(s) == ~s.closed => s.gen <= MaxBind
Named(O)  == \A p \in Paths : O[p].at = "restoring" => O[p].id \in Versions
FilesInv  == TypeOK /\ Proven(job) /\ Within(svc) /\ Named(ops)

Tables == [Paths -> Operations]

-----------------------------------------------------------------------------
(* The ledger.                                                             *)

LEMMA LeaseTypes ==
    ASSUME NEW F \in Ledgers, NEW p \in Paths
    PROVE  Leased(F, p) \in Ledgers /\ Unpinned(F, p) \in Ledgers
<1> DEFINE l == [F.leases EXCEPT ![p] = @ + 1]
<1>1. l \in [Paths -> Nat]
  BY DEF Ledgers
<1>2. Leased(F, p) = [F EXCEPT !.leases = l]
  BY DEF Leased, Ledgers
<1> HIDE DEF l
<1> QED BY <1>1, <1>2 DEF Ledgers, Unpinned

LEMMA WithoutTypes ==
    ASSUME NEW F \in Ledgers, NEW gone PROVE Without(F, gone) \in Ledgers
BY DEF Without, Ledgers

LEMMA ReleasedTypes ==
    ASSUME NEW F \in Ledgers, NEW p \in Paths, NEW current
    PROVE  Released(F, p, current) \in Ledgers
<1> DEFINE count == [F.leases EXCEPT ![p] = Count(@)]
           drops == count[p] <= 0 /\ (p \in F.retired \/ p # current)
           removes == count[p] <= 0 /\ p \in F.retired
           wipes == svc.closed /\ \A q \in Paths : count[q] <= 0
<1>1. count \in [Paths -> Nat]
  BY DEF Ledgers, Count
<1>2. Released(F, p, current) =
        [leases  |-> count,
         retired |-> IF removes THEN F.retired \ {p} ELSE F.retired,
         pins    |-> IF drops THEN F.pins \ {p} ELSE F.pins,
         markers |-> IF drops /\ p \in F.pins THEN F.markers \ {p} ELSE F.markers,
         disk    |-> IF wipes THEN {} ELSE IF removes THEN F.disk \ {p} ELSE F.disk]
  BY DEF Released
<1> HIDE DEF count, drops, removes, wipes
<1> QED BY <1>1, <1>2 DEF Ledgers

LEMMA RetiredTypes ==
    ASSUME NEW F \in Ledgers, NEW p \in {NoPath} \cup Paths, NEW current
    PROVE  Retired(F, p, current) \in Ledgers
<1> DEFINE G == [F EXCEPT !.retired = @ \cup {p}]
<1>1. CASE p = NoPath
  BY <1>1 DEF Retired
<1>2. CASE p # NoPath
  <2>1. p \in Paths
    BY <1>2
  <2>2. G \in Ledgers
    BY <2>1 DEF Ledgers
  <2>3. Retired(F, p, current) = IF G.leases[p] = 0 THEN Released(G, p, current) ELSE G
    BY <1>2 DEF Retired
  <2> HIDE DEF G
  <2> QED BY <2>1, <2>2, <2>3, ReleasedTypes
<1> QED BY <1>1, <1>2

-----------------------------------------------------------------------------
(* Requests, failures and _advance().                                      *)

LEMMA AskedTypes ==
    ASSUME FilesInv, NEW j \in Jobs, Proven(j)
    PROVE  /\ MetadataAsked(j) \in Jobs /\ Proven(MetadataAsked(j))
           /\ TimerArmed(j) \in Jobs /\ Proven(TimerArmed(j))
<1>1. remote \in 0..MaxVersion
  BY BoundsAssumption DEF FilesInv, TypeOK, Versions
<1>2. MetadataAsked(j) \in Jobs /\ Proven(MetadataAsked(j))
  BY <1>1 DEF MetadataAsked, Jobs, Proven
<1> DEFINE k == [j EXCEPT !.timer = TRUE]
<1>3. k \in Jobs
  BY DEF Jobs
<1>4. Proven(k)
  BY DEF Jobs, Proven
<1>5. TimerArmed(j) \in {j, k}
  BY DEF TimerArmed
<1> HIDE DEF k
<1> QED BY <1>2, <1>3, <1>4, <1>5

LEMMA FailedTypes ==
    ASSUME NEW j \in Jobs, Proven(j), NEW transient \in BOOLEAN
    PROVE  Failed(j, transient) \in Jobs /\ Proven(Failed(j, transient))
<1> DEFINE n == IF j.attempts < 3 THEN j.attempts + 1 ELSE j.attempts
           auto == transient /\ j.attempts < 2
           retry == j.retry \/ (auto /\ j.want /\ ~svc.closed)
<1>1. n \in 0..3 /\ auto \in BOOLEAN /\ retry \in BOOLEAN
  BY DEF Jobs
<1>2. Failed(j, transient) = [j EXCEPT !.error = TRUE, !.attempts = n, !.wait = TRUE,
                                       !.auto = auto, !.retry = retry]
  BY DEF Failed
<1> HIDE DEF n, auto, retry
<1>3. Failed(j, transient) \in Jobs
  BY <1>1, <1>2, Zenon DEF Jobs
<1>4. Proven(Failed(j, transient))
  BY <1>2 DEF Jobs, Proven
<1> QED BY <1>3, <1>4

LEMMA UrgedTypes ==
    ASSUME FilesInv, NEW j \in Jobs, Proven(j)
    PROVE  Urged(j) \in Jobs /\ Proven(Urged(j))
<1> DEFINE k == IF j.error /\ j.auto /\ j.want /\ ~j.wait
                THEN [j EXCEPT !.error = FALSE, !.auto = FALSE, !.retry = FALSE] ELSE j
<1>1. k \in Jobs /\ Proven(k)
  <2> DEFINE f == [j EXCEPT !.error = FALSE, !.auto = FALSE, !.retry = FALSE]
  <2>1. f \in Jobs
    BY Zenon DEF Jobs
  <2>2. Proven(f)
    BY DEF Jobs, Proven
  <2> HIDE DEF f
  <2>3. k \in {j, f}
    BY DEF f
  <2> QED BY <2>1, <2>2, <2>3
<1>2. Urged(j) = IF ~k.fetched /\ k.pending = 0 /\ (k.identity = Unknown \/ k.failing)
                 THEN TimerArmed(MetadataAsked(k)) ELSE k
  BY DEF Urged
<1> HIDE DEF k
<1> QED BY <1>1, <1>2, AskedTypes

LEMMA StartedTypes ==
    ASSUME FilesInv, ~svc.closed, NEW j \in Jobs, Proven(j), NEW at \in {"writing", "restoring"}
    PROVE  /\ Started(at, j) \in Operations
           /\ Started(at, j).at = at
           /\ Restorable(j) => Started(at, j).id \in Versions
<1>1. /\ svc.gen \in 0..MaxBind /\ remote \in 0..MaxVersion
      /\ NoOperation \in Operations
  BY BoundsAssumption DEF FilesInv, TypeOK, Services, Within, Versions, NoOperation, Operations,
                          Identities
<1> DEFINE id == IF j.fetched THEN j.identity ELSE Unknown
<1>2. id \in Identities /\ (Restorable(j) => id \in Versions)
  BY DEF Jobs, Identities, Restorable, Proven
<1>3. Started(at, j) = [NoOperation EXCEPT !.at = at, !.gen = svc.gen, !.from = remote, !.id = id]
  BY DEF Started
<1> HIDE DEF id
<1> QED BY <1>1, <1>2, <1>3 DEF Operations

LEMMA AdvanceTypes ==
    ASSUME FilesInv, NEW j \in Jobs, Proven(j), NEW F \in Ledgers, NEW O \in Tables, Named(O),
           Advance(j, F, O)
    PROVE  /\ job' \in Jobs /\ Proven(job)' /\ files' \in Ledgers
           /\ ops' \in Tables /\ Named(ops)' /\ svc' \in Services /\ Within(svc)'
<1> DEFINE k == Urged(j)
           p == svc.next
<1>1. k \in Jobs /\ Proven(k)
  BY UrgedTypes
<1>2. svc \in Services /\ Within(svc)
  BY DEF FilesInv, TypeOK
<1> HIDE DEF k
<1>3. CASE svc' = svc /\ files' = F /\ ops' = O /\ job' \in {j, k, Failed(k, FALSE)}
  <2>1. Failed(k, FALSE) \in Jobs /\ Proven(Failed(k, FALSE))
    BY <1>1, FailedTypes
  <2> QED BY <1>1, <1>2, <1>3, <2>1 DEF Proven, Within, Named
<1>4. CASE /\ ~svc.closed /\ p <= MaxPath
           /\ svc' = [svc EXCEPT !.next = @ + 1]
           /\ files' = [F EXCEPT !.disk = @ \cup {p}]
           /\ IF Restorable(k)
              THEN /\ job' = [k EXCEPT !.restore = p]
                   /\ ops' = [O EXCEPT ![p] = Started("restoring", k)]
              ELSE /\ job' = [k EXCEPT !.download = p]
                   /\ ops' = [O EXCEPT ![p] = Started("writing", k)]
  <2>1. p \in Paths /\ p + 1 \in 1..(MaxPath + 1)
    BY <1>2, <1>4, BoundsAssumption DEF Services, Paths
  <2>2. svc' \in Services /\ Within(svc)'
    BY <1>2, <1>4, <2>1 DEF Services, Within
  <2>3. files' \in Ledgers
    BY <1>4, <2>1 DEF Ledgers
  <2>4. job' \in Jobs /\ Proven(job)'
    BY <1>1, <1>4, <2>1 DEF Jobs, Proven
  <2>5. ops' \in Tables /\ Named(ops)'
    <3>1. CASE Restorable(k)
      BY <1>1, <1>4, <2>1, <3>1, StartedTypes DEF Tables, Named
    <3>2. CASE ~Restorable(k)
      BY <1>1, <1>4, <2>1, <3>2, StartedTypes DEF Tables, Named
    <3> QED BY <3>1, <3>2
  <2> QED BY <2>2, <2>3, <2>4, <2>5
<1>5. Advance(j, F, O) <=>
        IF svc.closed \/ ~j.bound
        THEN job' = j /\ files' = F /\ ops' = O /\ UNCHANGED svc
        ELSE IF ~Wants(k)
        THEN job' = k /\ files' = F /\ ops' = O /\ UNCHANGED svc
        ELSE \/ /\ p <= MaxPath
                /\ svc' = [svc EXCEPT !.next = @ + 1]
                /\ files' = [F EXCEPT !.disk = @ \cup {p}]
                /\ IF Restorable(k)
                   THEN /\ job' = [k EXCEPT !.restore = p]
                        /\ ops' = [O EXCEPT ![p] = Started("restoring", k)]
                   ELSE /\ job' = [k EXCEPT !.download = p]
                        /\ ops' = [O EXCEPT ![p] = Started("writing", k)]
             \/ /\ ~Restorable(k)
                /\ job' = Failed(k, FALSE)
                /\ files' = F /\ ops' = O /\ UNCHANGED svc
  BY DEF Advance, k
<1> QED BY <1>3, <1>4, <1>5

-----------------------------------------------------------------------------
(* The steps.                                                              *)

LEMMA Fields ==
    ASSUME FilesInv
    PROVE  /\ svc \in Services /\ Within(svc) /\ job \in Jobs /\ Proven(job)
           /\ files \in Ledgers /\ ops \in Tables /\ Named(ops)
           /\ cache \in [Versions -> 0..MaxVersion] /\ remote \in Versions
           /\ users \in [Paths -> Nat]
           /\ job.path \in {NoPath} \cup Paths /\ job.download \in {NoPath} \cup Paths
           /\ NoPath \notin Paths
BY DEF FilesInv, TypeOK, Tables, Jobs, NoPath, Paths

LEMMA NewJobTypes ==
    ASSUME NEW isJob \in BOOLEAN PROVE NewJob(isJob) \in Jobs /\ Proven(NewJob(isJob))
<1>1. NewJob(isJob) \in Jobs
  BY BoundsAssumption DEF NewJob, Jobs, Identities
<1>2. Proven(NewJob(isJob))
  BY DEF NewJob, Proven
<1> QED BY <1>1, <1>2

LEMMA PutTypes == ASSUME FilesInv PROVE Put(files) \in Ledgers
<1> DEFINE F == Retired(files, job.download, job.path)
<1>1. F \in Ledgers
  BY Fields, RetiredTypes
<1> HIDE DEF F
<1>2. Put(files) = Retired(F, job.path, job.path)
  BY DEF Put, F
<1> QED BY <1>1, <1>2, Fields, RetiredTypes

\* _advance() and nothing else.
LEMMA AdvanceKeeps ==
    ASSUME FilesInv, NEW j \in Jobs, Proven(j), NEW F \in Ledgers, NEW O \in Tables, Named(O),
           Advance(j, F, O), UNCHANGED <<cache, remote, users>>
    PROVE  FilesInv'
BY AdvanceTypes, Fields DEF FilesInv, TypeOK, Tables

\* request_file() wants the file, and with a retry forgets the last error.
Wanted(j) == [j EXCEPT !.want = TRUE]
Anew(j)   == [j EXCEPT !.want = TRUE, !.error = FALSE, !.attempts = 0,
                       !.wait = FALSE, !.auto = FALSE, !.retry = FALSE]

LEMMA WantedTypes == ASSUME NEW j \in Jobs PROVE Wanted(j) \in Jobs
BY ZenonT(30) DEF Wanted, Jobs

LEMMA AnewTypes == ASSUME NEW j \in Jobs PROVE Anew(j) \in Jobs
<1>1. 0 \in 0..3
  OBVIOUS
<1> QED BY <1>1, ZenonT(60) DEF Anew, Jobs

LEMMA OwnerKeeps ==
    ASSUME FilesInv, Bind \/ RequestFile \/ RequestMetadata \/ Close
    PROVE  FilesInv'
<1>1. CASE Bind
  <2>1. PICK isJob \in BOOLEAN : job' = NewJob(isJob)
    BY <1>1 DEF Bind
  <2>2. job' \in Jobs /\ Proven(job)'
    BY <2>1, NewJobTypes DEF Proven
  <2>3. svc' \in Services /\ Within(svc)'
    BY <1>1, Fields, BoundsAssumption DEF Bind, Services, Within
  <2>4. files' \in Ledgers
    BY <1>1, PutTypes DEF Bind
  <2> QED BY <1>1, <2>2, <2>3, <2>4, Fields DEF Bind, FilesInv, TypeOK, Tables, Named
<1>2. CASE RequestFile
  <2> DEFINE a == Anew(job)
             b == Wanted(job)
  <2>1. a \in Jobs /\ b \in Jobs
    BY Fields, WantedTypes, AnewTypes
  <2>2. Proven(a) /\ Proven(b)
    BY Fields DEF Jobs, Proven, Wanted, Anew
  <2>3. Advance(a, files, ops) \/ Advance(b, files, ops)
    BY <1>2, Zenon DEF RequestFile, Wanted, Anew
  <2> HIDE DEF a, b
  <2> QED BY <1>2, <2>1, <2>2, <2>3, Fields, AdvanceKeeps DEF RequestFile
<1>3. CASE RequestMetadata
  BY <1>3, Fields, AskedTypes DEF RequestMetadata, FilesInv, TypeOK, Proven, Within, Named
<1>4. CASE Close
  <2>1. job' \in Jobs /\ Proven(job)'
    BY <1>4, NewJobTypes DEF Close, Proven
  <2> DEFINE g == svc.gen + 1
  <2>2. svc' \in Services /\ Within(svc)'
    <3>1. ~svc.closed /\ svc \in Services /\ svc.gen <= MaxBind
      BY <1>4, Fields DEF Close, Within
    <3>2. g \in 0..(MaxBind + 1)
      BY <3>1, BoundsAssumption DEF Services
    <3>3. svc' = [svc EXCEPT !.closed = TRUE, !.gen = g]
      BY <1>4 DEF Close
    <3> HIDE DEF g
    <3>4. svc' \in Services /\ svc'.closed
      BY <3>1, <3>2, <3>3 DEF Services
    <3> QED BY <3>4 DEF Within
  <2>3. files' \in Ledgers
    BY <1>4, PutTypes, WithoutTypes DEF Close
  <2> QED BY <1>4, <2>1, <2>2, <2>3, Fields DEF Close, FilesInv, TypeOK, Tables, Named
<1> QED BY <1>1, <1>2, <1>3, <1>4

LEMMA LeasesKeep ==
    ASSUME FilesInv, Lease \/ \E p \in Paths : CloseLease(p)
    PROVE  FilesInv'
<1>1. CASE Lease
  <2>1. job.path \in Paths
    BY <1>1, Fields DEF Lease
  <2>2. files' \in Ledgers /\ users' \in [Paths -> Nat]
    BY <1>1, <2>1, Fields, LeaseTypes DEF Lease
  <2> QED BY <1>1, <2>2, Fields DEF Lease, FilesInv, TypeOK, Proven, Within, Named
<1>2. ASSUME NEW p \in Paths, CloseLease(p) PROVE FilesInv'
  <2>1. files' \in Ledgers
    BY <1>2, Fields, ReleasedTypes DEF CloseLease
  <2>2. users' \in [Paths -> Nat]
    BY <1>2, Fields DEF CloseLease
  <2> QED BY <1>2, <2>1, <2>2, Fields DEF CloseLease, FilesInv, TypeOK, Proven, Within, Named
<1> QED BY <1>1, <1>2

Nowhere(j) == [j EXCEPT !.path = NoPath, !.pathId = Unknown]

\* What an answer about the metadata does not change.
Heard(j, k) ==
    /\ k.pending = 0
    /\ k.bound = j.bound /\ k.want = j.want
    /\ k.error = j.error /\ k.auto = j.auto /\ k.attempts = j.attempts /\ k.wait = j.wait
    /\ k.retry = j.retry
    /\ k.path = j.path /\ k.pathId = j.pathId /\ k.published = j.published
    /\ k.download = j.download /\ k.restore = j.restore

LEMMA ReplyEffect ==
    ASSUME FilesInv, MetadataReply
    PROVE  \E j \in Jobs :
              /\ Proven(j) /\ Heard(job, j)
              /\ \/ /\ j.failing /\ j.backoff /\ j.fetched = job.fetched
                    /\ j.identity = (IF job.identity = Unknown THEN Listed ELSE job.identity)
                    /\ Advance(j, files, ops)
                 \/ /\ j.fetched /\ ~j.failing /\ j.identity # Unknown
                    /\ Nowhere(j) \in Jobs /\ Proven(Nowhere(j))
                    /\ IF Disowned(j)
                       THEN Advance(Nowhere(j), Retired(files, j.path, j.path), ops)
                       ELSE Advance(j, files, ops)
<1> DEFINE heard == [job EXCEPT !.pending = 0]
           lost  == [heard EXCEPT !.failing = TRUE, !.backoff = TRUE,
                                  !.identity = IF @ = Unknown THEN Listed ELSE @]
           Known(id, proven) == [heard EXCEPT !.fetched = TRUE, !.failing = FALSE,
                                              !.backoff = FALSE, !.identity = id,
                                              !.verified = proven /\ id # Listed]
<1>1. heard \in Jobs /\ Proven(heard) /\ Heard(job, heard) /\ heard.identity = job.identity
                     /\ heard.fetched = job.fetched
  <2>1. 0 \in 0..MaxVersion /\ job \in Jobs /\ Proven(job)
    BY Fields, BoundsAssumption
  <2>2. heard \in Jobs
    BY <2>1, Zenon DEF Jobs
  <2> QED BY <2>1, <2>2 DEF Jobs, Proven, Heard
<1>2. /\ job.pending # 0
      /\ \/ Advance(lost, files, ops)
         \/ \E id \in {Listed} \cup (job.pending..remote), proven \in BOOLEAN :
               LET j == Known(id, proven)
               IN  IF Disowned(j) THEN Advance(Nowhere(j), Retired(files, j.path, j.path), ops)
                   ELSE Advance(j, files, ops)
  BY DEF MetadataReply, Nowhere
<1> HIDE DEF heard
<1>3. /\ lost \in Jobs /\ Proven(lost) /\ Heard(job, lost) /\ lost.failing /\ lost.backoff
      /\ lost.fetched = job.fetched
      /\ lost.identity = (IF job.identity = Unknown THEN Listed ELSE job.identity)
  <2> DEFINE id == IF heard.identity = Unknown THEN Listed ELSE heard.identity
             l == [heard EXCEPT !.failing = TRUE, !.backoff = TRUE, !.identity = id]
  <2>1. id \in Identities
    BY <1>1 DEF Jobs, Identities
  <2> HIDE DEF id
  <2>2. l \in Jobs
    BY <1>1, <2>1, Zenon DEF Jobs
  <2>3. /\ Proven(l) /\ Heard(job, l) /\ l.failing /\ l.backoff /\ l.fetched = job.fetched
        /\ l.identity = id
    BY <1>1 DEF Jobs, Proven, Heard
  <2> QED BY <1>1, <2>2, <2>3 DEF id
<1>4. ASSUME NEW id \in {Listed} \cup (job.pending..remote), NEW proven \in BOOLEAN
      PROVE  /\ Known(id, proven) \in Jobs /\ Proven(Known(id, proven))
             /\ Nowhere(Known(id, proven)) \in Jobs /\ Proven(Nowhere(Known(id, proven)))
             /\ Heard(job, Known(id, proven))
             /\ Known(id, proven).fetched /\ ~Known(id, proven).failing
             /\ Known(id, proven).identity # Unknown
  <2>1. id \in Identities /\ id # Unknown
    <3>1. job \in Jobs
      BY Fields
    <3>2. job.pending \in 0..MaxVersion
      BY <3>1 DEF Jobs
    <3>3. job.pending # 0 /\ remote \in 1..MaxVersion
      BY <1>2, Fields DEF Versions
    <3>4. id = Listed \/ id \in 1..MaxVersion
      BY <3>2, <3>3, BoundsAssumption
    <3> QED BY <3>4 DEF Identities, Versions, Unknown, Listed
  <2> DEFINE v == proven /\ id # Listed
             k == [heard EXCEPT !.fetched = TRUE, !.failing = FALSE, !.backoff = FALSE,
                                !.identity = id, !.verified = v]
  <2>2. k = Known(id, proven) /\ v \in BOOLEAN
    OBVIOUS
  <2> HIDE DEF v
  <2>3. k \in Jobs
    BY <1>1, <2>1, <2>2, Zenon DEF Jobs
  <2>4. k.fetched /\ ~k.failing /\ k.identity = id /\ Heard(job, k)
    BY <1>1 DEF Jobs, Heard
  <2> HIDE DEF k, Known
  <2>5. Nowhere(k) \in Jobs
    <3>1. Unknown \in Identities
      BY DEF Identities
    <3> QED BY <2>3, <3>1, Zenon DEF Jobs, Nowhere
  <2>6. Nowhere(k).fetched
    BY <2>3, <2>4 DEF Jobs, Nowhere
  <2> QED BY <2>1, <2>2, <2>3, <2>4, <2>5, <2>6 DEF Proven
<1> HIDE DEF lost, Known
<1> QED BY <1>2, <1>3, <1>4, Zenon

LEMMA ReplyKeeps ==
    ASSUME FilesInv, MetadataReply
    PROVE  FilesInv'
<1>1. PICK j \in Jobs :
         /\ Proven(j) /\ Heard(job, j)
         /\ \/ Advance(j, files, ops)
            \/ /\ Nowhere(j) \in Jobs /\ Proven(Nowhere(j))
               /\ Advance(Nowhere(j), Retired(files, j.path, j.path), ops)
  BY ReplyEffect
<1>2. UNCHANGED <<cache, remote, users>>
  BY DEF MetadataReply
<1>3. Retired(files, j.path, j.path) \in Ledgers
  BY <1>1, Fields, RetiredTypes DEF Heard
<1> QED BY <1>1, <1>2, <1>3, Fields, AdvanceKeeps

LEMMA TimersKeep ==
    ASSUME FilesInv, TimePasses \/ MetadataTimer \/ RetryTimer
    PROVE  FilesInv'
<1>1. CASE TimePasses
  <2>1. job' \in Jobs
    BY <1>1, Fields, Zenon DEF TimePasses, Jobs
  <2>2. Proven(job)'
    BY <1>1, Fields DEF TimePasses, Jobs, Proven
  <2> QED BY <1>1, <2>1, <2>2, Fields DEF TimePasses, FilesInv, TypeOK, Within, Named
<1>2. CASE MetadataTimer
  <2> DEFINE j == [job EXCEPT !.timer = FALSE]
  <2>1. j \in Jobs
    BY Fields, Zenon DEF Jobs
  <2>2. Proven(j)
    BY Fields DEF Jobs, Proven
  <2>3. job' = TimerArmed(MetadataAsked(j)) \/ job' = j
    BY <1>2 DEF MetadataTimer
  <2> HIDE DEF j
  <2>4. job' \in Jobs /\ Proven(job')
    BY <2>1, <2>2, <2>3, AskedTypes
  <2> QED BY <1>2, <2>4, Fields DEF MetadataTimer, FilesInv, TypeOK, Within, Named, Proven
<1>3. CASE RetryTimer
  <2> DEFINE j == [job EXCEPT !.retry = FALSE]
  <2>1. j \in Jobs
    BY Fields, Zenon DEF Jobs
  <2>2. Proven(j)
    BY Fields DEF Jobs, Proven
  <2>3. Advance(job, files, ops) \/ Advance(j, files, ops)
    BY <1>3, Zenon DEF RetryTimer
  <2> HIDE DEF j
  <2> QED BY <1>3, <2>1, <2>2, <2>3, Fields, AdvanceKeeps DEF RetryTimer
<1> QED BY <1>1, <1>2, <1>3

LEMMA DrainKeeps ==
    ASSUME FilesInv, DrainFails
    PROVE  FilesInv'
<1> DEFINE j == [job EXCEPT !.download = NoPath]
<1>1. j \in Jobs /\ Proven(j)
  <2>1. j \in Jobs
    BY Fields, Zenon DEF Jobs
  <2> QED BY <2>1, Fields DEF Jobs, Proven
<1> HIDE DEF j
<1>2. job' = Failed(j, FALSE) /\ files' \in Ledgers /\ UNCHANGED <<svc, ops, cache, remote, users>>
  BY Fields, RetiredTypes DEF DrainFails, j
<1>3. job' \in Jobs /\ Proven(job')
  BY <1>1, <1>2, FailedTypes
<1> QED BY <1>2, <1>3, Fields DEF FilesInv, TypeOK, Within, Named, Proven

-----------------------------------------------------------------------------
(* The threads.                                                            *)

\* An operation that is not restoring needs no name.
LEMMA OperationTypes ==
    ASSUME NEW O \in Tables, Named(O), NEW p \in Paths,
           NEW at \in {"none", "hit", "miss", "restored", "unrestored"}
    PROVE  /\ [O EXCEPT ![p].at = at] \in Tables /\ Named([O EXCEPT ![p].at = at])
           /\ \A data \in 0..MaxVersion :
                 /\ [O EXCEPT ![p].at = at, ![p].data = data] \in Tables
                 /\ Named([O EXCEPT ![p].at = at, ![p].data = data])
BY DEF Tables, Operations, Named

LEMMA PublicationTypes ==
    ASSUME NEW O \in Tables, Named(O), NEW p \in Paths,
           NEW publish \in {"no", "linking", "pinned", "failed"}
    PROVE  /\ [O EXCEPT ![p].publish = publish] \in Tables
           /\ Named([O EXCEPT ![p].publish = publish])
BY DEF Tables, Operations, Named

LEMMA CleanedTypes ==
    ASSUME FilesInv, NEW p \in Paths PROVE Cleaned(p) \in Ledgers
BY Fields, LeaseTypes, WithoutTypes DEF Cleaned

\* The threads' steps leave the service alone.
LEMMA ThreadKeeps ==
    ASSUME FilesInv, job' \in Jobs, Proven(job'), files' \in Ledgers, ops' \in Tables, Named(ops'),
           cache' \in [Versions -> 0..MaxVersion], UNCHANGED <<svc, remote, users>>
    PROVE  FilesInv'
BY Fields DEF FilesInv, TypeOK, Within, Named, Proven, Tables

LEMMA PublishedTypes ==
    ASSUME FilesInv, NEW j \in Jobs, Proven(j), j.path \in Paths, NEW F \in Ledgers,
           NEW O \in Tables, Named(O)
    PROVE  LET R == Published(j, F, O)
           IN  /\ R.j \in Jobs /\ Proven(R.j) /\ R.F \in Ledgers
               /\ R.O \in Tables /\ Named(R.O)
<1> DEFINE k == [j EXCEPT !.published = j.path]
           P == [O EXCEPT ![j.path].publish = "linking"]
           R == Published(j, F, O)
<1>1. k \in Jobs
  BY DEF Jobs
<1>2. Proven(k)
  BY DEF Jobs, Proven
<1>3. P \in Tables /\ Named(P)
  BY DEF Tables, Operations, Named
<1>4. Leased(F, j.path) \in Ledgers
  BY LeaseTypes
<1> HIDE DEF k, P
<1>5. R = [j |-> k, F |-> Leased(F, j.path), O |-> P] \/ R = [j |-> j, F |-> F, O |-> O]
  BY DEF Published, k, P
<1> HIDE DEF R
<1> QED BY <1>1, <1>2, <1>3, <1>4, <1>5 DEF R

LEMMA WriterKeeps ==
    ASSUME FilesInv, NEW p \in Paths, WriterDone(p)
    PROVE  FilesInv'
<1> DEFINE j == [job EXCEPT !.download = NoPath]
           none == [ops EXCEPT ![p].at = "none"]
           O(v) == [ops EXCEPT ![p].at = "none", ![p].data = v]
           k == [j EXCEPT !.path = p, !.pathId = ops[p].id, !.attempts = 0,
                          !.wait = FALSE, !.auto = FALSE, !.retry = FALSE]
           R(v) == IF ops[p].id = Unknown THEN [j |-> k, F |-> files, O |-> O(v)]
                   ELSE Published(k, files, O(v))
           Gone(transient) == job' = Failed(j, transient) /\ files' = Retired(files, p, job.path)
<1>1. j \in Jobs /\ Proven(j)
  <2>1. j \in Jobs
    BY Fields, Zenon DEF Jobs
  <2> QED BY <2>1, Fields DEF Jobs, Proven
<1>2. k \in Jobs /\ Proven(k) /\ k.path = p
  <2>1. ops[p].id \in Identities /\ 0 \in 0..3
    BY Fields DEF Tables, Operations
  <2> HIDE DEF j
  <2>2. k \in Jobs
    BY <1>1, <2>1, Zenon DEF Jobs
  <2> QED BY <1>1, <2>2 DEF Jobs, Proven
<1>3. none \in Tables /\ Named(none)
  BY Fields, OperationTypes
<1>4. ASSUME NEW v \in ops[p].from..remote PROVE O(v) \in Tables /\ Named(O(v))
  <2>1. ops[p].from \in 0..MaxVersion /\ remote \in 1..MaxVersion
    BY Fields DEF Tables, Operations, Versions
  <2>2. v \in 0..MaxVersion
    BY <2>1, BoundsAssumption
  <2> QED BY <2>2, Fields, OperationTypes
<1>5. /\ UNCHANGED <<svc, cache, remote, users>>
      /\ \/ ops' = none /\ UNCHANGED <<job, files>>
         \/ ops' = none /\ \E transient \in BOOLEAN : Gone(transient)
         \/ \E v \in ops[p].from..remote :
               IF Accepted(ops[p], v) THEN job' = R(v).j /\ files' = R(v).F /\ ops' = R(v).O
               ELSE Gone(FALSE) /\ ops' = O(v)
  BY Zenon DEF WriterDone
<1> HIDE DEF j, k, none, O
<1>6. ASSUME NEW transient \in BOOLEAN, Gone(transient)
      PROVE  job' \in Jobs /\ Proven(job') /\ files' \in Ledgers
  <2>1. Retired(files, p, job.path) \in Ledgers
    BY Fields, RetiredTypes
  <2> QED BY <1>1, <1>6, <2>1, FailedTypes
<1>7. ASSUME NEW v \in ops[p].from..remote
      PROVE  /\ R(v).j \in Jobs /\ Proven(R(v).j) /\ R(v).F \in Ledgers
             /\ R(v).O \in Tables /\ Named(R(v).O)
  <2>1. CASE ops[p].id = Unknown
    <3>1. R(v) = [j |-> k, F |-> files, O |-> O(v)]
      BY <2>1
    <3> HIDE DEF R
    <3> QED BY <1>2, <1>4, <3>1, Fields
  <2>2. CASE ops[p].id # Unknown
    BY <1>2, <1>4, <2>2, Fields, PublishedTypes
  <2> QED BY <2>1, <2>2
<1> HIDE DEF R, Gone
<1>8. CASE ops' = none /\ UNCHANGED <<job, files>>
  BY <1>3, <1>5, <1>8, Fields, ThreadKeeps DEF Proven
<1>9. CASE ops' = none /\ \E transient \in BOOLEAN : Gone(transient)
  BY <1>3, <1>5, <1>6, <1>9, Fields, ThreadKeeps
<1>10. ASSUME NEW v \in ops[p].from..remote,
              IF Accepted(ops[p], v) THEN job' = R(v).j /\ files' = R(v).F /\ ops' = R(v).O
              ELSE Gone(FALSE) /\ ops' = O(v)
       PROVE  FilesInv'
  <2>1. CASE Accepted(ops[p], v)
    BY <1>5, <1>7, <1>10, <2>1, Fields, ThreadKeeps
  <2>2. CASE ~Accepted(ops[p], v)
    BY <1>4, <1>5, <1>6, <1>10, <2>2, Fields, ThreadKeeps
  <2> QED BY <2>1, <2>2
<1> QED BY <1>5, <1>8, <1>9, <1>10

LEMMA RestoreKeeps ==
    ASSUME FilesInv, NEW p \in Paths, RestoreRuns(p) \/ RestoreReports(p) \/ RestoreDone(p)
    PROVE  FilesInv'
<1>1. CASE RestoreRuns(p)
  <2>1. [files EXCEPT !.markers = @ \cup {p}] \in Ledgers
    BY Fields DEF Ledgers
  <2>2. cache[ops[p].id] \in 0..MaxVersion
    BY <1>1, Fields DEF RestoreRuns, Named
  <2>3. /\ ops' \in {[ops EXCEPT ![p].at = "miss"],
                     [ops EXCEPT ![p].at = "hit", ![p].data = cache[ops[p].id]]}
        /\ files' \in {files, [files EXCEPT !.markers = @ \cup {p}]}
        /\ UNCHANGED <<svc, job, cache, remote, users>>
    BY <1>1, Zenon DEF RestoreRuns
  <2>4. ops' \in Tables /\ Named(ops')
    <3>1. CASE ops' = [ops EXCEPT ![p].at = "miss"]
      BY <3>1, Fields, OperationTypes
    <3>2. CASE ops' = [ops EXCEPT ![p].at = "hit", ![p].data = cache[ops[p].id]]
      BY <2>2, <3>2, Fields, OperationTypes
    <3> QED BY <2>3, <3>1, <3>2
  <2> QED BY <2>1, <2>3, <2>4, Fields, ThreadKeeps DEF Proven
<1>2. CASE RestoreReports(p)
  <2>1. /\ \/ ops' = [ops EXCEPT ![p].at = "none", ![p].data = 0]
           \/ ops' = [ops EXCEPT ![p].at = "restored"]
           \/ ops' = [ops EXCEPT ![p].at = "unrestored"]
        /\ files' \in {files, Cleaned(p)}
        /\ UNCHANGED <<svc, job, cache, remote, users>>
    BY <1>2, Fields DEF RestoreReports, Tables, Operations
  <2>2. ops' \in Tables /\ Named(ops')
    <3>1. 0 \in 0..MaxVersion
      BY BoundsAssumption
    <3>2. CASE ops' = [ops EXCEPT ![p].at = "none", ![p].data = 0]
      BY <3>1, <3>2, Fields, OperationTypes
    <3>3. CASE ops' = [ops EXCEPT ![p].at = "restored"]
      BY <3>3, Fields, OperationTypes
    <3>4. CASE ops' = [ops EXCEPT ![p].at = "unrestored"]
      BY <3>4, Fields, OperationTypes
    <3> QED BY <2>1, <3>2, <3>3, <3>4
  <2> QED BY <2>1, <2>2, Fields, CleanedTypes, ThreadKeeps DEF Proven
<1>3. CASE RestoreDone(p)
  <2> DEFINE O == [ops EXCEPT ![p].at = "none"]
             j == [job EXCEPT !.restore = NoPath]
             k == [j EXCEPT !.path = p, !.pathId = j.identity, !.published = p]
             m == [j EXCEPT !.missed = TRUE]
             pinned == [files EXCEPT !.pins = @ \cup {p}]
  <2>1. /\ UNCHANGED <<cache, remote, users>>
        /\ \/ ops' = O /\ files' = Cleaned(p) /\ UNCHANGED <<svc, job>>
           \/ job' = k /\ files' = pinned /\ ops' = O /\ UNCHANGED svc
           \/ Advance(m, Without(files, {p}), O)
    BY <1>3, Zenon DEF RestoreDone
  <2>2. O \in Tables /\ Named(O)
    BY Fields, OperationTypes
  <2>3. j \in Jobs /\ Proven(j)
    <3>1. j \in Jobs
      BY Fields, Zenon DEF Jobs
    <3> QED BY <3>1, Fields DEF Jobs, Proven
  <2>4. pinned \in Ledgers
    BY Fields DEF Ledgers
  <2> HIDE DEF O, j, pinned
  <2>5. k \in Jobs /\ Proven(k) /\ m \in Jobs /\ Proven(m)
    <3>1. j.identity \in Identities
      BY <2>3 DEF Jobs
    <3>2. k \in Jobs /\ m \in Jobs
      BY <2>3, <3>1, Zenon DEF Jobs
    <3> QED BY <2>3, <3>2 DEF Jobs, Proven
  <2> HIDE DEF k, m
  <2>6. CASE ops' = O /\ files' = Cleaned(p) /\ UNCHANGED <<svc, job>>
    BY <2>1, <2>2, <2>6, Fields, CleanedTypes, ThreadKeeps DEF Proven
  <2>7. CASE job' = k /\ files' = pinned /\ ops' = O /\ UNCHANGED svc
    BY <2>1, <2>2, <2>4, <2>5, <2>7, Fields, ThreadKeeps
  <2>8. CASE Advance(m, Without(files, {p}), O)
    BY <2>1, <2>2, <2>5, <2>8, Fields, WithoutTypes, AdvanceKeeps
  <2> QED BY <2>1, <2>6, <2>7, <2>8
<1> QED BY <1>1, <1>2, <1>3

LEMMA PublisherKeeps ==
    ASSUME FilesInv, NEW p \in Paths, PublishRuns(p) \/ CacheWritten(p)
    PROVE  FilesInv'
<1>1. CASE PublishRuns(p)
  <2>1. ops[p].data \in 0..MaxVersion
    BY Fields DEF Tables, Operations
  <2>2. /\ cache' \in {cache, [cache EXCEPT ![ops[p].id] = ops[p].data]}
        /\ files' \in {files, [files EXCEPT !.markers = @ \cup {p}]}
        /\ \/ ops' = [ops EXCEPT ![p].publish = "pinned"]
           \/ ops' = [ops EXCEPT ![p].publish = "failed"]
        /\ UNCHANGED <<svc, job, remote, users>>
    BY <1>1, Zenon DEF PublishRuns
  <2>3. cache' \in [Versions -> 0..MaxVersion]
    BY <2>1, <2>2, Fields
  <2>4. files' \in Ledgers
    BY <2>2, Fields DEF Ledgers
  <2>5. ops' \in Tables /\ Named(ops')
    <3>1. ASSUME NEW publish \in {"no", "linking", "pinned", "failed"},
                 ops' = [ops EXCEPT ![p].publish = publish]
          PROVE  ops' \in Tables /\ Named(ops')
      BY <3>1, Fields, PublicationTypes
    <3> QED BY <2>2, <3>1
  <2> QED BY <2>2, <2>3, <2>4, <2>5, Fields, ThreadKeeps DEF Proven
<1>2. CASE CacheWritten(p)
  <2> DEFINE pinned == [files EXCEPT !.pins = @ \cup {p}]
             F == IF ops[p].publish = "failed" THEN files
                  ELSE IF p = job.path \/ files.leases[p] > 1 THEN pinned
                  ELSE Unpinned(files, p)
  <2>1. pinned \in Ledgers /\ Unpinned(files, p) \in Ledgers
    BY Fields, LeaseTypes DEF Ledgers
  <2>2. F \in Ledgers
    BY <2>1, Fields
  <2>3. /\ files' = Released(F, p, job.path)
        /\ ops' = [ops EXCEPT ![p].publish = "no"]
        /\ UNCHANGED <<svc, job, cache, remote, users>>
    BY <1>2, Zenon DEF CacheWritten
  <2> HIDE DEF F
  <2>4. files' \in Ledgers
    BY <2>2, <2>3, ReleasedTypes
  <2> DEFINE O == [ops EXCEPT ![p].publish = "no"]
  <2>5. O \in Tables /\ Named(O)
    BY Fields, PublicationTypes
  <2>6. ops' = O
    BY <2>3
  <2> HIDE DEF O
  <2> QED BY <2>3, <2>4, <2>5, <2>6, Fields, ThreadKeeps DEF Proven
<1> QED BY <1>1, <1>2

LEMMA OutsideKeeps ==
    ASSUME FilesInv, Overwrite \/ Evict
    PROVE  FilesInv'
<1>1. CASE Overwrite
  <2>1. remote' \in Versions
    BY <1>1, Fields, BoundsAssumption DEF Overwrite, Versions
  <2> QED BY <1>1, <2>1, Fields DEF Overwrite, FilesInv, TypeOK, Proven, Within, Named
<1>2. CASE Evict
  <2>1. cache' \in [Versions -> 0..MaxVersion]
    BY <1>2, Fields, BoundsAssumption DEF Evict
  <2> QED BY <1>2, <2>1, Fields, ThreadKeeps DEF Evict, Proven
<1> QED BY <1>1, <1>2

-----------------------------------------------------------------------------
(* The theorem.                                                            *)

LEMMA StartsTyped == Init => FilesInv
<1> SUFFICES ASSUME Init PROVE FilesInv
  OBVIOUS
<1>1. job \in Jobs /\ Proven(job)
  BY NewJobTypes DEF Init
<1>2. svc \in Services /\ Within(svc)
  BY BoundsAssumption DEF Init, Services, Within
<1>3. files \in Ledgers
  BY DEF Init, Ledgers
<1>4. ops \in [Paths -> Operations] /\ Named(ops)
  BY BoundsAssumption DEF Init, Operations, NoOperation, Identities, Named
<1>5. /\ cache \in [Versions -> 0..MaxVersion] /\ remote \in Versions
      /\ users \in [Paths -> Nat]
  BY BoundsAssumption DEF Init, Versions
<1> QED BY <1>1, <1>2, <1>3, <1>4, <1>5 DEF FilesInv, TypeOK

LEMMA StepsKeepTypes == FilesInv /\ [Next]_vars => FilesInv'
<1> SUFFICES ASSUME FilesInv, [Next]_vars PROVE FilesInv'
  OBVIOUS
<1>1. CASE Owner
  BY <1>1, OwnerKeeps DEF Owner
<1>2. CASE Leases
  BY <1>2, LeasesKeep DEF Leases
<1>3. CASE Answers
  BY <1>3, ReplyKeeps, TimersKeep DEF Answers
<1>4. CASE DrainFails
  BY <1>4, DrainKeeps
<1>5. CASE Threads
  BY <1>5, WriterKeeps, RestoreKeeps, PublisherKeeps DEF Threads
<1>6. CASE Outside
  BY <1>6, OutsideKeeps DEF Outside
<1>7. CASE UNCHANGED vars
  BY <1>7 DEF vars, FilesInv, TypeOK, Proven, Within, Named
<1> QED BY <1>1, <1>2, <1>3, <1>4, <1>5, <1>6, <1>7 DEF Next

\* Every field of the service keeps its type, through every handler, thread and
\* retry: above all no path's leases go below zero, whatever the order of the
\* releases (RemoteFileService._release).
THEOREM FilesTypeCorrect == Spec => []TypeOK
<1>1. Init => FilesInv
  BY StartsTyped
<1>2. FilesInv /\ [Next]_vars => FilesInv'
  BY StepsKeepTypes
<1>3. FilesInv => TypeOK
  BY DEF FilesInv
<1> QED BY <1>1, <1>2, <1>3, PTL DEF Spec

-----------------------------------------------------------------------------
(* What keeps a leased file there, and lets go of every other one.  The    *)
(* leases of a path are its users and its publication; a leased path is    *)
(* the current one or retired, and a retired one is leased: so the last    *)
(* release finds what there is to delete.  Everything is said of one path  *)
(* at a time, for a job j, a ledger F, operations O, a service s and       *)
(* users U, so that it can be said in the middle of a handler too.         *)

Roles(j)  == {j.path, j.download, j.restore} \ {NoPath}
Held(o)   == IF o.publish = "no" THEN 0 ELSE 1
Restoring == {"restoring", "hit", "miss", "restored", "unrestored"}

\* A job has one place at a time, and an open service.
Alone(j) ==
    /\ j.path = NoPath \/ (j.download = NoPath /\ j.restore = NoPath)
    /\ j.download = NoPath \/ j.restore = NoPath
    /\ j.bound \/ (j.path = NoPath /\ j.download = NoPath /\ j.restore = NoPath)
Open(s, j) == s.closed => ~j.bound

Kept(p, j, F, O, s, U) ==
    /\ F.leases[p] = U[p] + Held(O[p])
    /\ F.leases[p] > 0 => p \in F.disk /\ O[p].at = "none" /\ (p = j.path \/ p \in F.retired)
    /\ p \in F.retired => F.leases[p] > 0 /\ p # j.path
    /\ p = j.path => p \in F.disk /\ O[p].at = "none"
    /\ p = j.download => p \in F.disk /\ O[p].at = "writing"
    /\ p = j.restore => p \in F.disk /\ O[p].at \in Restoring
    /\ p \in F.disk => p < s.next /\ (p \in Roles(j) \/ F.leases[p] > 0 \/ O[p].at \in Restoring)
    /\ O[p].at # "none" => p < s.next

\* A marker of the shared cache has a pin, or a thread that will see to it.
Pinned(p, j, F, O, U) ==
    /\ O[p].publish \in {"linking", "failed"} => p \notin F.markers
    /\ p \in F.markers => \/ p \in F.pins /\ (p = j.path \/ U[p] > 0)
                          \/ O[p].publish = "pinned"
                          \/ O[p].at \in {"hit", "restored"}

\* What _release() does to path p, and to the others.
LEMMA ReleasedEffect ==
    ASSUME NEW F \in Ledgers, NEW p \in Paths, NEW current
    PROVE  LET R == Released(F, p, current)
               n == R.leases[p]
               drops == n = 0 /\ (p \in F.retired \/ p # current)
           IN  /\ n \in Nat /\ n = Count(F.leases[p])
               /\ \A q \in Paths \ {p} :
                     /\ R.leases[q] = F.leases[q] /\ (q \in R.retired <=> q \in F.retired)
                     /\ (q \in R.pins <=> q \in F.pins) /\ (q \in R.markers <=> q \in F.markers)
               /\ p \in R.retired <=> p \in F.retired /\ n > 0
               /\ p \in R.pins <=> p \in F.pins /\ ~drops
               /\ p \in R.markers <=> p \in F.markers /\ ~(drops /\ p \in F.pins)
               /\ \/ svc.closed /\ R.disk = {} /\ \A q \in Paths : R.leases[q] = 0
                  \/ \A q \in Paths :
                        q \in R.disk <=> q \in F.disk /\ ~(q = p /\ n = 0 /\ p \in F.retired)
<1> DEFINE count == [F.leases EXCEPT ![p] = Count(@)]
           drops == count[p] <= 0 /\ (p \in F.retired \/ p # current)
           removes == count[p] <= 0 /\ p \in F.retired
           wipes == svc.closed /\ \A q \in Paths : count[q] <= 0
           R == Released(F, p, current)
<1>1. /\ count \in [Paths -> Nat] /\ count[p] = Count(F.leases[p])
      /\ \A q \in Paths \ {p} : count[q] = F.leases[q]
  BY DEF Ledgers, Count
<1>2. R = [leases  |-> count,
           retired |-> IF removes THEN F.retired \ {p} ELSE F.retired,
           pins    |-> IF drops THEN F.pins \ {p} ELSE F.pins,
           markers |-> IF drops /\ p \in F.pins THEN F.markers \ {p} ELSE F.markers,
           disk    |-> IF wipes THEN {} ELSE IF removes THEN F.disk \ {p} ELSE F.disk]
  BY DEF Released
<1> HIDE DEF count, R
<1>3. /\ R.leases = count
      /\ R.retired = IF removes THEN F.retired \ {p} ELSE F.retired
      /\ R.pins = IF drops THEN F.pins \ {p} ELSE F.pins
      /\ R.markers = IF drops /\ p \in F.pins THEN F.markers \ {p} ELSE F.markers
      /\ R.disk = IF wipes THEN {} ELSE IF removes THEN F.disk \ {p} ELSE F.disk
  BY <1>2
<1>4. \A q \in Paths : count[q] <= 0 <=> count[q] = 0
  BY <1>1
<1> QED BY <1>1, <1>3, <1>4 DEF R

\* _retire() on an open service: a path that is leased is noted, one that is
\* not goes at once.
LEMMA RetiredEffect ==
    ASSUME NEW F \in Ledgers, NEW p \in Paths, NEW current, ~svc.closed
    PROVE  LET R == Retired(F, p, current)
               leased == F.leases[p] > 0
           IN  /\ \A q \in Paths : R.leases[q] = F.leases[q]
               /\ \A q \in Paths \ {p} :
                     /\ (q \in R.disk <=> q \in F.disk) /\ (q \in R.retired <=> q \in F.retired)
                     /\ (q \in R.pins <=> q \in F.pins) /\ (q \in R.markers <=> q \in F.markers)
               /\ p \in R.retired <=> leased
               /\ p \in R.disk <=> p \in F.disk /\ leased
               /\ p \in R.pins <=> p \in F.pins /\ leased
               /\ p \in R.markers <=> p \in F.markers /\ (leased \/ p \notin F.pins)
<1> DEFINE G == [F EXCEPT !.retired = @ \cup {p}]
           R == Retired(F, p, current)
<1>1. /\ G \in Ledgers /\ G.leases = F.leases /\ G.pins = F.pins /\ G.markers = F.markers
      /\ G.disk = F.disk /\ G.retired = F.retired \cup {p} /\ F.leases \in [Paths -> Nat]
  BY DEF Ledgers
<1>2. p # NoPath
  BY DEF Paths, NoPath
<1>3. R = IF G.leases[p] = 0 THEN Released(G, p, current) ELSE G
  BY <1>2 DEF Retired
<1> HIDE DEF G
<1>4. CASE F.leases[p] > 0
  BY <1>1, <1>3, <1>4
<1>5. CASE ~(F.leases[p] > 0)
  <2>1. G.leases[p] = 0 /\ Count(G.leases[p]) = 0 /\ R = Released(G, p, current)
    BY <1>1, <1>3, <1>5 DEF Count
  <2> HIDE DEF R
  <2>2. \A q \in Paths \ {p} : q \in G.retired <=> q \in F.retired
    BY <1>1
  <2>3. /\ R.leases[p] = 0 /\ \A q \in Paths \ {p} : R.leases[q] = G.leases[q]
        /\ \A q \in Paths \ {p} :
              /\ (q \in R.retired <=> q \in G.retired) /\ (q \in R.pins <=> q \in G.pins)
              /\ (q \in R.markers <=> q \in G.markers)
        /\ p \notin R.retired /\ p \notin R.pins
        /\ p \in R.markers <=> p \in G.markers /\ p \notin G.pins
        /\ \A q \in Paths : q \in R.disk <=> q \in G.disk /\ q # p
    BY <1>1, <2>1, ReleasedEffect
  <2>4. F.leases[p] = 0
    BY <1>1, <1>5
  <2> QED BY <1>1, <2>2, <2>3, <2>4 DEF R
<1> QED BY <1>4, <1>5

\* A path leaves its place, and is retired.
LEMMA RetiredKeeps ==
    ASSUME ~svc.closed, NEW F \in Ledgers, NEW O \in Tables, NEW U \in [Paths -> Nat], NEW s,
           NEW j, NEW k, NEW p \in {NoPath} \cup Paths, NEW current,
           Alone(j), p \in {NoPath, j.path, j.download},
           k.path = IF p = j.path THEN NoPath ELSE j.path,
           k.download = IF p = j.download THEN NoPath ELSE j.download,
           k.restore = j.restore,
           \A q \in Paths : Kept(q, j, F, O, s, U) /\ Pinned(q, j, F, O, U)
    PROVE  \A q \in Paths : /\ Kept(q, k, Retired(F, p, current), O, s, U)
                            /\ Pinned(q, k, Retired(F, p, current), O, U)
<1> SUFFICES ASSUME NEW q \in Paths
             PROVE  /\ Kept(q, k, Retired(F, p, current), O, s, U)
                    /\ Pinned(q, k, Retired(F, p, current), O, U)
  OBVIOUS
<1>0. NoPath \notin Paths
  BY DEF NoPath, Paths
<1>1. Kept(q, j, F, O, s, U) /\ Pinned(q, j, F, O, U)
  OBVIOUS
<1>2. CASE p = NoPath
  BY <1>0, <1>1, <1>2 DEF Retired, Kept, Pinned, Roles
<1>3. CASE p \in Paths
  <2> DEFINE R == Retired(F, p, current)
  <2>1. /\ R.leases[q] = F.leases[q]
        /\ q # p => /\ (q \in R.disk <=> q \in F.disk) /\ (q \in R.retired <=> q \in F.retired)
                    /\ (q \in R.pins <=> q \in F.pins) /\ (q \in R.markers <=> q \in F.markers)
        /\ q = p => /\ q \in R.retired <=> F.leases[q] > 0
                    /\ q \in R.disk <=> q \in F.disk /\ F.leases[q] > 0
                    /\ q \in R.pins <=> q \in F.pins /\ F.leases[q] > 0
                    /\ q \in R.markers <=> q \in F.markers /\ (F.leases[q] > 0 \/ q \notin F.pins)
    BY <1>3, RetiredEffect
  <2> HIDE DEF R
  <2>2. F.leases[q] \in Nat /\ U[q] \in Nat
    BY DEF Ledgers
  <2>3. CASE q # p
    <3>1. /\ q # NoPath /\ (q \in Roles(k) <=> q \in Roles(j)) /\ (q = k.path <=> q = j.path)
          /\ (q = k.download <=> q = j.download) /\ (q = k.restore <=> q = j.restore)
      BY <1>0, <1>3, <2>3 DEF Roles
    <3>2. Kept(q, k, R, O, s, U)
      BY <1>1, <2>1, <2>3, <3>1 DEF Kept
    <3>3. Pinned(q, k, R, O, U)
      BY <1>1, <2>1, <2>3, <3>1 DEF Pinned
    <3> QED BY <3>2, <3>3 DEF R
  <2>4. CASE q = p
    <3>1. Kept(q, k, R, O, s, U)
      BY <1>0, <1>1, <1>3, <2>1, <2>2, <2>4 DEF Kept, Roles, Restoring, Alone
    <3>2. Pinned(q, k, R, O, U)
      <4>1. CASE F.leases[q] > 0
        <5>1. O[q].publish = "no" => U[q] > 0
          BY <1>1, <2>2, <4>1 DEF Kept, Held
        <5>2. O[q].at = "none" /\ O[q].publish \in {"no", "linking", "pinned", "failed"}
          BY <1>1, <4>1 DEF Kept, Tables, Operations
        <5> QED BY <1>1, <2>1, <2>4, <4>1, <5>1, <5>2 DEF Pinned
      <4>2. CASE ~(F.leases[q] > 0)
        <5>1. U[q] = 0 /\ O[q].publish = "no"
          BY <1>1, <2>2, <4>2 DEF Kept, Held
        <5>2. q # j.restore
          BY <1>0, <1>3, <2>4 DEF Alone
        <5>3. O[q].at \notin {"hit", "restored"}
          BY <1>0, <1>1, <1>3, <2>4 DEF Kept
        <5> QED BY <1>1, <2>1, <2>4, <4>2, <5>1, <5>3 DEF Pinned
      <4> QED BY <4>1, <4>2
    <3> QED BY <3>1, <3>2 DEF R
  <2> QED BY <2>3, <2>4 DEF R
<1> QED BY <1>2, <1>3

Stored(j, F, O, s, U) ==
    /\ Alone(j) /\ Open(s, j)
    /\ \A q \in Paths : Kept(q, j, F, O, s, U) /\ Pinned(q, j, F, O, U)

\* A path the step does not touch, unless it wipes the root after close().
LEMMA UntouchedKeeps ==
    ASSUME NEW q, NEW j, NEW F, NEW R, NEW O, NEW s, NEW U, Kept(q, j, F, O, s, U),
           R.leases[q] = F.leases[q], q \in R.retired <=> q \in F.retired,
           \/ q \in R.disk <=> q \in F.disk
           \/ /\ q \notin R.disk /\ R.leases[q] = 0
              /\ q # j.path /\ q # j.download /\ q # j.restore
    PROVE  Kept(q, j, R, O, s, U)
BY DEF Kept

\* A lease of p ends, its user's or its publication's.
LEMMA ReleasedKeeps ==
    ASSUME NEW F \in Ledgers, NEW O \in Tables, NEW U \in [Paths -> Nat], NEW j, NEW p \in Paths,
           Alone(j), Open(svc, j),
           \A q \in Paths \ {p} : Kept(q, j, F, O, svc, U) /\ Pinned(q, j, F, O, U),
           F.leases[p] = U[p] + Held(O[p]) + 1, p \in F.disk, O[p].at = "none", p < svc.next,
           p \in F.retired <=> p # j.path, p # j.download, p # j.restore,
           O[p].publish \in {"linking", "failed"} => p \notin F.markers,
           p \in F.markers => p \in F.pins \/ O[p].publish = "pinned"
    PROVE  Stored(j, Released(F, p, j.path), O, svc, U)
<1> DEFINE R == Released(F, p, j.path)
           n == R.leases[p]
           drops == n = 0 /\ (p \in F.retired \/ p # j.path)
<1>1. /\ U[p] \in Nat /\ Held(O[p]) \in {0, 1} /\ F.leases[p] > 0
      /\ F.leases \in [Paths -> Nat] /\ NoPath \notin Paths
  BY DEF Held, NoPath, Paths, Ledgers
<1>2. n = U[p] + Held(O[p])
  <2>1. n = Count(F.leases[p])
    BY ReleasedEffect
  <2> HIDE DEF n
  <2> QED BY <1>1, <2>1 DEF Count
<1>3. /\ \A q \in Paths \ {p} :
            /\ R.leases[q] = F.leases[q] /\ (q \in R.retired <=> q \in F.retired)
            /\ (q \in R.pins <=> q \in F.pins) /\ (q \in R.markers <=> q \in F.markers)
      /\ p \in R.retired <=> p \in F.retired /\ n > 0
      /\ p \in R.pins <=> p \in F.pins /\ ~drops
      /\ p \in R.markers <=> p \in F.markers /\ ~(drops /\ p \in F.pins)
      /\ \/ svc.closed /\ R.disk = {} /\ \A q \in Paths : R.leases[q] = 0
         \/ \A q \in Paths :
               q \in R.disk <=> q \in F.disk /\ ~(q = p /\ n = 0 /\ p \in F.retired)
  BY ReleasedEffect
<1> HIDE DEF R
<1>4. svc.closed => j.path = NoPath /\ j.download = NoPath /\ j.restore = NoPath
  BY DEF Open, Alone
<1>5. ASSUME NEW q \in Paths \ {p} PROVE Kept(q, j, R, O, svc, U) /\ Pinned(q, j, R, O, U)
  <2>1. Kept(q, j, F, O, svc, U) /\ Pinned(q, j, F, O, U)
    OBVIOUS
  <2>2. Pinned(q, j, R, O, U)
    BY <1>3, <2>1 DEF Pinned
  <2>3. R.leases[q] = F.leases[q] /\ (q \in R.retired <=> q \in F.retired) /\ q # NoPath
    BY <1>1, <1>3
  <2>4. CASE svc.closed /\ R.disk = {} /\ R.leases[q] = 0
    BY <1>4, <2>1, <2>2, <2>3, <2>4, UntouchedKeeps
  <2>5. CASE q \in R.disk <=> q \in F.disk
    BY <2>1, <2>2, <2>3, <2>5, UntouchedKeeps
  <2>6. \/ svc.closed /\ R.disk = {} /\ R.leases[q] = 0
        \/ q \in R.disk <=> q \in F.disk
    BY <1>3
  <2> QED BY <2>2, <2>4, <2>5, <2>6
<1>6. Kept(p, j, R, O, svc, U)
  <2> HIDE DEF n
  <2>1. R.leases[p] = n
    BY DEF n
  <2>2. CASE svc.closed /\ R.disk = {} /\ R.leases[p] = 0
    BY <1>1, <1>2, <1>3, <1>4, <2>1, <2>2 DEF Kept
  <2>3. CASE p \in R.disk <=> p \in F.disk /\ ~(n = 0 /\ p \in F.retired)
    BY <1>1, <1>2, <1>3, <2>1, <2>3 DEF Kept, Roles
  <2> QED BY <1>3, <2>1, <2>2, <2>3
<1>7. Pinned(p, j, R, O, U)
  <2>1. CASE n = 0
    <3>1. U[p] = 0 /\ O[p].publish = "no"
      BY <1>1, <1>2, <2>1 DEF Held
    <3> HIDE DEF n
    <3> QED BY <1>3, <2>1, <3>1 DEF Pinned
  <2>2. CASE n # 0
    <3>1. U[p] > 0 \/ O[p].publish \in {"linking", "pinned", "failed"}
      BY <1>1, <1>2, <2>2 DEF Held, Tables, Operations
    <3> HIDE DEF n
    <3> QED BY <1>3, <2>2, <3>1 DEF Pinned
  <2> QED BY <2>1, <2>2
<1> QED BY <1>5, <1>6, <1>7 DEF Stored, R

\* What of a job _advance() leaves as it was, unless it gets a file.
Like(j, k) ==
    /\ k.bound = j.bound /\ k.want = j.want /\ k.identity = j.identity
    /\ k.fetched = j.fetched /\ k.verified = j.verified
    /\ k.path = j.path /\ k.pathId = j.pathId /\ k.published = j.published
    /\ k.download = j.download /\ k.restore = j.restore

LEMMA StaysLike ==
    ASSUME NEW j \in Jobs
    PROVE  /\ Like(j, MetadataAsked(j)) /\ Like(j, TimerArmed(j))
           /\ \A transient \in BOOLEAN : Like(j, Failed(j, transient))
BY DEF Jobs, Like, MetadataAsked, TimerArmed, Failed

LEMMA UrgedLike ==
    ASSUME FilesInv, NEW j \in Jobs, Proven(j) PROVE Like(j, Urged(j))
<1> DEFINE f == [j EXCEPT !.error = FALSE, !.auto = FALSE, !.retry = FALSE]
           k == IF j.error /\ j.auto /\ j.want /\ ~j.wait THEN f ELSE j
<1>1. f \in Jobs /\ Like(j, f) /\ Proven(f)
  <2>1. f \in Jobs
    BY Zenon DEF Jobs
  <2> QED BY <2>1 DEF Jobs, Like, Proven
<1>2. k \in Jobs /\ Like(j, k) /\ Proven(k)
  BY <1>1 DEF Like
<1>3. Urged(j) = IF ~k.fetched /\ k.pending = 0 /\ (k.identity = Unknown \/ k.failing)
                 THEN TimerArmed(MetadataAsked(k)) ELSE k
  BY DEF Urged
<1> HIDE DEF k
<1>4. MetadataAsked(k) \in Jobs
  BY <1>2, AskedTypes
<1>5. Like(k, MetadataAsked(k)) /\ Like(MetadataAsked(k), TimerArmed(MetadataAsked(k)))
  BY <1>2, <1>4, StaysLike
<1> QED BY <1>2, <1>3, <1>5 DEF Like

\* _advance() leaves the file alone, or starts a restore or a download.
LEMMA AdvanceEffect ==
    ASSUME FilesInv, NEW j \in Jobs, Proven(j), NEW F \in Ledgers, NEW O \in Tables,
           Advance(j, F, O)
    PROVE  \/ Like(j, job') /\ files' = F /\ ops' = O /\ UNCHANGED svc
           \/ LET k == Urged(j)
                  p == svc.next
              IN  /\ ~svc.closed /\ j.bound /\ Wants(k) /\ p \in Paths
                  /\ svc' = [svc EXCEPT !.next = @ + 1]
                  /\ files' = [F EXCEPT !.disk = @ \cup {p}]
                  /\ \/ /\ Restorable(k) /\ job' = [k EXCEPT !.restore = p]
                        /\ ops' = [O EXCEPT ![p] = Started("restoring", k)]
                     \/ /\ ~Restorable(k) /\ job' = [k EXCEPT !.download = p]
                        /\ ops' = [O EXCEPT ![p] = Started("writing", k)]
<1> DEFINE k == Urged(j)
           p == svc.next
<1>1. k \in Jobs /\ Like(j, k)
  BY UrgedTypes, UrgedLike
<1>2. Like(j, j) /\ Like(j, k) /\ Like(j, Failed(k, FALSE))
  BY <1>1, StaysLike DEF Like
<1>3. p <= MaxPath => p \in Paths
  BY Fields, BoundsAssumption DEF Services, Paths
<1>4. \/ job' \in {j, k, Failed(k, FALSE)} /\ files' = F /\ ops' = O /\ UNCHANGED svc
      \/ /\ ~svc.closed /\ j.bound /\ Wants(k) /\ p <= MaxPath
         /\ svc' = [svc EXCEPT !.next = @ + 1]
         /\ files' = [F EXCEPT !.disk = @ \cup {p}]
         /\ \/ /\ Restorable(k) /\ job' = [k EXCEPT !.restore = p]
               /\ ops' = [O EXCEPT ![p] = Started("restoring", k)]
            \/ /\ ~Restorable(k) /\ job' = [k EXCEPT !.download = p]
               /\ ops' = [O EXCEPT ![p] = Started("writing", k)]
  BY Zenon DEF Advance
<1> HIDE DEF k
<1> QED BY <1>2, <1>3, <1>4 DEF k

LEMMA AdvanceStores ==
    ASSUME FilesInv, NEW j \in Jobs, Proven(j), NEW F \in Ledgers, NEW O \in Tables,
           Stored(j, F, O, svc, users), Advance(j, F, O), UNCHANGED users
    PROVE  Stored(job, files, ops, svc, users)'
<1>1. CASE Like(j, job') /\ files' = F /\ ops' = O /\ UNCHANGED svc
  BY <1>1 DEF Like, Stored, Alone, Open, Kept, Pinned, Roles
<1>2. ASSUME NEW k \in Jobs, Like(j, k), ~svc.closed, j.bound, Wants(k), NEW p \in Paths,
             p = svc.next, svc' = [svc EXCEPT !.next = @ + 1],
             files' = [F EXCEPT !.disk = @ \cup {p}], NEW at \in {"restoring", "writing"},
             ops' = [O EXCEPT ![p] = Started(at, k)],
             job' = IF at = "restoring" THEN [k EXCEPT !.restore = p] ELSE [k EXCEPT !.download = p]
      PROVE  Stored(job, files, ops, svc, users)'
  <2>0. NoPath \notin Paths
    BY DEF NoPath, Paths
  <2>1. /\ j.path = NoPath /\ j.download = NoPath /\ j.restore = NoPath
        /\ job'.path = NoPath /\ job'.bound
        /\ job'.download = (IF at = "restoring" THEN NoPath ELSE p)
        /\ job'.restore = (IF at = "restoring" THEN p ELSE NoPath)
    BY <1>2 DEF Jobs, Like, Wants
  <2>2. /\ files'.leases = F.leases /\ files'.retired = F.retired /\ files'.pins = F.pins
        /\ files'.markers = F.markers /\ files'.disk = F.disk \cup {p}
    BY <1>2 DEF Ledgers
  <2>3. /\ \A q \in Paths \ {p} : ops'[q] = O[q]
        /\ ops'[p].at = at /\ ops'[p].publish = "no"
    BY <1>2 DEF Tables, Started, NoOperation
  <2>4. svc'.next = p + 1 /\ svc'.closed = svc.closed /\ svc.next = p /\ p \in Nat
    BY <1>2, Fields DEF Services, Paths
  <2>5. ASSUME NEW q \in Paths \ {p}
        PROVE  Kept(q, job, files, ops, svc, users)' /\ Pinned(q, job, files, ops, users)'
    <3>1. Kept(q, j, F, O, svc, users) /\ Pinned(q, j, F, O, users) /\ q \in Nat
      BY DEF Stored, Paths
    <3> QED BY <2>0, <2>1, <2>2, <2>3, <2>4, <3>1 DEF Kept, Pinned, Roles
  <2>6. Kept(p, job, files, ops, svc, users)' /\ Pinned(p, job, files, ops, users)'
    <3>1. Kept(p, j, F, O, svc, users) /\ Pinned(p, j, F, O, users)
      BY DEF Stored
    <3>2. p \notin F.disk /\ O[p].at = "none"
      BY <2>4, <3>1 DEF Kept
    <3>3. F.leases[p] = 0 /\ O[p].publish = "no" /\ users[p] = 0
      BY <3>1, <3>2, Fields DEF Kept, Held, Ledgers
    <3>4. p \notin F.retired /\ p \notin F.markers
      BY <2>0, <2>1, <3>1, <3>2, <3>3 DEF Kept, Pinned
    <3> QED BY <2>0, <2>1, <2>2, <2>3, <2>4, <3>2, <3>3, <3>4
            DEF Kept, Pinned, Roles, Held, Restoring
  <2> QED BY <1>2, <2>0, <2>1, <2>4, <2>5, <2>6 DEF Stored, Alone, Open
<1>3. Urged(j) \in Jobs /\ Like(j, Urged(j))
  BY UrgedTypes, UrgedLike
<1> QED BY <1>1, <1>2, <1>3, AdvanceEffect

-----------------------------------------------------------------------------
(* The steps, by what they do to the paths.                                *)

StoreInv == FilesInv /\ Stored(job, files, ops, svc, users)

LEMMA PathsAreNamed == NoPath \notin Paths
BY DEF NoPath, Paths

\* Only the job's places matter.
LEMMA SameRoles ==
    ASSUME NEW j, NEW k, NEW F, NEW O, NEW s, NEW U, Stored(j, F, O, s, U),
           k.bound = j.bound, k.path = j.path, k.download = j.download, k.restore = j.restore
    PROVE  Stored(k, F, O, s, U)
BY DEF Stored, Alone, Open, Kept, Pinned, Roles

\* A path that a step does not name.
LEMMA ElsewhereKeeps ==
    ASSUME NEW q \in Paths, NEW j, NEW k, NEW F, NEW G, NEW O, NEW P, NEW s, NEW U, NEW V,
           Kept(q, j, F, O, s, U), Pinned(q, j, F, O, U),
           G.leases[q] = F.leases[q], q \in G.disk <=> q \in F.disk,
           q \in G.retired <=> q \in F.retired, q \in G.pins <=> q \in F.pins,
           q \in G.markers <=> q \in F.markers, P[q] = O[q], V[q] = U[q],
           q = k.path <=> q = j.path, q = k.download <=> q = j.download,
           q = k.restore <=> q = j.restore
    PROVE  Kept(q, k, G, P, s, V) /\ Pinned(q, k, G, P, V)
<1>1. q \in Roles(k) <=> q \in Roles(j)
  BY PathsAreNamed DEF Roles
<1>2. Kept(q, k, G, P, s, V)
  BY <1>1 DEF Kept
<1>3. Pinned(q, k, G, P, V)
  BY DEF Pinned
<1> QED BY <1>2, <1>3

\* bind() and close() leave the job no place.
LEMMA PutStores ==
    ASSUME StoreInv, ~svc.closed, NEW k,
           k.path = NoPath, k.download = NoPath, k.restore = NoPath
    PROVE  \A q \in Paths : Kept(q, k, Put(files), ops, svc, users) /\ Pinned(q, k, Put(files), ops, users)
<1> DEFINE a == [job EXCEPT !.download = NoPath]
           b == [job EXCEPT !.download = NoPath, !.path = NoPath]
           F == Retired(files, job.download, job.path)
           G == Retired(F, job.path, job.path)
<1>1. /\ job \in Jobs /\ files \in Ledgers /\ ops \in Tables /\ users \in [Paths -> Nat]
      /\ job.path \in {NoPath} \cup Paths /\ job.download \in {NoPath} \cup Paths
  BY Fields DEF StoreInv
<1>2. /\ Alone(job)
      /\ \A q \in Paths : Kept(q, job, files, ops, svc, users) /\ Pinned(q, job, files, ops, users)
  BY DEF StoreInv, Stored
<1>3. /\ a.path = job.path /\ a.download = NoPath /\ a.restore = job.restore /\ a.bound = job.bound
      /\ b.path = NoPath /\ b.download = NoPath /\ b.restore = job.restore
  BY <1>1 DEF Jobs
<1>4. F \in Ledgers
  BY <1>1, RetiredTypes
<1> HIDE DEF a, b
<1>5. Alone(a)
  BY <1>2, <1>3 DEF Alone
<1>6. a.path = (IF job.download = job.path THEN NoPath ELSE job.path)
  BY <1>2, <1>3 DEF Alone
<1>7. \A q \in Paths : Kept(q, a, F, ops, svc, users) /\ Pinned(q, a, F, ops, users)
  BY <1>1, <1>2, <1>3, <1>6, RetiredKeeps
<1> HIDE DEF F
<1>8. \A q \in Paths : Kept(q, b, G, ops, svc, users) /\ Pinned(q, b, G, ops, users)
  BY <1>1, <1>3, <1>4, <1>5, <1>7, RetiredKeeps
<1>9. Put(files) = G
  BY DEF Put, F
<1> HIDE DEF G
<1>10. ASSUME NEW q \in Paths
       PROVE  Kept(q, k, G, ops, svc, users) /\ Pinned(q, k, G, ops, users)
  <2>1. Kept(q, b, G, ops, svc, users) /\ Pinned(q, b, G, ops, users) /\ q # NoPath
    BY <1>8, PathsAreNamed
  <2>2. Kept(q, k, G, ops, svc, users)
    BY <1>3, <2>1 DEF Kept, Roles
  <2>3. Pinned(q, k, G, ops, users)
    BY <1>3, <2>1 DEF Pinned
  <2> QED BY <2>2, <2>3
<1> QED BY <1>9, <1>10

LEMMA OwnerStores ==
    ASSUME StoreInv, Bind \/ RequestFile \/ RequestMetadata \/ Close
    PROVE  Stored(job, files, ops, svc, users)'
<1> USE DEF StoreInv
<1>1. ASSUME NEW isJob \in BOOLEAN
      PROVE  /\ NewJob(isJob).path = NoPath /\ NewJob(isJob).download = NoPath
             /\ NewJob(isJob).restore = NoPath /\ NewJob(isJob).bound = isJob
  BY DEF NewJob
<1>2. ASSUME NEW isJob \in BOOLEAN, NEW s, NEW F, s.next = svc.next, s.closed => ~isJob,
             \A q \in Paths : Kept(q, NewJob(isJob), F, ops, svc, users)
                              /\ Pinned(q, NewJob(isJob), F, ops, users)
      PROVE  Stored(NewJob(isJob), F, ops, s, users)
  BY <1>1, <1>2 DEF Stored, Alone, Open, Kept
<1>3. CASE Bind
  <2>1. PICK isJob \in BOOLEAN : job' = NewJob(isJob)
    BY <1>3 DEF Bind
  <2>2. /\ svc'.next = svc.next /\ ~svc'.closed /\ ~svc.closed
        /\ files' = Put(files) /\ ops' = ops /\ users' = users
    BY <1>3, Fields DEF Bind, Services
  <2>3. Stored(NewJob(isJob), Put(files), ops, svc', users)
    BY <1>1, <1>2, <2>2, PutStores
  <2> QED BY <2>1, <2>2, <2>3
<1>4. CASE RequestFile
  <2> DEFINE a == Anew(job)
             b == Wanted(job)
  <2>1. a \in Jobs /\ b \in Jobs
    BY Fields, WantedTypes, AnewTypes
  <2>2. Proven(a) /\ Proven(b)
    BY Fields DEF Jobs, Proven, Wanted, Anew
  <2>3. Advance(a, files, ops) \/ Advance(b, files, ops)
    BY <1>4, Zenon DEF RequestFile, Wanted, Anew
  <2>4. /\ a.bound = job.bound /\ a.path = job.path /\ a.download = job.download
        /\ a.restore = job.restore
        /\ b.bound = job.bound /\ b.path = job.path /\ b.download = job.download
        /\ b.restore = job.restore
    BY Fields DEF Jobs, Wanted, Anew
  <2> HIDE DEF a, b
  <2>5. Stored(a, files, ops, svc, users) /\ Stored(b, files, ops, svc, users)
    BY <2>4, SameRoles
  <2> QED BY <1>4, <2>1, <2>2, <2>3, <2>5, Fields, AdvanceStores DEF RequestFile
<1>5. CASE RequestMetadata
  <2>1. Like(job, job') /\ UNCHANGED <<svc, files, ops, users>>
    BY <1>5, Fields, StaysLike DEF RequestMetadata
  <2> QED BY <2>1, SameRoles DEF Like
<1>6. CASE Close
  <2> DEFINE F == Put(files)
  <2>1. /\ svc'.next = svc.next /\ ~svc.closed /\ job' = NewJob(FALSE)
        /\ files' = (IF \A p \in Paths : F.leases[p] = 0 THEN Without(F, Paths) ELSE F)
        /\ ops' = ops /\ users' = users
    BY <1>6, Fields DEF Close, Services
  <2>2. \A q \in Paths : Kept(q, NewJob(FALSE), F, ops, svc, users)
                         /\ Pinned(q, NewJob(FALSE), F, ops, users)
    BY <1>1, <2>1, PutStores
  <2>3. F \in Ledgers
    BY PutTypes
  <2> HIDE DEF F
  <2>4. ASSUME \A p \in Paths : F.leases[p] = 0, NEW q \in Paths
        PROVE  /\ Kept(q, NewJob(FALSE), Without(F, Paths), ops, svc, users)
               /\ Pinned(q, NewJob(FALSE), Without(F, Paths), ops, users)
    <3>1. /\ Without(F, Paths).leases = F.leases /\ Without(F, Paths).retired = F.retired
          /\ Without(F, Paths).pins = F.pins /\ Without(F, Paths).markers = F.markers
          /\ q \notin Without(F, Paths).disk
      BY <2>3 DEF Without, Ledgers
    <3>2. Kept(q, NewJob(FALSE), Without(F, Paths), ops, svc, users)
      BY <1>1, <2>2, <2>4, <3>1, PathsAreNamed, UntouchedKeeps
    <3>3. Pinned(q, NewJob(FALSE), Without(F, Paths), ops, users)
      BY <2>2, <3>1 DEF Pinned
    <3> QED BY <3>2, <3>3
  <2>5. \A q \in Paths : Kept(q, NewJob(FALSE), files', ops, svc, users)
                         /\ Pinned(q, NewJob(FALSE), files', ops, users)
    BY <2>1, <2>2, <2>4
  <2>6. Stored(NewJob(FALSE), files', ops, svc', users)
    BY <1>2, <2>1, <2>5
  <2> QED BY <2>1, <2>6
<1> QED BY <1>3, <1>4, <1>5, <1>6

\* A lease more, of the current path.
LEMMA LeasedStores ==
    ASSUME NEW F \in Ledgers, NEW O \in Tables, NEW P \in Tables, NEW U \in [Paths -> Nat],
           NEW V \in [Paths -> Nat], NEW j, NEW s, NEW p \in Paths, Stored(j, F, O, s, U),
           p = j.path, \A q \in Paths \ {p} : P[q] = O[q] /\ V[q] = U[q], P[p].at = O[p].at,
           \/ V[p] = U[p] + 1 /\ P[p].publish = O[p].publish
           \/ V[p] = U[p] /\ O[p].publish = "no" /\ P[p].publish = "linking" /\ p \notin F.markers
    PROVE  Stored(j, Leased(F, p), P, s, V)
<1> DEFINE L == Leased(F, p)
<1>1. /\ L.retired = F.retired /\ L.pins = F.pins /\ L.markers = F.markers /\ L.disk = F.disk
      /\ L.leases[p] = F.leases[p] + 1 /\ \A q \in Paths \ {p} : L.leases[q] = F.leases[q]
      /\ F.leases[p] \in Nat /\ U[p] \in Nat
  BY DEF Leased, Ledgers
<1> HIDE DEF L
<1>2. ASSUME NEW q \in Paths \ {p} PROVE Kept(q, j, L, P, s, V) /\ Pinned(q, j, L, P, V)
  BY <1>1, ElsewhereKeeps DEF Stored
<1>3. Kept(p, j, F, O, s, U) /\ Pinned(p, j, F, O, U)
  BY DEF Stored
<1>4. Kept(p, j, L, P, s, V)
  BY <1>1, <1>3 DEF Kept, Held
<1>5. Pinned(p, j, L, P, V)
  BY <1>1, <1>3 DEF Pinned
<1> QED BY <1>2, <1>4, <1>5 DEF Stored, L

LEMMA LeasesStore ==
    ASSUME StoreInv, Lease \/ \E p \in Paths : CloseLease(p)
    PROVE  Stored(job, files, ops, svc, users)'
<1> USE DEF StoreInv
<1>1. CASE Lease
  <2>1. job.path \in Paths
    BY <1>1, Fields DEF Lease
  <2>2. /\ users' \in [Paths -> Nat] /\ users'[job.path] = users[job.path] + 1
        /\ \A q \in Paths \ {job.path} : users'[q] = users[q]
    BY <1>1, <2>1, Fields DEF Lease
  <2>3. files' = Leased(files, job.path) /\ UNCHANGED <<svc, job, ops>>
    BY <1>1 DEF Lease
  <2>4. Stored(job, Leased(files, job.path), ops, svc, users')
    BY <2>1, <2>2, Fields, LeasedStores
  <2> QED BY <2>3, <2>4
<1>2. ASSUME NEW p \in Paths, CloseLease(p) PROVE Stored(job, files, ops, svc, users)'
  <2>1. /\ users' \in [Paths -> Nat] /\ users'[p] = users[p] - 1 /\ users[p] > 0
        /\ \A q \in Paths \ {p} : users'[q] = users[q]
    BY <1>2, Fields DEF CloseLease
  <2>2. files' = Released(files, p, job.path) /\ UNCHANGED <<svc, job, ops>>
    BY <1>2 DEF CloseLease
  <2>3. ASSUME NEW q \in Paths \ {p}
        PROVE  Kept(q, job, files, ops, svc, users') /\ Pinned(q, job, files, ops, users')
    BY <2>1, ElsewhereKeeps DEF Stored
  <2>4. Kept(p, job, files, ops, svc, users) /\ Pinned(p, job, files, ops, users)
    BY DEF Stored
  <2>5. /\ files.leases[p] = users'[p] + Held(ops[p]) + 1 /\ files.leases[p] > 0
    <3>1. Held(ops[p]) \in {0, 1} /\ users[p] \in Nat
      BY Fields DEF Held
    <3> QED BY <2>1, <2>4, <3>1 DEF Kept
  <2>6. /\ p \in files.disk /\ ops[p].at = "none" /\ p < svc.next
        /\ p \in files.retired <=> p # job.path
        /\ p # job.download /\ p # job.restore
    BY <2>4, <2>5 DEF Kept, Restoring
  <2>7. /\ ops[p].publish \in {"linking", "failed"} => p \notin files.markers
        /\ p \in files.markers => p \in files.pins \/ ops[p].publish = "pinned"
    BY <2>4, <2>6 DEF Pinned
  <2>8. Stored(job, Released(files, p, job.path), ops, svc, users')
    BY <2>1, <2>3, <2>5, <2>6, <2>7, Fields, ReleasedKeeps DEF Stored
  <2> QED BY <2>2, <2>8
<1> QED BY <1>1, <1>2

LEMMA ReplyStores ==
    ASSUME StoreInv, MetadataReply PROVE Stored(job, files, ops, svc, users)'
<1>1. PICK j \in Jobs :
         /\ Proven(j) /\ Heard(job, j)
         /\ \/ Advance(j, files, ops)
            \/ /\ Disowned(j) /\ Nowhere(j) \in Jobs /\ Proven(Nowhere(j))
               /\ Advance(Nowhere(j), Retired(files, j.path, j.path), ops)
  BY ReplyEffect DEF StoreInv
<1>2. UNCHANGED <<cache, remote, users>> /\ FilesInv /\ Stored(job, files, ops, svc, users)
  BY DEF MetadataReply, StoreInv
<1>3. Stored(j, files, ops, svc, users)
  BY <1>1, <1>2, SameRoles DEF Heard
<1>4. CASE Advance(j, files, ops)
  BY <1>1, <1>2, <1>3, <1>4, Fields, AdvanceStores
<1>5. CASE /\ Disowned(j) /\ Nowhere(j) \in Jobs /\ Proven(Nowhere(j))
           /\ Advance(Nowhere(j), Retired(files, j.path, j.path), ops)
  <2> DEFINE k == Nowhere(j)
             F == Retired(files, j.path, j.path)
  <2>1. /\ k.path = NoPath /\ k.download = j.download /\ k.restore = j.restore /\ k.bound = j.bound
        /\ j.path \in {NoPath} \cup Paths /\ j.path # NoPath
    BY <1>1, <1>5 DEF Nowhere, Jobs, Disowned
  <2>2. /\ Alone(j) /\ Open(svc, j) /\ ~svc.closed
        /\ \A q \in Paths : Kept(q, j, files, ops, svc, users) /\ Pinned(q, j, files, ops, users)
    BY <1>3, <2>1 DEF Stored, Alone, Open
  <2>3. k.download = (IF j.path = j.download THEN NoPath ELSE j.download)
    BY <2>1, <2>2 DEF Alone
  <2> HIDE DEF k, F
  <2>4. \A q \in Paths : Kept(q, k, F, ops, svc, users) /\ Pinned(q, k, F, ops, users)
    BY <1>2, <2>1, <2>2, <2>3, Fields, RetiredKeeps DEF F
  <2>5. Stored(k, F, ops, svc, users)
    BY <2>1, <2>2, <2>4 DEF Stored, Alone, Open
  <2>6. F \in Ledgers
    BY <1>2, <2>1, Fields, RetiredTypes DEF F
  <2>7. k \in Jobs /\ Proven(k) /\ Advance(k, F, ops)
    BY <1>5 DEF k, F
  <2> QED BY <1>2, <2>5, <2>6, <2>7, Fields, AdvanceStores
<1> QED BY <1>1, <1>4, <1>5

LEMMA TimersStore ==
    ASSUME StoreInv, TimePasses \/ MetadataTimer \/ RetryTimer
    PROVE  Stored(job, files, ops, svc, users)'
<1>0. FilesInv /\ Stored(job, files, ops, svc, users)
  BY DEF StoreInv
<1>1. CASE TimePasses
  <2>1. Like(job, job') /\ UNCHANGED <<svc, files, ops, users>>
    BY <1>0, <1>1, Fields DEF TimePasses, Jobs, Like
  <2> QED BY <1>0, <2>1, SameRoles DEF Like
<1>2. CASE MetadataTimer
  <2> DEFINE j == [job EXCEPT !.timer = FALSE]
  <2>1. j \in Jobs
    BY <1>0, Fields, Zenon DEF Jobs
  <2>2. Proven(j) /\ Like(job, j)
    BY <1>0, Fields DEF Jobs, Proven, Like
  <2>3. job' = TimerArmed(MetadataAsked(j)) \/ job' = j
    BY <1>2 DEF MetadataTimer
  <2> HIDE DEF j
  <2>4. MetadataAsked(j) \in Jobs
    BY <1>0, <2>1, <2>2, AskedTypes
  <2>5. Like(job, job')
    BY <2>1, <2>2, <2>3, <2>4, StaysLike DEF Like
  <2>6. UNCHANGED <<svc, files, ops, users>>
    BY <1>2 DEF MetadataTimer
  <2> QED BY <1>0, <2>5, <2>6, SameRoles DEF Like
<1>3. CASE RetryTimer
  <2> DEFINE j == [job EXCEPT !.retry = FALSE]
  <2>1. j \in Jobs
    BY <1>0, Fields, Zenon DEF Jobs
  <2>2. Proven(j) /\ Like(job, j)
    BY <1>0, Fields DEF Jobs, Proven, Like
  <2>3. Advance(job, files, ops) \/ Advance(j, files, ops)
    BY <1>3, Zenon DEF RetryTimer
  <2> HIDE DEF j
  <2>4. Stored(j, files, ops, svc, users)
    BY <1>0, <2>2, SameRoles DEF Like
  <2> QED BY <1>0, <1>3, <2>1, <2>2, <2>3, <2>4, Fields, AdvanceStores DEF RetryTimer
<1> QED BY <1>1, <1>2, <1>3

\* The download's place is empty, and its path retired.
LEMMA DropStores ==
    ASSUME StoreInv, NEW k, job.download # NoPath, k.bound = job.bound, k.path = job.path,
           k.download = NoPath, k.restore = job.restore
    PROVE  Stored(k, Retired(files, job.download, job.path), ops, svc, users)
<1>1. FilesInv /\ Alone(job) /\ Open(svc, job)
  BY DEF StoreInv, Stored
<1>2. ~svc.closed /\ job.download \in Paths /\ job.path = NoPath
  BY <1>1, Fields DEF Alone, Open
<1>3. \A q \in Paths : /\ Kept(q, k, Retired(files, job.download, job.path), ops, svc, users)
                       /\ Pinned(q, k, Retired(files, job.download, job.path), ops, users)
  BY <1>1, <1>2, Fields, RetiredKeeps DEF StoreInv, Stored
<1> QED BY <1>1, <1>3 DEF Stored, Alone, Open

LEMMA DrainStores ==
    ASSUME StoreInv, DrainFails PROVE Stored(job, files, ops, svc, users)'
<1> DEFINE j == [job EXCEPT !.download = NoPath]
<1>1. /\ j \in Jobs /\ j.bound = job.bound /\ j.path = job.path /\ j.download = NoPath
      /\ j.restore = job.restore
  <2>1. j \in Jobs
    BY Fields, Zenon DEF Jobs, StoreInv
  <2> QED BY <2>1, Fields DEF Jobs, StoreInv
<1> HIDE DEF j
<1>2. /\ job.download # NoPath /\ job' = Failed(j, FALSE) /\ UNCHANGED <<svc, ops, users>>
      /\ files' = Retired(files, job.download, job.path)
  BY DEF DrainFails, j
<1>3. Stored(j, files', ops, svc, users)
  BY <1>1, <1>2, DropStores
<1>4. Like(j, job')
  BY <1>1, <1>2, StaysLike
<1> QED BY <1>2, <1>3, <1>4, SameRoles DEF Like

\* A writer of no place ends.
LEMMA WriterEnds ==
    ASSUME NEW F \in Ledgers, NEW O \in Tables, NEW P \in Tables, NEW U \in [Paths -> Nat],
           NEW j, NEW s, NEW p \in Paths, Stored(j, F, O, s, U),
           O[p].at = "writing", p # j.download, P[p].at = "none", P[p].publish = O[p].publish,
           \A q \in Paths \ {p} : P[q] = O[q]
    PROVE  Stored(j, F, P, s, U)
<1>1. ASSUME NEW q \in Paths \ {p} PROVE Kept(q, j, F, P, s, U) /\ Pinned(q, j, F, P, U)
  BY ElsewhereKeeps DEF Stored
<1>2. Kept(p, j, F, O, s, U) /\ Pinned(p, j, F, O, U)
  BY DEF Stored
<1>3. Kept(p, j, F, P, s, U)
  BY <1>2 DEF Kept, Held, Restoring
<1>4. Pinned(p, j, F, P, U)
  BY <1>2 DEF Pinned
<1> QED BY <1>1, <1>3, <1>4 DEF Stored

\* What of the job a download that ends leaves as it was.
Landed(j, k) ==
    /\ k \in Jobs /\ k.download = NoPath
    /\ k.bound = j.bound /\ k.want = j.want /\ k.identity = j.identity /\ k.fetched = j.fetched
    /\ k.verified = j.verified /\ k.pending = j.pending /\ k.failing = j.failing
    /\ k.timer = j.timer /\ k.restore = j.restore

LEMMA WriterEffect ==
    ASSUME FilesInv, NEW p \in Paths, WriterDone(p)
    PROVE  /\ ops[p].at = "writing" /\ UNCHANGED <<svc, cache, remote, users>>
           /\ ops' \in Tables /\ ops'[p].at = "none" /\ ops'[p].id = ops[p].id
           /\ \A q \in Paths \ {p} : ops'[q] = ops[q]
           /\ \/ p # job.download /\ UNCHANGED <<job, files>> /\ ops'[p].publish = ops[p].publish
              \/ /\ p = job.download /\ files' = Retired(files, p, job.path)
                 /\ ops'[p].publish = ops[p].publish
                 /\ \E j \in Jobs, transient \in BOOLEAN :
                       /\ Landed(job, j) /\ j.path = job.path /\ j.pathId = job.pathId
                       /\ job' = Failed(j, transient)
              \/ /\ p = job.download /\ Landed(job, job')
                 /\ job'.path = p /\ job'.pathId = ops[p].id /\ job'.error = job.error
                 /\ ~job'.auto /\ Accepted(ops[p], ops'[p].data)
                 /\ \/ files' = files /\ ops'[p].publish = ops[p].publish
                    \/ /\ files' = Leased(files, p) /\ ops'[p].publish = "linking"
                       /\ job.verified /\ job.identity \in Versions
<1> DEFINE j == [job EXCEPT !.download = NoPath]
           none == [ops EXCEPT ![p].at = "none"]
           O(v) == [ops EXCEPT ![p].at = "none", ![p].data = v]
           k == [j EXCEPT !.path = p, !.pathId = ops[p].id, !.attempts = 0,
                          !.wait = FALSE, !.auto = FALSE, !.retry = FALSE]
           R(v) == IF ops[p].id = Unknown THEN [j |-> k, F |-> files, O |-> O(v)]
                   ELSE Published(k, files, O(v))
           Gone(transient) == job' = Failed(j, transient) /\ files' = Retired(files, p, job.path)
<1>1. Landed(job, j) /\ j.path = job.path /\ j.pathId = job.pathId /\ j.error = job.error
                     /\ j.published = job.published
  <2>1. j \in Jobs
    BY Fields, Zenon DEF Jobs
  <2> QED BY <2>1, Fields DEF Jobs, Landed
<1>2. /\ Landed(job, k) /\ k.path = p /\ k.pathId = ops[p].id /\ k.error = job.error /\ ~k.auto
      /\ k.published = job.published
  <2>1. ops[p].id \in Identities /\ 0 \in 0..3 /\ j \in Jobs
    BY <1>1, Fields DEF Tables, Operations, Landed
  <2> HIDE DEF j
  <2>2. k \in Jobs
    BY <1>1, <2>1, Zenon DEF Jobs
  <2> QED BY <1>1, <2>1, <2>2 DEF Jobs, Landed
<1>3. /\ none \in Tables /\ none[p].at = "none" /\ none[p].publish = ops[p].publish
      /\ none[p].id = ops[p].id /\ \A q \in Paths \ {p} : none[q] = ops[q]
  <2>1. none \in Tables
    BY Fields, OperationTypes
  <2> QED BY <2>1, Fields DEF Tables, Operations
<1>4. ASSUME NEW v \in ops[p].from..remote
      PROVE  /\ O(v) \in Tables /\ O(v)[p].at = "none" /\ O(v)[p].publish = ops[p].publish
             /\ O(v)[p].id = ops[p].id /\ O(v)[p].data = v
             /\ \A q \in Paths \ {p} : O(v)[q] = ops[q]
  <2>1. ops[p].from \in 0..MaxVersion /\ remote \in 1..MaxVersion
    BY Fields DEF Tables, Operations, Versions
  <2>2. v \in 0..MaxVersion
    BY <2>1, BoundsAssumption
  <2>3. O(v) \in Tables
    BY <2>2, Fields, OperationTypes
  <2> QED BY <2>3, Fields DEF Tables, Operations
<1>5. /\ ops[p].at = "writing" /\ UNCHANGED <<svc, cache, remote, users>>
      /\ \/ p # job.download /\ ops' = none /\ UNCHANGED <<job, files>>
         \/ p = job.download /\ ops' = none /\ \E transient \in BOOLEAN : Gone(transient)
         \/ /\ p = job.download
            /\ \E v \in ops[p].from..remote :
                  IF Accepted(ops[p], v) THEN job' = R(v).j /\ files' = R(v).F /\ ops' = R(v).O
                  ELSE Gone(FALSE) /\ ops' = O(v)
  BY Zenon DEF WriterDone, Current
<1> HIDE DEF j, k, none, O
<1>6. ASSUME NEW transient \in BOOLEAN, Gone(transient)
      PROVE  /\ files' = Retired(files, p, job.path)
             /\ \E i \in Jobs, t \in BOOLEAN :
                   /\ Landed(job, i) /\ i.path = job.path /\ i.pathId = job.pathId
                   /\ job' = Failed(i, t)
  BY <1>1, <1>6 DEF Landed
<1>7. ASSUME NEW v \in ops[p].from..remote
      PROVE  \/ R(v) = [j |-> k, F |-> files, O |-> O(v)]
             \/ /\ job.verified /\ job.identity \in Versions
                /\ R(v) = [j |-> [k EXCEPT !.published = p], F |-> Leased(files, p),
                           O |-> [O(v) EXCEPT ![p].publish = "linking"]]
  BY <1>2 DEF Published, Landed
<1>8. ASSUME NEW v \in ops[p].from..remote, Accepted(ops[p], v), p = job.download,
             job' = R(v).j, files' = R(v).F, ops' = R(v).O
      PROVE  /\ ops' \in Tables /\ ops'[p].at = "none" /\ ops'[p].id = ops[p].id
             /\ \A q \in Paths \ {p} : ops'[q] = ops[q]
             /\ Landed(job, job') /\ job'.path = p /\ job'.pathId = ops[p].id
             /\ job'.error = job.error /\ ~job'.auto /\ Accepted(ops[p], ops'[p].data)
             /\ \/ files' = files /\ ops'[p].publish = ops[p].publish
                \/ /\ files' = Leased(files, p) /\ ops'[p].publish = "linking"
                   /\ job.verified /\ job.identity \in Versions
  <2>1. CASE R(v) = [j |-> k, F |-> files, O |-> O(v)]
    <3>1. job' = k /\ files' = files /\ ops' = O(v)
      BY <1>8, <2>1
    <3> QED BY <1>2, <1>4, <1>8, <3>1
  <2>2. CASE /\ job.verified /\ job.identity \in Versions
             /\ R(v) = [j |-> [k EXCEPT !.published = p], F |-> Leased(files, p),
                        O |-> [O(v) EXCEPT ![p].publish = "linking"]]
    <3> DEFINE n == [k EXCEPT !.published = p]
               L == Leased(files, p)
               P == [O(v) EXCEPT ![p].publish = "linking"]
    <3> HIDE DEF n, L, P
    <3>0. job' = n /\ files' = L /\ ops' = P
      <4>1. R(v) = [j |-> n, F |-> L, O |-> P]
        BY <2>2 DEF n, L, P
      <4> QED BY <1>8, <4>1
    <3>1. /\ job' = [k EXCEPT !.published = p] /\ files' = Leased(files, p)
          /\ ops' = [O(v) EXCEPT ![p].publish = "linking"]
      BY <3>0 DEF n, L, P
    <3>2. /\ ops' \in Tables /\ ops'[p].at = "none" /\ ops'[p].id = ops[p].id
          /\ ops'[p].data = v /\ ops'[p].publish = "linking"
          /\ \A q \in Paths \ {p} : ops'[q] = ops[q]
      BY <1>4, <3>1 DEF Tables, Operations
    <3>3. k \in Jobs
      BY <1>2 DEF Landed
    <3>4. job' \in Jobs
      BY <3>1, <3>3, Zenon DEF Jobs
    <3>5. /\ Landed(job, job') /\ job'.path = p /\ job'.pathId = ops[p].id
          /\ job'.error = job.error /\ ~job'.auto
      BY <1>2, <3>1, <3>3, <3>4 DEF Landed, Jobs
    <3> QED BY <1>8, <2>2, <3>1, <3>2, <3>5
  <2> QED BY <1>7, <2>1, <2>2
<1> HIDE DEF Gone, R
<1>9. CASE p # job.download /\ ops' = none /\ UNCHANGED <<job, files>>
  BY <1>3, <1>5, <1>9
<1>10. CASE p = job.download /\ ops' = none /\ \E transient \in BOOLEAN : Gone(transient)
  BY <1>3, <1>5, <1>6, <1>10
<1>11. ASSUME p = job.download, NEW v \in ops[p].from..remote,
              IF Accepted(ops[p], v) THEN job' = R(v).j /\ files' = R(v).F /\ ops' = R(v).O
              ELSE Gone(FALSE) /\ ops' = O(v)
       PROVE  /\ ops' \in Tables /\ ops'[p].at = "none" /\ ops'[p].id = ops[p].id
              /\ \A q \in Paths \ {p} : ops'[q] = ops[q]
              /\ \/ /\ files' = Retired(files, p, job.path)
                    /\ ops'[p].publish = ops[p].publish
                    /\ \E i \in Jobs, transient \in BOOLEAN :
                          /\ Landed(job, i) /\ i.path = job.path /\ i.pathId = job.pathId
                          /\ job' = Failed(i, transient)
                 \/ /\ Landed(job, job')
                    /\ job'.path = p /\ job'.pathId = ops[p].id /\ job'.error = job.error
                    /\ ~job'.auto /\ Accepted(ops[p], ops'[p].data)
                    /\ \/ files' = files /\ ops'[p].publish = ops[p].publish
                       \/ /\ files' = Leased(files, p) /\ ops'[p].publish = "linking"
                          /\ job.verified /\ job.identity \in Versions
  <2>1. CASE Accepted(ops[p], v)
    BY <1>8, <1>11, <2>1
  <2>2. CASE ~Accepted(ops[p], v)
    <3>1. Gone(FALSE) /\ ops' = O(v)
      BY <1>11, <2>2
    <3>2. /\ files' = Retired(files, p, job.path)
          /\ \E i \in Jobs, t \in BOOLEAN :
                /\ Landed(job, i) /\ i.path = job.path /\ i.pathId = job.pathId
                /\ job' = Failed(i, t)
      BY <1>6, <3>1
    <3> QED BY <1>4, <3>1, <3>2
  <2> QED BY <2>1, <2>2
<1> QED BY <1>5, <1>9, <1>10, <1>11

LEMMA WriterStores ==
    ASSUME StoreInv, NEW p \in Paths, WriterDone(p)
    PROVE  Stored(job, files, ops, svc, users)'
<1>1. FilesInv /\ Stored(job, files, ops, svc, users)
  BY DEF StoreInv
<1>2. /\ ops[p].at = "writing" /\ UNCHANGED <<svc, users>>
      /\ ops' \in Tables /\ ops'[p].at = "none" /\ \A q \in Paths \ {p} : ops'[q] = ops[q]
  BY <1>1, WriterEffect
<1>3. /\ files \in Ledgers /\ ops \in Tables /\ users \in [Paths -> Nat]
      /\ files.leases[p] = 0 /\ ops[p].publish = "no" /\ users[p] = 0
      /\ p \notin files.markers /\ p \notin files.retired /\ p # job.restore /\ p # NoPath
  <2>1. Kept(p, job, files, ops, svc, users) /\ Pinned(p, job, files, ops, users)
    BY <1>1 DEF Stored
  <2>2. files.leases[p] \in Nat /\ users[p] \in Nat /\ files \in Ledgers /\ ops \in Tables
    BY <1>1, Fields DEF Ledgers
  <2>3. files.leases[p] = 0
    BY <1>2, <2>1, <2>2 DEF Kept
  <2>4. ops[p].publish = "no" /\ users[p] = 0 /\ p # job.path
    BY <1>2, <2>1, <2>2, <2>3 DEF Kept, Held
  <2> QED BY <1>1, <1>2, <2>1, <2>2, <2>3, <2>4, Fields, PathsAreNamed
          DEF Kept, Pinned, Restoring
<1>4. CASE p # job.download /\ UNCHANGED <<job, files>> /\ ops'[p].publish = ops[p].publish
  <2>1. Stored(job, files, ops', svc, users)
    BY <1>1, <1>2, <1>3, <1>4, WriterEnds
  <2> QED BY <1>2, <1>4, <2>1
<1>5. CASE /\ p = job.download /\ files' = Retired(files, p, job.path)
           /\ ops'[p].publish = ops[p].publish
           /\ \E j \in Jobs, transient \in BOOLEAN :
                 /\ Landed(job, j) /\ j.path = job.path /\ j.pathId = job.pathId
                 /\ job' = Failed(j, transient)
  <2>1. PICK j \in Jobs, transient \in BOOLEAN :
          Landed(job, j) /\ j.path = job.path /\ job' = Failed(j, transient)
    BY <1>5
  <2>2. Stored(j, files', ops, svc, users)
    BY <1>3, <1>5, <2>1, DropStores DEF Landed
  <2>3. Like(j, job')
    BY <2>1, StaysLike
  <2>4. Stored(job', files', ops, svc, users)
    BY <2>2, <2>3, SameRoles DEF Like
  <2>5. files' \in Ledgers
    BY <1>1, <1>3, <1>5, Fields, RetiredTypes
  <2>6. p # job'.download
    BY <1>3, <2>1, <2>3 DEF Landed, Like
  <2>7. Stored(job', files', ops', svc, users)
    BY <1>2, <1>3, <1>5, <2>4, <2>5, <2>6, WriterEnds
  <2> QED BY <1>2, <2>7
<1>6. CASE /\ p = job.download /\ Landed(job, job') /\ job'.path = p
           /\ \/ files' = files /\ ops'[p].publish = ops[p].publish
              \/ files' = Leased(files, p) /\ ops'[p].publish = "linking"
  <2> DEFINE P == [ops' EXCEPT ![p].publish = "no"]
  <2>1. /\ P \in Tables /\ P[p].at = "none" /\ P[p].publish = "no"
        /\ \A q \in Paths \ {p} : P[q] = ops[q]
    BY <1>2 DEF Tables, Operations
  <2> HIDE DEF P
  <2>2. Alone(job') /\ Open(svc, job')
    BY <1>1, <1>3, <1>6, PathsAreNamed DEF Stored, Alone, Open, Landed
  <2>3. ASSUME NEW q \in Paths \ {p}
        PROVE  Kept(q, job', files, P, svc, users) /\ Pinned(q, job', files, P, users)
    <3>1. Kept(q, job, files, ops, svc, users) /\ Pinned(q, job, files, ops, users)
      BY <1>1 DEF Stored
    <3>2. job.path = NoPath /\ q # NoPath
      BY <1>1, <1>3, <1>6, PathsAreNamed DEF Stored, Alone
    <3> QED BY <1>6, <2>1, <3>1, <3>2, ElsewhereKeeps DEF Landed
  <2>4. Kept(p, job', files, P, svc, users) /\ Pinned(p, job', files, P, users)
    <3>1. Kept(p, job, files, ops, svc, users)
      BY <1>1 DEF Stored
    <3> QED BY <1>3, <1>6, <2>1, <3>1 DEF Kept, Pinned, Held, Roles, Landed, Restoring
  <2>5. Stored(job', files, P, svc, users)
    BY <2>2, <2>3, <2>4 DEF Stored
  <2>6. CASE files' = files /\ ops'[p].publish = ops[p].publish
    <3>1. P = ops'
      BY <1>2, <1>3, <2>6 DEF P, Tables, Operations
    <3> QED BY <1>2, <2>5, <2>6, <3>1
  <2>7. CASE files' = Leased(files, p) /\ ops'[p].publish = "linking"
    <3>1. Stored(job', Leased(files, p), ops', svc, users)
      BY <1>2, <1>3, <1>6, <2>1, <2>5, <2>7, LeasedStores
    <3> QED BY <1>2, <2>7, <3>1
  <2> QED BY <1>6, <2>6, <2>7
<1> QED BY <1>1, <1>4, <1>5, <1>6, WriterEffect

\* The directory of an operation that is over, and of no job's, is deleted.
LEMMA CleanedStores ==
    ASSUME StoreInv, NEW p \in Paths, NEW P, NEW k,
           ops[p].at \in Restoring, P[p].at = "none", P[p].publish = ops[p].publish,
           \A q \in Paths \ {p} : P[q] = ops[q],
           k.bound = job.bound, k.path = job.path, k.download = job.download,
           k.restore = (IF p = job.restore THEN NoPath ELSE job.restore)
    PROVE  /\ Stored(k, Cleaned(p), P, svc, users)
           /\ ops[p].at \notin {"hit", "restored"} =>
                 Stored(k, Without(files, {p}), P, svc, users)
<1>1. FilesInv /\ Stored(job, files, ops, svc, users)
  BY DEF StoreInv
<1>2. files \in Ledgers /\ users \in [Paths -> Nat]
  BY <1>1, Fields
<1> DEFINE C == Cleaned(p)
           W == Without(files, {p})
<1>3. /\ C.leases = files.leases /\ C.retired = files.retired /\ C.pins = files.pins
      /\ C.disk = files.disk \ {p} /\ C.markers = files.markers \ {p}
      /\ W.leases = files.leases /\ W.retired = files.retired /\ W.pins = files.pins
      /\ W.disk = files.disk \ {p} /\ W.markers = files.markers
  BY <1>2 DEF Cleaned, Without, Unpinned, Ledgers
<1> HIDE DEF C, W
<1>4. Alone(k) /\ Open(svc, k)
  BY <1>1 DEF Stored, Alone, Open
<1>5. ASSUME NEW q \in Paths \ {p}
      PROVE  /\ Kept(q, k, C, P, svc, users) /\ Pinned(q, k, C, P, users)
             /\ Kept(q, k, W, P, svc, users) /\ Pinned(q, k, W, P, users)
  <2>1. Kept(q, job, files, ops, svc, users) /\ Pinned(q, job, files, ops, users)
    BY <1>1 DEF Stored
  <2>2. q # NoPath /\ q # p
    BY PathsAreNamed
  <2> QED BY <1>3, <2>1, <2>2, ElsewhereKeeps
<1>6. Kept(p, job, files, ops, svc, users) /\ Pinned(p, job, files, ops, users) /\ p # NoPath
  BY <1>1, PathsAreNamed DEF Stored
<1>7. /\ files.leases[p] = 0 /\ users[p] = 0 /\ ops[p].publish = "no"
      /\ p # job.path /\ p # job.download /\ p \notin files.retired
  <2>1. files.leases[p] \in Nat /\ users[p] \in Nat
    BY <1>2 DEF Ledgers
  <2> QED BY <1>6, <2>1 DEF Kept, Held, Restoring
<1>8. Kept(p, k, C, P, svc, users) /\ Pinned(p, k, C, P, users)
  BY <1>3, <1>6, <1>7 DEF Kept, Pinned, Held, Restoring
<1>9. CASE ops[p].at \notin {"hit", "restored"}
  <2>1. p \notin files.markers
    BY <1>6, <1>7, <1>9 DEF Pinned
  <2>2. Kept(p, k, W, P, svc, users) /\ Pinned(p, k, W, P, users)
    BY <1>3, <1>6, <1>7, <2>1 DEF Kept, Pinned, Held, Restoring
  <2> QED BY <1>4, <1>5, <1>8, <2>2 DEF Stored, C, W
<1> QED BY <1>4, <1>5, <1>8, <1>9 DEF Stored, C, W

\* What a restore that ends leaves of the job.
Restored(j, k) ==
    /\ k \in Jobs /\ k.restore = NoPath
    /\ k.bound = j.bound /\ k.want = j.want /\ k.identity = j.identity /\ k.fetched = j.fetched
    /\ k.verified = j.verified /\ k.pending = j.pending /\ k.failing = j.failing
    /\ k.timer = j.timer /\ k.download = j.download
    /\ k.error = j.error /\ k.auto = j.auto /\ k.attempts = j.attempts /\ k.wait = j.wait
    /\ k.retry = j.retry

LEMMA RestoreDoneEffect ==
    ASSUME FilesInv, NEW p \in Paths, RestoreDone(p)
    PROVE  LET O == [ops EXCEPT ![p].at = "none"]
           IN  /\ ops[p].at \in {"restored", "unrestored"} /\ UNCHANGED <<cache, remote, users>>
               /\ O \in Tables /\ Named(O) /\ O[p].at = "none" /\ O[p].id = ops[p].id
               /\ O[p].data = ops[p].data /\ O[p].publish = ops[p].publish
               /\ \A q \in Paths \ {p} : O[q] = ops[q]
               /\ \/ p # job.restore /\ ops' = O /\ files' = Cleaned(p) /\ UNCHANGED <<svc, job>>
                  \/ /\ p = job.restore /\ ops[p].at = "restored" /\ ops' = O /\ UNCHANGED svc
                     /\ Restored(job, job') /\ job'.path = p /\ job'.pathId = job.identity
                     /\ files' = [files EXCEPT !.pins = @ \cup {p}]
                  \/ /\ p = job.restore /\ ops[p].at = "unrestored"
                     /\ \E j \in Jobs : /\ Restored(job, j) /\ j.path = job.path
                                        /\ j.pathId = job.pathId
                                        /\ Advance(j, Without(files, {p}), O)
<1> DEFINE O == [ops EXCEPT ![p].at = "none"]
           j == [job EXCEPT !.restore = NoPath]
           k == [j EXCEPT !.path = p, !.pathId = j.identity, !.published = p]
           m == [j EXCEPT !.missed = TRUE]
           pinned == [files EXCEPT !.pins = @ \cup {p}]
<1>1. /\ ops[p].at \in {"restored", "unrestored"} /\ UNCHANGED <<cache, remote, users>>
      /\ \/ p # job.restore /\ ops' = O /\ files' = Cleaned(p) /\ UNCHANGED <<svc, job>>
         \/ /\ p = job.restore /\ ops[p].at = "restored"
            /\ job' = k /\ files' = pinned /\ ops' = O /\ UNCHANGED svc
         \/ /\ p = job.restore /\ ops[p].at # "restored"
            /\ Advance(m, Without(files, {p}), O)
  BY Zenon DEF RestoreDone
<1>2. O \in Tables /\ Named(O)
  BY Fields, OperationTypes
<1>3. /\ O[p].at = "none" /\ O[p].id = ops[p].id /\ O[p].data = ops[p].data
      /\ O[p].publish = ops[p].publish /\ \A q \in Paths \ {p} : O[q] = ops[q]
  BY Fields DEF Tables, Operations
<1>4. Restored(job, j) /\ j.path = job.path /\ j.pathId = job.pathId
  <2>1. j \in Jobs
    BY Fields, Zenon DEF Jobs
  <2> QED BY <2>1, Fields DEF Jobs, Restored
<1> HIDE DEF O, j
<1>5. /\ Restored(job, k) /\ k.path = p /\ k.pathId = job.identity
      /\ Restored(job, m) /\ m.path = job.path /\ m.pathId = job.pathId
  <2>1. j \in Jobs /\ j.identity \in Identities
    BY <1>4 DEF Jobs, Restored
  <2>2. k \in Jobs /\ m \in Jobs
    BY <2>1, Zenon DEF Jobs
  <2> QED BY <1>4, <2>1, <2>2 DEF Jobs, Restored
<1> HIDE DEF k, m
<1>6. m \in Jobs
  BY <1>5 DEF Restored
<1> QED BY <1>1, <1>2, <1>3, <1>5, <1>6 DEF O

LEMMA RestoreStores ==
    ASSUME StoreInv, NEW p \in Paths, RestoreRuns(p) \/ RestoreReports(p) \/ RestoreDone(p)
    PROVE  Stored(job, files, ops, svc, users)'
<1>0. /\ FilesInv /\ Stored(job, files, ops, svc, users)
      /\ files \in Ledgers /\ ops \in Tables /\ users \in [Paths -> Nat] /\ job \in Jobs
      /\ Kept(p, job, files, ops, svc, users) /\ Pinned(p, job, files, ops, users)
  BY Fields DEF StoreInv, Stored
<1>1. ASSUME NEW G, UNCHANGED <<svc, job, users>>, files' = G,
             G = files \/ (G = [files EXCEPT !.markers = @ \cup {p}] /\ ops'[p].at = "hit"),
             ops[p].at \in Restoring, ops'[p].at \in Restoring,
             ops'[p].publish = ops[p].publish, \A q \in Paths \ {p} : ops'[q] = ops[q],
             ops[p].at \in {"hit", "restored"} => ops'[p].at \in {"hit", "restored"}
      PROVE  Stored(job, files, ops, svc, users)'
  <2>1. /\ G.leases = files.leases /\ G.retired = files.retired /\ G.pins = files.pins
        /\ G.disk = files.disk
        /\ G.markers = files.markers \/ (G.markers = files.markers \cup {p} /\ ops'[p].at = "hit")
    BY <1>0, <1>1 DEF Ledgers
  <2>2. ASSUME NEW q \in Paths \ {p}
        PROVE  Kept(q, job, G, ops', svc, users) /\ Pinned(q, job, G, ops', users)
    <3>1. Kept(q, job, files, ops, svc, users) /\ Pinned(q, job, files, ops, users)
      BY <1>0 DEF Stored
    <3>2. q \in G.markers <=> q \in files.markers
      BY <2>1
    <3> QED BY <1>1, <2>1, <3>1, <3>2, ElsewhereKeeps
  <2>3. Kept(p, job, G, ops', svc, users)
    BY <1>0, <1>1, <2>1 DEF Kept, Held, Restoring
  <2>4. ops[p].publish = "no"
    <3>1. files.leases[p] = 0
      BY <1>0, <1>1 DEF Kept, Restoring, Ledgers
    <3>2. users[p] \in Nat
      BY <1>0
    <3> QED BY <1>0, <3>1, <3>2 DEF Kept, Held
  <2>5. Pinned(p, job, G, ops', users)
    BY <1>0, <1>1, <2>1, <2>4 DEF Pinned
  <2> QED BY <1>0, <1>1, <2>2, <2>3, <2>5 DEF Stored
<1>2. CASE RestoreRuns(p)
  <2>1. /\ \/ ops' = [ops EXCEPT ![p].at = "miss"] /\ files' = files
           \/ /\ ops' = [ops EXCEPT ![p].at = "hit", ![p].data = cache[ops[p].id]]
              /\ files' = [files EXCEPT !.markers = @ \cup {p}]
        /\ UNCHANGED <<svc, job, cache, remote, users>> /\ ops[p].at = "restoring"
    BY <1>2, Zenon DEF RestoreRuns
  <2>2. /\ ops'[p].at \in {"hit", "miss"} /\ ops'[p].publish = ops[p].publish
        /\ \A q \in Paths \ {p} : ops'[q] = ops[q]
        /\ files' = files \/ ops'[p].at = "hit"
    BY <1>0, <2>1 DEF Tables, Operations
  <2> QED BY <1>1, <2>1, <2>2 DEF Restoring
<1>3. CASE RestoreReports(p)
  <2>1. CASE p # job.restore
    <3>1. /\ ops' = [ops EXCEPT ![p].at = "none", ![p].data = 0] /\ files' = Cleaned(p)
          /\ UNCHANGED <<svc, job, users>> /\ ops[p].at \in Restoring
      BY <1>3, <2>1 DEF RestoreReports, Restoring
    <3>2. /\ ops'[p].at = "none" /\ ops'[p].publish = ops[p].publish
          /\ \A q \in Paths \ {p} : ops'[q] = ops[q]
      BY <1>0, <3>1 DEF Tables, Operations
    <3>3. Stored(job, Cleaned(p), ops', svc, users)
      BY <2>1, <3>1, <3>2, CleanedStores
    <3> QED BY <3>1, <3>3
  <2>2. CASE p = job.restore
    <3>1. /\ ops[p].at \in {"hit", "miss"} /\ UNCHANGED <<svc, job, users>> /\ files' = files
          /\ ops' = [ops EXCEPT ![p].at = IF @ = "hit" THEN "restored" ELSE "unrestored"]
      BY <1>3, <2>2 DEF RestoreReports
    <3>2. /\ ops'[p].at = (IF ops[p].at = "hit" THEN "restored" ELSE "unrestored")
          /\ ops'[p].publish = ops[p].publish /\ \A q \in Paths \ {p} : ops'[q] = ops[q]
      BY <1>0, <3>1 DEF Tables, Operations
    <3> QED BY <1>1, <3>1, <3>2 DEF Restoring
  <2> QED BY <2>1, <2>2
<1>4. CASE RestoreDone(p)
  <2> DEFINE O == [ops EXCEPT ![p].at = "none"]
  <2>1. /\ ops[p].at \in {"restored", "unrestored"} /\ UNCHANGED <<cache, remote, users>>
        /\ O \in Tables /\ Named(O) /\ O[p].at = "none" /\ O[p].publish = ops[p].publish
        /\ \A q \in Paths \ {p} : O[q] = ops[q]
        /\ \/ p # job.restore /\ ops' = O /\ files' = Cleaned(p) /\ UNCHANGED <<svc, job>>
           \/ /\ p = job.restore /\ ops[p].at = "restored" /\ ops' = O /\ UNCHANGED svc
              /\ Restored(job, job') /\ job'.path = p
              /\ files' = [files EXCEPT !.pins = @ \cup {p}]
           \/ /\ p = job.restore /\ ops[p].at = "unrestored"
              /\ \E j \in Jobs : /\ Restored(job, j) /\ j.path = job.path
                                 /\ Advance(j, Without(files, {p}), O)
    BY <1>0, <1>4, RestoreDoneEffect
  <2> HIDE DEF O
  <2>2. CASE p # job.restore /\ ops' = O /\ files' = Cleaned(p) /\ UNCHANGED <<svc, job>>
    <3>1. Stored(job, Cleaned(p), O, svc, users)
      BY <2>1, <2>2, CleanedStores DEF Restoring
    <3> QED BY <2>1, <2>2, <3>1
  <2>3. CASE /\ p = job.restore /\ ops[p].at = "restored" /\ ops' = O /\ UNCHANGED svc
             /\ Restored(job, job') /\ job'.path = p
             /\ files' = [files EXCEPT !.pins = @ \cup {p}]
    <3>1. /\ files'.leases = files.leases /\ files'.retired = files.retired
          /\ files'.disk = files.disk /\ files'.markers = files.markers
          /\ files'.pins = files.pins \cup {p}
      BY <1>0, <2>3 DEF Ledgers
    <3>2. /\ job.path = NoPath /\ job.download = NoPath /\ job.bound /\ ~svc.closed
          /\ job'.path = p /\ job'.download = NoPath /\ job'.restore = NoPath /\ job'.bound
      BY <1>0, <2>3, PathsAreNamed DEF Stored, Alone, Open, Restored
    <3>3. ASSUME NEW q \in Paths \ {p}
          PROVE  Kept(q, job', files', O, svc, users) /\ Pinned(q, job', files', O, users)
      <4>1. Kept(q, job, files, ops, svc, users) /\ Pinned(q, job, files, ops, users)
        BY <1>0 DEF Stored
      <4>2. q # NoPath /\ q # p /\ (q \in files'.pins <=> q \in files.pins)
        BY <3>1, PathsAreNamed
      <4>3. /\ files'.leases[q] = files.leases[q] /\ (q \in files'.disk <=> q \in files.disk)
            /\ (q \in files'.retired <=> q \in files.retired)
            /\ (q \in files'.markers <=> q \in files.markers) /\ O[q] = ops[q]
        BY <2>1, <3>1
      <4>4. /\ (q = job'.path <=> q = job.path) /\ (q = job'.download <=> q = job.download)
            /\ (q = job'.restore <=> q = job.restore)
        BY <2>3, <3>2, <4>2
      <4> QED BY <4>1, <4>2, <4>3, <4>4, ElsewhereKeeps
    <3>4. Kept(p, job', files', O, svc, users) /\ Pinned(p, job', files', O, users)
      <4>1. files.leases[p] = 0 /\ users[p] = 0 /\ ops[p].publish = "no" /\ p \notin files.retired
        <5>1. files.leases[p] \in Nat /\ users[p] \in Nat
          BY <1>0 DEF Ledgers
        <5> QED BY <1>0, <2>3, <5>1 DEF Kept, Held
      <4> QED BY <1>0, <2>1, <2>3, <3>1, <3>2, <4>1, PathsAreNamed
              DEF Kept, Pinned, Held, Roles
    <3> QED BY <2>1, <2>3, <3>2, <3>3, <3>4 DEF Stored, Alone, Open
  <2>4. ASSUME NEW j \in Jobs, Restored(job, j), j.path = job.path, p = job.restore,
               ops[p].at = "unrestored", Advance(j, Without(files, {p}), O)
        PROVE  Stored(job, files, ops, svc, users)'
    <3>1. Stored(j, Without(files, {p}), O, svc, users)
      BY <2>1, <2>4, CleanedStores DEF Restoring, Restored
    <3>2. Proven(j) /\ Without(files, {p}) \in Ledgers
      BY <1>0, <2>4, Fields, WithoutTypes DEF Restored, Proven
    <3> QED BY <1>0, <2>1, <2>4, <3>1, <3>2, AdvanceStores
  <2> QED BY <2>1, <2>2, <2>3, <2>4
<1> QED BY <1>2, <1>3, <1>4

LEMMA PublisherEffect ==
    ASSUME FilesInv, NEW p \in Paths, PublishRuns(p) \/ CacheWritten(p)
    PROVE  /\ UNCHANGED <<svc, job, remote, users>> /\ ops' \in Tables
           /\ ops'[p].at = ops[p].at /\ ops'[p].id = ops[p].id /\ ops'[p].data = ops[p].data
           /\ \A q \in Paths \ {p} : ops'[q] = ops[q]
           /\ \/ /\ ops[p].publish = "linking" /\ ops'[p].publish = "pinned"
                 /\ files' = [files EXCEPT !.markers = @ \cup {p}]
                 /\ cache' = [cache EXCEPT ![ops[p].id] = ops[p].data]
              \/ /\ ops[p].publish = "linking" /\ ops'[p].publish = "failed"
                 /\ UNCHANGED <<files, cache>>
              \/ /\ ops[p].publish \in {"pinned", "failed"} /\ ops'[p].publish = "no"
                 /\ UNCHANGED cache
                 /\ LET F == IF ops[p].publish = "failed" THEN files
                             ELSE IF p = job.path \/ files.leases[p] > 1
                             THEN [files EXCEPT !.pins = @ \cup {p}]
                             ELSE Unpinned(files, p)
                    IN  files' = Released(F, p, job.path)
<1>1. ops \in Tables /\ Named(ops)
  BY Fields
<1>2. ASSUME NEW publish \in {"no", "pinned", "failed"}, ops' = [ops EXCEPT ![p].publish = publish]
      PROVE  /\ ops' \in Tables /\ ops'[p].publish = publish
             /\ ops'[p].at = ops[p].at /\ ops'[p].id = ops[p].id /\ ops'[p].data = ops[p].data
             /\ \A q \in Paths \ {p} : ops'[q] = ops[q]
  <2>1. ops' \in Tables
    BY <1>1, <1>2, PublicationTypes
  <2> QED BY <1>1, <1>2, <2>1 DEF Tables, Operations
<1>3. CASE PublishRuns(p)
  <2>1. /\ ops[p].publish = "linking" /\ UNCHANGED <<svc, job, remote, users>>
        /\ \/ /\ cache' = [cache EXCEPT ![ops[p].id] = ops[p].data]
              /\ files' = [files EXCEPT !.markers = @ \cup {p}]
              /\ ops' = [ops EXCEPT ![p].publish = "pinned"]
           \/ ops' = [ops EXCEPT ![p].publish = "failed"] /\ UNCHANGED <<cache, files>>
    BY <1>3, Zenon DEF PublishRuns
  <2> QED BY <1>2, <2>1
<1>4. CASE CacheWritten(p)
  <2> DEFINE F == IF ops[p].publish = "failed" THEN files
                  ELSE IF p = job.path \/ files.leases[p] > 1
                  THEN [files EXCEPT !.pins = @ \cup {p}]
                  ELSE Unpinned(files, p)
  <2>1. /\ ops[p].publish \in {"pinned", "failed"} /\ UNCHANGED <<svc, job, cache, remote, users>>
        /\ ops' = [ops EXCEPT ![p].publish = "no"]
        /\ files' = Released(F, p, job.path)
    BY <1>4, Zenon DEF CacheWritten
  <2> HIDE DEF F
  <2>2. /\ ops' \in Tables /\ ops'[p].publish = "no"
        /\ ops'[p].at = ops[p].at /\ ops'[p].id = ops[p].id /\ ops'[p].data = ops[p].data
        /\ \A q \in Paths \ {p} : ops'[q] = ops[q]
    BY <1>2, <2>1
  <2> QED BY <2>1, <2>2 DEF F
<1> QED BY <1>3, <1>4

LEMMA PublisherStores ==
    ASSUME StoreInv, NEW p \in Paths, PublishRuns(p) \/ CacheWritten(p)
    PROVE  Stored(job, files, ops, svc, users)'
<1>0. /\ FilesInv /\ Stored(job, files, ops, svc, users)
      /\ files \in Ledgers /\ ops \in Tables /\ users \in [Paths -> Nat] /\ job \in Jobs
      /\ Kept(p, job, files, ops, svc, users) /\ Pinned(p, job, files, ops, users)
  BY Fields DEF StoreInv, Stored
<1>1. /\ UNCHANGED <<svc, job, users>> /\ ops' \in Tables /\ ops'[p].at = ops[p].at
      /\ \A q \in Paths \ {p} : ops'[q] = ops[q]
  BY <1>0, PublisherEffect
<1>2. ops[p].publish # "no" => /\ files.leases[p] = users[p] + 1 /\ files.leases[p] > 0
                               /\ p \in files.disk /\ ops[p].at = "none" /\ p < svc.next
                               /\ p \in files.retired <=> p # job.path
                               /\ p # job.download /\ p # job.restore
  <2>1. users[p] \in Nat
    BY <1>0
  <2> QED BY <1>0, <2>1 DEF Kept, Held, Restoring
<1>3. CASE ops[p].publish = "linking" /\ ops'[p].publish \in {"pinned", "failed"}
           /\ \/ files' = files /\ ops'[p].publish = "failed"
              \/ files' = [files EXCEPT !.markers = @ \cup {p}] /\ ops'[p].publish = "pinned"
  <2>1. /\ files'.leases = files.leases /\ files'.retired = files.retired
        /\ files'.pins = files.pins /\ files'.disk = files.disk
        /\ \/ files'.markers = files.markers /\ ops'[p].publish = "failed"
           \/ files'.markers = files.markers \cup {p} /\ ops'[p].publish = "pinned"
    BY <1>0, <1>3 DEF Ledgers
  <2>2. ASSUME NEW q \in Paths \ {p}
        PROVE  Kept(q, job, files', ops', svc, users) /\ Pinned(q, job, files', ops', users)
    <3>1. Kept(q, job, files, ops, svc, users) /\ Pinned(q, job, files, ops, users)
      BY <1>0 DEF Stored
    <3>2. q \in files'.markers <=> q \in files.markers
      BY <2>1
    <3> QED BY <1>1, <2>1, <3>1, <3>2, ElsewhereKeeps
  <2>3. Kept(p, job, files', ops', svc, users)
    BY <1>0, <1>1, <1>3, <2>1 DEF Kept, Held
  <2>4. p \notin files.markers
    BY <1>0, <1>3 DEF Pinned
  <2>6. Pinned(p, job, files', ops', users)
    BY <1>0, <1>1, <1>3, <2>1, <2>4 DEF Pinned
  <2> QED BY <1>0, <1>1, <2>2, <2>3, <2>6 DEF Stored
<1>4. ASSUME ops[p].publish \in {"pinned", "failed"}, ops'[p].publish = "no", NEW F \in Ledgers,
             files' = Released(F, p, job.path), F.leases = files.leases,
             F.retired = files.retired, F.disk = files.disk,
             \A q \in Paths \ {p} : /\ (q \in F.pins <=> q \in files.pins)
                                    /\ (q \in F.markers <=> q \in files.markers),
             p \in F.markers => p \in F.pins
      PROVE  Stored(job, files, ops, svc, users)'
  <2>1. ASSUME NEW q \in Paths \ {p}
        PROVE  Kept(q, job, F, ops', svc, users) /\ Pinned(q, job, F, ops', users)
    <3>1. Kept(q, job, files, ops, svc, users) /\ Pinned(q, job, files, ops, users)
      BY <1>0 DEF Stored
    <3> QED BY <1>1, <1>4, <3>1, ElsewhereKeeps
  <2>2. F.leases[p] = users[p] + Held(ops'[p]) + 1
    <3>1. users[p] \in Nat
      BY <1>0
    <3> QED BY <1>2, <1>4, <3>1 DEF Held
  <2>3. Stored(job, Released(F, p, job.path), ops', svc, users)
    <3>1. Alone(job) /\ Open(svc, job)
      BY <1>0 DEF Stored
    <3> QED BY <1>0, <1>1, <1>2, <1>4, <2>1, <2>2, <3>1, ReleasedKeeps
  <2> QED BY <1>1, <1>4, <2>3
<1>5. CASE /\ ops[p].publish \in {"pinned", "failed"} /\ ops'[p].publish = "no"
           /\ LET F == IF ops[p].publish = "failed" THEN files
                       ELSE IF p = job.path \/ files.leases[p] > 1
                       THEN [files EXCEPT !.pins = @ \cup {p}]
                       ELSE Unpinned(files, p)
              IN  files' = Released(F, p, job.path)
  <2> DEFINE G == [files EXCEPT !.pins = @ \cup {p}]
             H == Unpinned(files, p)
  <2>1. /\ G \in Ledgers /\ G.leases = files.leases /\ G.retired = files.retired
        /\ G.disk = files.disk /\ G.markers = files.markers /\ G.pins = files.pins \cup {p}
        /\ H \in Ledgers /\ H.leases = files.leases /\ H.retired = files.retired
        /\ H.disk = files.disk /\ H.markers = files.markers \ {p} /\ H.pins = files.pins
    BY <1>0 DEF Unpinned, Ledgers
  <2>2. /\ ops[p].publish \in {"pinned", "failed"} /\ ops'[p].publish = "no"
        /\ \/ ops[p].publish = "failed" /\ files' = Released(files, p, job.path)
           \/ files' = Released(G, p, job.path)
           \/ files' = Released(H, p, job.path)
    BY <1>5
  <2> HIDE DEF G, H
  <2>3. CASE files' = Released(G, p, job.path)
    <3>1. \A q \in Paths \ {p} : /\ (q \in G.pins <=> q \in files.pins)
                                 /\ (q \in G.markers <=> q \in files.markers)
      BY <2>1
    <3> QED BY <1>4, <2>1, <2>2, <2>3, <3>1
  <2>4. CASE files' = Released(H, p, job.path)
    <3>1. \A q \in Paths \ {p} : /\ (q \in H.pins <=> q \in files.pins)
                                 /\ (q \in H.markers <=> q \in files.markers)
      BY <2>1
    <3> QED BY <1>4, <2>1, <2>2, <2>4, <3>1
  <2>5. CASE ops[p].publish = "failed" /\ files' = Released(files, p, job.path)
    <3>1. p \notin files.markers
      BY <1>0, <2>5 DEF Pinned
    <3> QED BY <1>0, <1>4, <2>2, <2>5, <3>1
  <2> QED BY <2>2, <2>3, <2>4, <2>5
<1> QED BY <1>0, <1>3, <1>5, PublisherEffect

LEMMA StartsStored == Init => Stored(job, files, ops, svc, users)
<1> SUFFICES ASSUME Init PROVE Stored(job, files, ops, svc, users)
  OBVIOUS
<1>1. /\ job.path = NoPath /\ job.download = NoPath /\ job.restore = NoPath /\ ~svc.closed
  BY DEF Init, NewJob
<1>2. ASSUME NEW q \in Paths
      PROVE  Kept(q, job, files, ops, svc, users) /\ Pinned(q, job, files, ops, users)
  <2>1. /\ files.leases[q] = 0 /\ users[q] = 0 /\ q \notin files.retired /\ q \notin files.disk
        /\ q \notin files.markers /\ ops[q].at = "none" /\ ops[q].publish = "no"
    BY DEF Init, NoOperation
  <2> QED BY <1>1, <2>1, PathsAreNamed DEF Kept, Pinned, Held
<1> QED BY <1>1, <1>2 DEF Stored, Alone, Open

LEMMA StepsStore == StoreInv /\ [Next]_vars => StoreInv'
<1> SUFFICES ASSUME StoreInv, [Next]_vars PROVE StoreInv'
  OBVIOUS
<1>0. FilesInv'
  BY StepsKeepTypes DEF StoreInv
<1>1. CASE Owner
  BY <1>0, <1>1, OwnerStores DEF Owner, StoreInv
<1>2. CASE Leases
  BY <1>0, <1>2, LeasesStore DEF Leases, StoreInv
<1>3. CASE Answers
  BY <1>0, <1>3, ReplyStores, TimersStore DEF Answers, StoreInv
<1>4. CASE DrainFails
  BY <1>0, <1>4, DrainStores DEF StoreInv
<1>5. CASE Threads
  BY <1>0, <1>5, WriterStores, RestoreStores, PublisherStores DEF Threads, StoreInv
<1>6. CASE Outside \/ UNCHANGED vars
  <2>1. UNCHANGED <<svc, job, files, ops, users>>
    BY <1>6 DEF Outside, Overwrite, Evict, vars
  <2>2. Stored(job, files, ops, svc, users)
    BY DEF StoreInv
  <2>3. Stored(job, files, ops, svc, users)'
    BY <2>1, <2>2
  <2> QED BY <1>0, <2>3 DEF StoreInv
<1> QED BY <1>1, <1>2, <1>3, <1>4, <1>5, <1>6 DEF Next

LEMMA StoreInvariant == Spec => []StoreInv
<1>1. Init => StoreInv
  BY StartsTyped, StartsStored DEF StoreInv
<1> QED BY <1>1, StepsStore, PTL DEF Spec

LEMMA PathFacts ==
    ASSUME StoreInv, NEW p \in Paths
    PROVE  /\ Kept(p, job, files, ops, svc, users) /\ Pinned(p, job, files, ops, users)
           /\ files.leases[p] \in Nat /\ users[p] \in Nat /\ p # NoPath
           /\ (files.leases[p] > 0 <=> users[p] > 0 \/ ops[p].publish # "no")
<1>1. files.leases[p] \in Nat /\ users[p] \in Nat /\ p # NoPath
  BY Fields, PathsAreNamed DEF StoreInv, Ledgers
<1>2. Kept(p, job, files, ops, svc, users) /\ Pinned(p, job, files, ops, users)
  BY DEF StoreInv, Stored
<1> QED BY <1>1, <1>2 DEF Kept, Held

\* A file somebody uses is there, whatever was retired, released, bound anew or
\* closed since, in any order (_retire, _release and close of RemoteFileService).
THEOREM LeasedFilesAlwaysStay == Spec => []LeasedFilesStay
<1>1. StoreInv => LeasedFilesStay
  <2>1. ASSUME StoreInv, NEW p \in Paths, p = job.path \/ users[p] > 0 \/ ops[p].publish # "no"
        PROVE  p \in files.disk
    BY <2>1, PathFacts DEF Kept
  <2> QED BY <2>1 DEF LeasedFilesStay
<1> QED BY <1>1, StoreInvariant, PTL

\* No working directory and no pin of the shared cache outlives its use, but for
\* those a thread is still to delete or drop (_release, _on_restore_done and
\* _on_cache_written of RemoteFileService).
THEOREM NothingIsEverLeftBehind == Spec => []NothingLeftBehind
<1>1. StoreInv => NothingLeftBehind
  <2>1. ASSUME StoreInv, NEW p \in files.disk
        PROVE  \/ p \in {job.path, job.download, job.restore}
               \/ users[p] > 0 \/ ops[p].publish # "no"
               \/ ops[p].at \in {"restoring", "hit", "miss", "restored", "unrestored"}
    <3>1. p \in Paths
      BY <2>1, Fields DEF StoreInv, Ledgers
    <3> QED BY <2>1, <3>1, PathFacts DEF Kept, Roles, Restoring
  <2>2. ASSUME StoreInv, NEW p \in files.markers
        PROVE  \/ p \in files.pins /\ (p = job.path \/ users[p] > 0)
               \/ ops[p].publish = "pinned"
               \/ ops[p].at \in {"hit", "restored"}
    <3>1. p \in Paths
      BY <2>2, Fields DEF StoreInv, Ledgers
    <3> QED BY <2>2, <3>1, PathFacts DEF Pinned
  <2> QED BY <2>1, <2>2 DEF NothingLeftBehind
<1> QED BY <1>1, StoreInvariant, PTL

-----------------------------------------------------------------------------
(* What keeps a wanted file underway: every handler that may leave it at   *)
(* rest ends in _advance(), _fail() or an armed timer.                     *)

Urgent(j) ==
    /\ j.fetched => j.pending = 0 /\ ~j.failing /\ j.identity # Unknown
    /\ j.pending # 0 => j.bound
    /\ j.error \/ j.download # NoPath => j.want
    /\ j.auto => j.attempts <= 2

Moving(j) == \/ j.path # NoPath \/ j.download # NoPath \/ j.restore # NoPath
             \/ j.pending # 0 \/ j.error
Retried(j) == j.error /\ j.auto => j.retry
Renewed(j) == j.failing => j.pending # 0 \/ j.timer

\* What of a job the metadata lane leaves as it was.
Calm(j, k) ==
    /\ Like(j, k) /\ k \in Jobs
    /\ k.failing = j.failing /\ k.backoff = j.backoff /\ k.error = j.error
    /\ k.auto = j.auto /\ k.attempts = j.attempts /\ k.wait = j.wait /\ k.retry = j.retry

\* Asked where it may be, else with a timer armed: the lane is alive.
LEMMA LaneEffect ==
    ASSUME FilesInv, NEW j \in Jobs, Proven(j), Urgent(j), j.bound => ~svc.closed
    PROVE  LET a == MetadataAsked(j)
               k == TimerArmed(a)
           IN  /\ Calm(j, a) /\ Calm(j, k) /\ Urgent(a) /\ Urgent(k)
               /\ Renewed(j) => Renewed(a)
               /\ j.bound /\ j.want => Renewed(k)
               /\ j.bound /\ ~j.fetched /\ j.identity = Unknown => k.pending # 0
<1> DEFINE a == MetadataAsked(j)
           k == TimerArmed(a)
<1>1. remote # 0 /\ remote \in 0..MaxVersion
  BY Fields, BoundsAssumption DEF Versions
<1>2. a \in Jobs /\ Proven(a)
  BY AskedTypes
<1>3. /\ a.timer = j.timer /\ Calm(j, a)
      /\ \/ a.pending = j.pending
            /\ (svc.closed \/ ~j.bound \/ j.pending # 0 \/ j.fetched \/ (j.identity # Unknown /\ j.backoff))
         \/ a.pending = remote /\ ~j.fetched /\ j.bound
  <2>1. CASE \/ svc.closed \/ ~j.bound \/ j.pending # 0 \/ j.fetched
             \/ j.identity # Unknown /\ j.backoff
    <3>1. a = j
      BY <2>1 DEF MetadataAsked
    <3> QED BY <2>1, <3>1 DEF Calm, Like
  <2>2. CASE ~(\/ svc.closed \/ ~j.bound \/ j.pending # 0 \/ j.fetched
               \/ j.identity # Unknown /\ j.backoff)
    <3>1. a = [j EXCEPT !.pending = remote]
      BY <2>2 DEF MetadataAsked
    <3>2. a.timer = j.timer /\ Calm(j, a) /\ a.pending = remote
      BY <1>2, <3>1 DEF Jobs, Calm, Like
    <3> QED BY <2>2, <3>2
  <2> QED BY <2>1, <2>2
<1> HIDE DEF a
<1>4. /\ k \in Jobs /\ Calm(a, k) /\ k.pending = a.pending
      /\ k.timer \/ (k.timer = a.timer /\ ~(/\ a.failing /\ a.want /\ ~a.fetched
                                            /\ a.pending = 0 /\ a.backoff))
  <2> DEFINE armed == [a EXCEPT !.timer = TRUE]
  <2>1. armed \in Jobs
    BY <1>2, Zenon DEF Jobs
  <2>2. Calm(a, armed) /\ armed.pending = a.pending /\ armed.timer
    BY <1>2, <2>1 DEF Jobs, Calm, Like
  <2>3. Calm(a, a)
    BY <1>2 DEF Calm, Like
  <2>4. \/ k = armed
        \/ k = a /\ ~(a.failing /\ a.want /\ ~a.fetched /\ a.pending = 0 /\ a.backoff)
    BY Zenon DEF TimerArmed
  <2> HIDE DEF armed, k
  <2> QED BY <1>2, <2>1, <2>2, <2>3, <2>4
<1> HIDE DEF k
<1>5. Calm(j, k)
  BY <1>3, <1>4 DEF Calm, Like
<1>6. Urgent(a) /\ Urgent(k)
  BY <1>1, <1>3, <1>4, <1>5 DEF Urgent, Calm, Like
<1>7. Renewed(j) => Renewed(a)
  BY <1>1, <1>3 DEF Renewed, Calm
<1>8. j.bound /\ j.want => Renewed(k)
  BY <1>1, <1>3, <1>4, <1>5, <1>6 DEF Renewed, Calm, Like, Urgent
<1>9. j.bound /\ ~j.fetched /\ j.identity = Unknown => k.pending # 0
  BY <1>1, <1>3, <1>4
<1> QED BY <1>3, <1>5, <1>6, <1>7, <1>8, <1>9 DEF a, k

LEMMA UrgedEffect ==
    ASSUME FilesInv, NEW j \in Jobs, Proven(j), Urgent(j), j.bound, ~svc.closed,
           j.want /\ j.error /\ j.auto /\ j.wait => j.retry
    PROVE  LET k == Urged(j)
           IN  /\ k \in Jobs /\ Urgent(k) /\ Like(j, k)
               /\ k.want => /\ Retried(k) /\ Renewed(k)
                            /\ k.error \/ k.identity # Unknown \/ k.pending # 0
<1> DEFINE f == [j EXCEPT !.error = FALSE, !.auto = FALSE, !.retry = FALSE]
           i == IF j.error /\ j.auto /\ j.want /\ ~j.wait THEN f ELSE j
           k == Urged(j)
<1>1. f \in Jobs
  BY Zenon DEF Jobs
<1>2. /\ Like(j, f) /\ Proven(f) /\ ~f.error /\ ~f.auto /\ f.pending = j.pending
      /\ f.failing = j.failing /\ f.timer = j.timer
  BY <1>1 DEF Jobs, Like, Proven
<1> HIDE DEF f
<1>3. /\ i \in Jobs /\ Like(j, i) /\ Proven(i) /\ i.pending = j.pending
      /\ i.failing = j.failing
  BY <1>1, <1>2 DEF Like
<1>4. Urgent(i) /\ (i.want => Retried(i))
  <2>1. CASE j.error /\ j.auto /\ j.want /\ ~j.wait
    BY <1>2, <2>1 DEF Urgent, Retried, Like
  <2>2. CASE ~(j.error /\ j.auto /\ j.want /\ ~j.wait)
    <3>1. j.wait \in BOOLEAN
      BY DEF Jobs
    <3> QED BY <2>2, <3>1 DEF Retried
  <2> QED BY <2>1, <2>2
<1>5. i.bound => ~svc.closed
  OBVIOUS
<1>6. k = IF ~i.fetched /\ i.pending = 0 /\ (i.identity = Unknown \/ i.failing)
          THEN TimerArmed(MetadataAsked(i)) ELSE i
  BY DEF Urged, f
<1> HIDE DEF i, k
<1>7. CASE ~i.fetched /\ i.pending = 0 /\ (i.identity = Unknown \/ i.failing)
  <2>1. k = TimerArmed(MetadataAsked(i))
    BY <1>6, <1>7
  <2>2. /\ Calm(i, k) /\ Urgent(k) /\ (i.bound /\ i.want => Renewed(k))
        /\ i.bound /\ ~i.fetched /\ i.identity = Unknown => k.pending # 0
    BY <1>3, <1>4, <1>5, <2>1, LaneEffect
  <2>3. Like(j, k) /\ k \in Jobs /\ (k.want => Retried(k))
    BY <1>3, <1>4, <2>2 DEF Calm, Like, Retried
  <2> QED BY <1>3, <1>7, <2>2, <2>3 DEF Calm, Like, k
<1>8. CASE ~(~i.fetched /\ i.pending = 0 /\ (i.identity = Unknown \/ i.failing))
  <2>1. k = i
    BY <1>6, <1>8
  <2>2. Renewed(k) /\ (k.identity # Unknown \/ k.pending # 0)
    <3>1. i.failing => ~i.fetched
      BY <1>4 DEF Urgent
    <3>2. i.fetched => i.identity # Unknown
      BY <1>4 DEF Urgent
    <3> QED BY <1>8, <2>1, <3>1, <3>2 DEF Renewed
  <2> QED BY <1>3, <1>4, <2>1, <2>2 DEF k
<1> QED BY <1>7, <1>8

Underway(j) == j.bound /\ j.want => Moving(j) /\ Retried(j) /\ Renewed(j)

LEMMA FailedEffect ==
    ASSUME NEW j \in Jobs, NEW transient \in BOOLEAN, Proven(j), j.want, ~svc.closed,
           j.fetched => j.pending = 0 /\ ~j.failing /\ j.identity # Unknown,
           j.pending # 0 => j.bound
    PROVE  LET k == Failed(j, transient)
           IN  /\ k \in Jobs /\ Like(j, k) /\ Urgent(k) /\ Moving(k) /\ Retried(k)
               /\ Renewed(j) => Renewed(k)
<1> DEFINE n == IF j.attempts < 3 THEN j.attempts + 1 ELSE j.attempts
           auto == transient /\ j.attempts < 2
           retry == j.retry \/ (auto /\ j.want /\ ~svc.closed)
           k == Failed(j, transient)
<1>1. /\ n \in 0..3 /\ auto \in BOOLEAN /\ retry \in BOOLEAN
      /\ auto => n <= 2 /\ retry
  BY DEF Jobs
<1>2. k = [j EXCEPT !.error = TRUE, !.attempts = n, !.wait = TRUE, !.auto = auto, !.retry = retry]
  BY DEF Failed
<1>3. k \in Jobs
  BY FailedTypes
<1>4. Like(j, k)
  BY StaysLike
<1> HIDE DEF n, auto, retry, k
<1>5. /\ k.error /\ k.auto = auto /\ k.retry = retry /\ k.attempts = n
      /\ k.pending = j.pending /\ k.failing = j.failing /\ k.timer = j.timer
  BY <1>2, <1>3 DEF Jobs
<1> QED BY <1>1, <1>3, <1>4, <1>5 DEF k, Like, Urgent, Moving, Retried, Renewed

\* _advance() leaves a wanted file underway, whatever it was before.
LEMMA AdvanceUrges ==
    ASSUME FilesInv, NEW j \in Jobs, Proven(j), NEW F, NEW O, Advance(j, F, O),
           Urgent(j), j.bound => ~svc.closed, j.want /\ j.error /\ j.auto /\ j.wait => j.retry
    PROVE  Urgent(job') /\ Underway(job')
<1> DEFINE k == Urged(j)
           p == svc.next
<1>1. CASE svc.closed \/ ~j.bound
  <2>1. job' = j
    BY <1>1 DEF Advance
  <2> QED BY <1>1, <2>1 DEF Underway
<1>2. CASE ~(svc.closed \/ ~j.bound)
  <2>1. /\ k \in Jobs /\ Urgent(k) /\ Like(j, k)
        /\ k.want => /\ Retried(k) /\ Renewed(k)
                     /\ k.error \/ k.identity # Unknown \/ k.pending # 0
    BY <1>2, UrgedEffect
  <2>2. Proven(k)
    BY <2>1 DEF Like, Proven
  <2>3. \/ ~Wants(k) /\ job' = k
        \/ /\ Wants(k) /\ p <= MaxPath
           /\ job' = [k EXCEPT !.restore = p] \/ job' = [k EXCEPT !.download = p]
        \/ Wants(k) /\ job' = Failed(k, FALSE)
    BY <1>2, Zenon DEF Advance
  <2> HIDE DEF k
  <2>4. CASE ~Wants(k) /\ job' = k
    <3>1. k.path \in {NoPath} \cup Paths
      BY <2>1 DEF Jobs
    <3> QED BY <2>1, <2>4, <3>1 DEF Wants, Underway, Moving
  <2>5. CASE /\ Wants(k) /\ p <= MaxPath
             /\ job' = [k EXCEPT !.restore = p] \/ job' = [k EXCEPT !.download = p]
    <3>1. p \in Paths /\ p # NoPath
      BY <2>5, Fields, BoundsAssumption DEF Services, Paths, NoPath
    <3>2. /\ job'.fetched = k.fetched /\ job'.pending = k.pending /\ job'.failing = k.failing
          /\ job'.identity = k.identity /\ job'.bound = k.bound /\ job'.error = k.error
          /\ job'.want = k.want /\ job'.auto = k.auto /\ job'.attempts = k.attempts
          /\ job'.retry = k.retry /\ job'.timer = k.timer
          /\ job'.restore # NoPath \/ job'.download # NoPath
      BY <2>1, <2>5, <3>1 DEF Jobs
    <3>3. k.want
      BY <2>5 DEF Wants
    <3>4. Urgent(job')
      BY <2>1, <3>2, <3>3 DEF Urgent
    <3>5. Moving(job') /\ Retried(job') /\ Renewed(job')
      BY <2>1, <3>2, <3>3 DEF Moving, Retried, Renewed
    <3> QED BY <3>4, <3>5 DEF Underway
  <2>6. CASE Wants(k) /\ job' = Failed(k, FALSE)
    <3>1. k.want
      BY <2>6 DEF Wants
    <3> QED BY <1>2, <2>1, <2>2, <2>6, <3>1, FailedEffect DEF Underway, Urgent
  <2> QED BY <2>3, <2>4, <2>5, <2>6
<1> QED BY <1>1, <1>2

JobFits == Urgent(job) /\ Underway(job)

LEMMA JobFacts ==
    ASSUME StoreInv, JobFits
    PROVE  /\ FilesInv /\ job \in Jobs /\ Proven(job) /\ Urgent(job) /\ Underway(job)
           /\ job.bound => ~svc.closed
           /\ job.path # NoPath \/ job.download # NoPath \/ job.restore # NoPath => job.bound
BY Fields DEF StoreInv, JobFits, Stored, Open, Alone

LEMMA OwnerUrges ==
    ASSUME StoreInv, JobFits, Bind \/ RequestFile \/ RequestMetadata \/ Close
    PROVE  JobFits'
<1>1. CASE Bind \/ Close
  <2>1. PICK isJob \in BOOLEAN : job' = NewJob(isJob)
    BY <1>1 DEF Bind, Close
  <2>2. Urgent(NewJob(isJob)) /\ ~NewJob(isJob).want
    BY DEF NewJob, Urgent
  <2> QED BY <2>1, <2>2 DEF JobFits, Underway
<1>2. CASE RequestFile
  <2> DEFINE a == Anew(job)
             b == Wanted(job)
  <2>1. a \in Jobs /\ b \in Jobs
    BY JobFacts, WantedTypes, AnewTypes
  <2>2. /\ Proven(a) /\ Urgent(a) /\ a.bound = job.bound /\ ~a.error
        /\ Proven(b) /\ Urgent(b) /\ b.bound = job.bound
        /\ b.want /\ b.error /\ b.auto => b.retry \/ ~job.bound \/ ~job.want
        /\ b.error = job.error
    BY JobFacts DEF Jobs, Proven, Wanted, Anew, Urgent, Underway, Retried
  <2>3. Advance(a, files, ops) \/ Advance(b, files, ops)
    BY <1>2, Zenon DEF RequestFile, Wanted, Anew
  <2>4. job.bound /\ (b.error => job.want)
    BY <1>2, <2>2, JobFacts DEF RequestFile, Urgent
  <2> HIDE DEF a, b
  <2> QED BY <2>1, <2>2, <2>3, <2>4, JobFacts, AdvanceUrges DEF JobFits
<1>3. CASE RequestMetadata
  <2>1. job' = MetadataAsked(job)
    BY <1>3 DEF RequestMetadata
  <2>2. Calm(job, job') /\ Urgent(job') /\ (Renewed(job) => Renewed(job'))
    BY <2>1, JobFacts, LaneEffect
  <2>3. job'.pending = job.pending \/ job'.pending # 0
    BY <2>1, JobFacts DEF MetadataAsked, Jobs
  <2> QED BY <2>2, <2>3, JobFacts DEF JobFits, Underway, Calm, Like, Moving, Retried
<1> QED BY <1>1, <1>2, <1>3

LEMMA ReplyUrges ==
    ASSUME StoreInv, JobFits, MetadataReply PROVE JobFits'
<1>1. PICK j \in Jobs :
         /\ Proven(j) /\ Heard(job, j)
         /\ \/ /\ j.failing /\ j.backoff /\ j.fetched = job.fetched
               /\ j.identity = (IF job.identity = Unknown THEN Listed ELSE job.identity)
               /\ Advance(j, files, ops)
            \/ /\ j.fetched /\ ~j.failing /\ j.identity # Unknown
               /\ Nowhere(j) \in Jobs /\ Proven(Nowhere(j))
               /\ IF Disowned(j)
                  THEN Advance(Nowhere(j), Retired(files, j.path, j.path), ops)
                  ELSE Advance(j, files, ops)
  BY JobFacts, ReplyEffect
<1>2. job.bound /\ ~svc.closed /\ ~job.fetched
  BY JobFacts DEF MetadataReply, Urgent
<1>3. Urgent(j) /\ (j.want /\ j.error /\ j.auto /\ j.wait => j.retry)
  <2>1. job.want /\ job.error /\ job.auto => job.retry
    BY <1>2, JobFacts DEF Underway, Retried
  <2> QED BY <1>1, <1>2, <2>1, JobFacts DEF Urgent, Heard
<1>4. CASE Advance(j, files, ops)
  BY <1>1, <1>2, <1>3, <1>4, JobFacts, AdvanceUrges DEF JobFits
<1>5. CASE /\ Nowhere(j) \in Jobs /\ Proven(Nowhere(j))
           /\ Advance(Nowhere(j), Retired(files, j.path, j.path), ops)
  <2> DEFINE k == Nowhere(j)
  <2>1. /\ k.fetched = j.fetched /\ k.pending = j.pending /\ k.failing = j.failing
        /\ k.identity = j.identity /\ k.bound = j.bound /\ k.error = j.error
        /\ k.want = j.want /\ k.auto = j.auto /\ k.attempts = j.attempts
        /\ k.retry = j.retry /\ k.wait = j.wait /\ k.download = j.download
    BY DEF Nowhere, Jobs
  <2> HIDE DEF k
  <2>2. Urgent(k) /\ (k.want /\ k.error /\ k.auto /\ k.wait => k.retry)
    BY <1>3, <2>1 DEF Urgent
  <2>3. k \in Jobs /\ Proven(k) /\ Advance(k, Retired(files, j.path, j.path), ops)
    BY <1>5 DEF k
  <2> QED BY <1>2, <2>2, <2>3, JobFacts, AdvanceUrges DEF JobFits
<1> QED BY <1>1, <1>4, <1>5

LEMMA TimersUrge ==
    ASSUME StoreInv, JobFits, TimePasses \/ MetadataTimer \/ RetryTimer PROVE JobFits'
<1>1. CASE TimePasses
  <2>1. /\ Like(job, job') /\ job'.pending = job.pending /\ job'.failing = job.failing
        /\ job'.error = job.error /\ job'.auto = job.auto /\ job'.attempts = job.attempts
        /\ job'.retry = job.retry /\ job'.timer = job.timer
    BY <1>1, JobFacts DEF TimePasses, Jobs, Like
  <2> QED BY <2>1, JobFacts DEF JobFits, Urgent, Underway, Moving, Retried, Renewed, Like
<1>2. CASE MetadataTimer
  <2> DEFINE j == [job EXCEPT !.timer = FALSE]
             k == TimerArmed(MetadataAsked(j))
  <2>1. j \in Jobs
    BY JobFacts, Zenon DEF Jobs
  <2>2. /\ Proven(j) /\ Like(job, j) /\ j.pending = job.pending /\ j.failing = job.failing
        /\ j.error = job.error /\ j.auto = job.auto /\ j.attempts = job.attempts
        /\ j.retry = job.retry
    BY JobFacts DEF Jobs, Proven, Like
  <2>3. job' = (IF job.bound /\ job.want THEN k ELSE j)
    BY <1>2 DEF MetadataTimer
  <2> HIDE DEF j
  <2>4. Urgent(j) /\ (j.bound => ~svc.closed)
    BY <2>2, JobFacts DEF Urgent, Like
  <2>5. k.pending # 0 \/ k.pending = j.pending
    <3>1. MetadataAsked(j) \in Jobs /\ k \in Jobs
      BY <2>1, <2>2, JobFacts, AskedTypes
    <3>2. MetadataAsked(j).pending # 0 \/ MetadataAsked(j).pending = j.pending
      BY <2>1 DEF MetadataAsked, Jobs
    <3>3. k.pending = MetadataAsked(j).pending
      BY <3>1 DEF TimerArmed, Jobs
    <3> HIDE DEF k
    <3> QED BY <2>1, <2>2, <2>4, <3>2, <3>3, JobFacts, LaneEffect DEF k
  <2> HIDE DEF k
  <2>6. CASE job.bound /\ job.want
    <3>1. Urgent(k) /\ Renewed(k)
      BY <2>1, <2>2, <2>4, <2>6, JobFacts, LaneEffect DEF Like, k
    <3>2. Moving(k) /\ Retried(k)
      BY <2>1, <2>2, <2>4, <2>5, <2>6, JobFacts, LaneEffect
         DEF Underway, Moving, Retried, Calm, Like, k
    <3> QED BY <2>3, <2>6, <3>1, <3>2 DEF JobFits, Underway
  <2>7. CASE ~(job.bound /\ job.want)
    BY <2>2, <2>3, <2>4, <2>7 DEF JobFits, Underway, Like
  <2> QED BY <2>6, <2>7
<1>3. CASE RetryTimer
  <2> DEFINE j == [job EXCEPT !.retry = FALSE]
  <2>1. j \in Jobs
    BY JobFacts, Zenon DEF Jobs
  <2>2. /\ Proven(j) /\ Like(job, j) /\ j.pending = job.pending /\ j.failing = job.failing
        /\ j.error = job.error /\ j.auto = job.auto /\ j.attempts = job.attempts
        /\ j.wait = job.wait
    BY JobFacts DEF Jobs, Proven, Like
  <2>3. /\ job.retry
        /\ IF job.error /\ job.auto /\ job.want /\ job.wait /\ job.attempts <= 2
           THEN Advance(job, files, ops) ELSE Advance(j, files, ops)
    BY <1>3, Zenon DEF RetryTimer
  <2> HIDE DEF j
  <2>4. Urgent(j) /\ (j.bound => ~svc.closed)
    BY <2>2, JobFacts DEF Urgent, Like
  <2>5. CASE job.error /\ job.auto /\ job.want /\ job.wait /\ job.attempts <= 2
    BY <2>3, <2>5, JobFacts, AdvanceUrges DEF JobFits
  <2>6. CASE ~(job.error /\ job.auto /\ job.want /\ job.wait /\ job.attempts <= 2)
    <3>1. job.auto => job.attempts <= 2
      BY JobFacts DEF Urgent
    <3> QED BY <2>1, <2>2, <2>3, <2>4, <2>6, <3>1, JobFacts, AdvanceUrges DEF JobFits, Like
  <2> QED BY <2>5, <2>6
<1> QED BY <1>1, <1>2, <1>3

\* What ends a download ends in _fail() or with the file.
LEMMA LandedUrges ==
    ASSUME StoreInv, JobFits, NEW j, Landed(job, j), job.download # NoPath
    PROVE  /\ j.want /\ Proven(j) /\ (Renewed(job) => Renewed(j))
           /\ j.error => j.want
           /\ j.fetched => j.pending = 0 /\ ~j.failing /\ j.identity # Unknown
           /\ j.pending # 0 => j.bound
BY JobFacts DEF Landed, Urgent, Renewed, Proven

LEMMA DownloadUrges ==
    ASSUME StoreInv, JobFits, DrainFails \/ \E p \in Paths : WriterDone(p) PROVE JobFits'
<1>1. ASSUME NEW j \in Jobs, NEW transient \in BOOLEAN, Landed(job, j), job.download # NoPath,
             job' = Failed(j, transient)
      PROVE  JobFits'
  <2>1. /\ Proven(j) /\ j.want /\ (Renewed(job) => Renewed(j))
        /\ j.fetched => j.pending = 0 /\ ~j.failing /\ j.identity # Unknown
        /\ j.pending # 0 => j.bound
    BY <1>1, LandedUrges
  <2>2. job.bound /\ ~svc.closed
    BY <1>1, JobFacts
  <2>3. Renewed(j)
    BY <1>1, <2>1, <2>2, JobFacts DEF Underway, Landed
  <2> QED BY <1>1, <2>1, <2>2, <2>3, FailedEffect DEF JobFits, Underway
<1>2. CASE DrainFails
  <2> DEFINE j == [job EXCEPT !.download = NoPath]
  <2>1. j \in Jobs
    BY JobFacts, Zenon DEF Jobs
  <2>2. Landed(job, j)
    BY <2>1, JobFacts DEF Jobs, Landed
  <2>3. job.download # NoPath /\ job' = Failed(j, FALSE)
    BY <1>2 DEF DrainFails
  <2> HIDE DEF j
  <2> QED BY <1>1, <2>1, <2>2, <2>3
<1>3. ASSUME NEW p \in Paths, WriterDone(p) PROVE JobFits'
  <2>1. CASE UNCHANGED job
    BY <2>1, JobFacts DEF JobFits, Urgent, Underway, Moving, Retried, Renewed
  <2>2. CASE /\ p = job.download
             /\ \E j \in Jobs, transient \in BOOLEAN :
                   Landed(job, j) /\ job' = Failed(j, transient)
    BY <1>1, <2>2, PathsAreNamed
  <2>3. CASE /\ p = job.download /\ Landed(job, job') /\ job'.path = p
             /\ job'.error = job.error /\ ~job'.auto
    <3>1. Urgent(job')
      BY <2>3, LandedUrges, PathsAreNamed DEF Urgent, Landed
    <3>2. Moving(job') /\ Retried(job')
      BY <2>3, PathsAreNamed DEF Moving, Retried
    <3>3. job'.bound /\ job'.want => Renewed(job')
      BY <2>3, LandedUrges, JobFacts, PathsAreNamed DEF Landed, Underway
    <3> QED BY <3>1, <3>2, <3>3 DEF JobFits, Underway
  <2> QED BY <1>3, <2>1, <2>2, <2>3, JobFacts, WriterEffect
<1> QED BY <1>2, <1>3

LEMMA RestoreUrges ==
    ASSUME StoreInv, JobFits, NEW p \in Paths, RestoreRuns(p) \/ RestoreReports(p) \/ RestoreDone(p)
    PROVE  JobFits'
<1>1. CASE UNCHANGED job
  BY <1>1, JobFacts DEF JobFits, Urgent, Underway, Moving, Retried, Renewed
<1>2. CASE RestoreDone(p)
  <2> DEFINE O == [ops EXCEPT ![p].at = "none"]
  <2>1. \/ UNCHANGED job
        \/ p = job.restore /\ Restored(job, job') /\ job'.path = p
        \/ /\ p = job.restore
           /\ \E j \in Jobs : Restored(job, j) /\ Advance(j, Without(files, {p}), O)
    BY <1>2, JobFacts, RestoreDoneEffect
  <2> HIDE DEF O
  <2>2. ASSUME NEW j, Restored(job, j), p = job.restore
        PROVE  /\ Urgent(j) /\ Proven(j) /\ j.bound /\ ~svc.closed
               /\ j.want => Retried(j) /\ Renewed(j)
    <3>1. Urgent(j) /\ Proven(j) /\ j.bound /\ ~svc.closed
      BY <2>2, JobFacts, PathsAreNamed DEF Restored, Urgent, Proven
    <3>2. j.want => Retried(j) /\ Renewed(j)
      BY <2>2, <3>1, JobFacts DEF Restored, Underway, Retried, Renewed
    <3> QED BY <3>1, <3>2
  <2>3. CASE p = job.restore /\ Restored(job, job') /\ job'.path = p
    BY <2>2, <2>3, PathsAreNamed DEF JobFits, Underway, Moving
  <2>4. ASSUME NEW j \in Jobs, p = job.restore, Restored(job, j), Advance(j, Without(files, {p}), O)
        PROVE  JobFits'
    BY <2>2, <2>4, JobFacts, AdvanceUrges DEF JobFits, Retried
  <2> QED BY <1>1, <2>1, <2>3, <2>4
<1> QED BY <1>1, <1>2 DEF RestoreRuns, RestoreReports

LEMMA StepsUrge == StoreInv /\ JobFits /\ [Next]_vars => JobFits'
<1> SUFFICES ASSUME StoreInv, JobFits, [Next]_vars PROVE JobFits'
  OBVIOUS
<1>1. CASE UNCHANGED job
  BY <1>1, JobFacts DEF JobFits, Urgent, Underway, Moving, Retried, Renewed
<1>2. CASE Owner
  BY <1>2, OwnerUrges DEF Owner
<1>3. CASE Answers
  BY <1>3, ReplyUrges, TimersUrge DEF Answers
<1>4. CASE DrainFails
  BY <1>4, DownloadUrges
<1>5. CASE Threads
  BY <1>1, <1>5, DownloadUrges, RestoreUrges DEF Threads, PublishRuns, CacheWritten
<1>6. CASE Leases \/ Outside \/ UNCHANGED vars
  BY <1>1, <1>6 DEF Leases, Lease, CloseLease, Outside, Overwrite, Evict, vars
<1> QED BY <1>2, <1>3, <1>4, <1>5, <1>6 DEF Next

ServiceInv == StoreInv /\ JobFits

LEMMA ServiceInvariant == Spec => []ServiceInv
<1>1. Init => ServiceInv
  <2>1. Init => JobFits
    BY DEF Init, NewJob, JobFits, Urgent, Underway
  <2> QED BY <2>1, StartsTyped, StartsStored DEF ServiceInv, StoreInv
<1>2. ServiceInv /\ [Next]_vars => ServiceInv'
  BY StepsStore, StepsUrge DEF ServiceInv
<1> QED BY <1>1, <1>2, PTL DEF Spec

\* A file somebody wanted is there, underway, refused for good, or has a timer
\* that will ask for it again, after any sequence of answers, failures, early
\* timers and requests (_advance, _fail and the timers of RemoteFileService).
THEOREM WantedIsAlwaysUnderway == Spec => []WantedIsUnderway
<1>1. ServiceInv => WantedIsUnderway
  BY DEF ServiceInv, JobFits, Underway, Moving, Retried, Renewed, WantedIsUnderway
<1> QED BY <1>1, ServiceInvariant, PTL

-----------------------------------------------------------------------------
(* What makes a file the one its identity names: a restore knows its       *)
(* version from the start and a download is accepted for one, so only a    *)
(* whole file is published, and the cache holds nothing else.              *)

Whole(p, j, O) ==
    /\ O[p].publish = "linking" => O[p].id \in Versions /\ O[p].data = O[p].id
    /\ O[p].at \in Restoring => O[p].id \in Versions
    /\ O[p].at \in {"hit", "restored"} => O[p].data = O[p].id
    /\ p = j.restore => j.fetched /\ O[p].id = j.identity
    /\ p = j.path /\ j.fetched => /\ j.pathId = j.identity
                                  /\ j.identity \in Versions => O[p].data = j.identity
AllWhole(j, O) == \A q \in Paths : Whole(q, j, O)
Honest(c)      == \A v \in Versions : c[v] \in {0, v}
NamedFiles     == AllWhole(job, ops) /\ Honest(cache)

LEMMA ServiceFacts ==
    ASSUME ServiceInv
    PROVE  /\ StoreInv /\ JobFits /\ FilesInv /\ job \in Jobs /\ Proven(job) /\ ops \in Tables
           /\ Urgent(job) /\ Alone(job)
           /\ job.fetched => job.pending = 0
BY JobFacts, Fields DEF ServiceInv, JobFits, StoreInv, Stored, Urgent

\* A path with an operation is not offered, and not published.
LEMMA BusyFacts ==
    ASSUME ServiceInv, NEW p \in Paths, ops[p].at # "none"
    PROVE  ops[p].publish = "no" /\ p # job.path
<1>1. Kept(p, job, files, ops, svc, users) /\ files.leases[p] \in Nat /\ users[p] \in Nat
  BY PathFacts, ServiceFacts
<1> QED BY <1>1 DEF Kept, Held

LEMMA SameWhole ==
    ASSUME NEW j, NEW k, NEW O, AllWhole(j, O), k.identity = j.identity, k.fetched = j.fetched,
           k.path = j.path, k.pathId = j.pathId, k.restore \in {j.restore, NoPath}
    PROVE  AllWhole(k, O)
BY PathsAreNamed DEF AllWhole, Whole

LEMMA AdvanceWhole ==
    ASSUME FilesInv, NEW j \in Jobs, Proven(j), NEW F \in Ledgers, NEW O \in Tables,
           AllWhole(j, O), Advance(j, F, O)
    PROVE  AllWhole(job, ops)'
<1>1. CASE Like(j, job') /\ ops' = O
  BY <1>1, SameWhole DEF Like
<1>2. ASSUME NEW k \in Jobs, Like(j, k), Wants(k), NEW p \in Paths,
             NEW at \in {"restoring", "writing"}, at = "restoring" => Restorable(k),
             ops' = [O EXCEPT ![p] = Started(at, k)],
             job' = IF at = "restoring" THEN [k EXCEPT !.restore = p] ELSE [k EXCEPT !.download = p]
      PROVE  AllWhole(job, ops)'
  <2>1. /\ job'.path = NoPath /\ job'.identity = k.identity /\ job'.fetched = k.fetched
        /\ job'.restore = (IF at = "restoring" THEN p ELSE NoPath)
    BY <1>2 DEF Jobs, Wants
  <2>2. /\ \A q \in Paths \ {p} : ops'[q] = O[q]
        /\ ops'[p].at = at /\ ops'[p].publish = "no"
        /\ ops'[p].id = (IF k.fetched THEN k.identity ELSE Unknown)
    BY <1>2 DEF Tables, Started, NoOperation
  <2>3. at = "restoring" => k.fetched /\ k.identity \in Versions
    BY <1>2 DEF Restorable, Like, Proven
  <2>4. ASSUME NEW q \in Paths \ {p} PROVE Whole(q, job', ops')
    <3>1. Whole(q, j, O)
      BY DEF AllWhole
    <3> QED BY <2>1, <2>2, <3>1, PathsAreNamed DEF Whole
  <2>5. Whole(p, job', ops')
    BY <2>1, <2>2, <2>3, PathsAreNamed DEF Whole, Restoring
  <2> QED BY <2>4, <2>5 DEF AllWhole
<1>3. Urged(j) \in Jobs /\ Like(j, Urged(j))
  BY UrgedTypes, UrgedLike
<1> QED BY <1>1, <1>2, <1>3, AdvanceEffect

LEMMA OwnerNames ==
    ASSUME ServiceInv, NamedFiles, Bind \/ RequestFile \/ RequestMetadata \/ Close
    PROVE  NamedFiles'
<1>1. Honest(cache)'
  BY DEF NamedFiles, Bind, RequestFile, RequestMetadata, Close, Honest
<1>2. CASE Bind \/ Close
  <2>1. PICK isJob \in BOOLEAN : job' = NewJob(isJob)
    BY <1>2 DEF Bind, Close
  <2>2. job'.path = NoPath /\ job'.restore = NoPath /\ ops' = ops
    BY <1>2, <2>1 DEF NewJob, Bind, Close
  <2> QED BY <1>1, <2>2, PathsAreNamed DEF NamedFiles, AllWhole, Whole
<1>3. CASE RequestFile
  <2> DEFINE a == Anew(job)
             b == Wanted(job)
  <2>1. a \in Jobs /\ b \in Jobs
    BY ServiceFacts, WantedTypes, AnewTypes
  <2>2. /\ Proven(a) /\ a.identity = job.identity /\ a.fetched = job.fetched
        /\ a.path = job.path /\ a.pathId = job.pathId /\ a.restore = job.restore
        /\ Proven(b) /\ b.identity = job.identity /\ b.fetched = job.fetched
        /\ b.path = job.path /\ b.pathId = job.pathId /\ b.restore = job.restore
    BY ServiceFacts DEF Jobs, Proven, Wanted, Anew
  <2>3. Advance(a, files, ops) \/ Advance(b, files, ops)
    BY <1>3, Zenon DEF RequestFile, Wanted, Anew
  <2> HIDE DEF a, b
  <2>4. AllWhole(a, ops) /\ AllWhole(b, ops)
    BY <2>2, SameWhole DEF NamedFiles
  <2> QED BY <1>1, <2>1, <2>2, <2>3, <2>4, ServiceFacts, Fields, AdvanceWhole DEF NamedFiles
<1>4. CASE RequestMetadata
  <2>1. Like(job, job') /\ ops' = ops
    BY <1>4, ServiceFacts, StaysLike DEF RequestMetadata
  <2> QED BY <1>1, <2>1, SameWhole DEF NamedFiles, Like
<1> QED BY <1>2, <1>3, <1>4

LEMMA ReplyNames ==
    ASSUME ServiceInv, NamedFiles, MetadataReply PROVE NamedFiles'
<1>1. PICK j \in Jobs :
         /\ Proven(j) /\ Heard(job, j)
         /\ \/ /\ j.failing /\ j.backoff /\ j.fetched = job.fetched
               /\ j.identity = (IF job.identity = Unknown THEN Listed ELSE job.identity)
               /\ Advance(j, files, ops)
            \/ /\ j.fetched /\ ~j.failing /\ j.identity # Unknown
               /\ Nowhere(j) \in Jobs /\ Proven(Nowhere(j))
               /\ IF Disowned(j)
                  THEN Advance(Nowhere(j), Retired(files, j.path, j.path), ops)
                  ELSE Advance(j, files, ops)
  BY ServiceFacts, ReplyEffect
<1>2. Honest(cache)'
  BY DEF NamedFiles, MetadataReply
<1>3. ~job.fetched /\ job.restore \notin Paths
  <2>1. ~job.fetched
    BY ServiceFacts DEF MetadataReply
  <2> QED BY <2>1 DEF NamedFiles, AllWhole, Whole
<1>4. ASSUME NEW k, k.restore = job.restore,
             k.path = NoPath \/ ~k.fetched \/ (~Disowned(k) /\ k.path = job.path)
      PROVE  AllWhole(k, ops)
  <2>1. ASSUME NEW q \in Paths PROVE Whole(q, k, ops)
    <3>1. Whole(q, job, ops) /\ q # k.restore
      BY <1>3, <1>4 DEF NamedFiles, AllWhole
    <3>2. CASE q = k.path /\ k.fetched
      BY <1>4, <3>1, <3>2, PathsAreNamed DEF Whole, Disowned
    <3>3. CASE ~(q = k.path /\ k.fetched)
      BY <3>1, <3>3 DEF Whole
    <3> QED BY <3>2, <3>3
  <2> QED BY <2>1 DEF AllWhole
<1>5. CASE Advance(j, files, ops) /\ (~Disowned(j) \/ ~j.fetched)
  <2>1. AllWhole(j, ops)
    BY <1>1, <1>4, <1>5 DEF Heard
  <2> QED BY <1>1, <1>2, <1>5, <2>1, ServiceFacts, Fields, AdvanceWhole DEF NamedFiles
<1>6. CASE /\ Nowhere(j) \in Jobs /\ Proven(Nowhere(j)) /\ Disowned(j)
           /\ Advance(Nowhere(j), Retired(files, j.path, j.path), ops)
  <2> DEFINE k == Nowhere(j)
             F == Retired(files, j.path, j.path)
  <2>1. k.path = NoPath /\ k.restore = job.restore /\ j.path \in Paths
    BY <1>1, <1>6 DEF Nowhere, Jobs, Heard, Disowned
  <2> HIDE DEF k, F
  <2>2. AllWhole(k, ops)
    BY <1>4, <2>1
  <2>3. F \in Ledgers
    BY <2>1, ServiceFacts, Fields, RetiredTypes DEF F
  <2>4. k \in Jobs /\ Proven(k) /\ Advance(k, F, ops)
    BY <1>6 DEF k, F
  <2> QED BY <1>2, <2>2, <2>3, <2>4, ServiceFacts, Fields, AdvanceWhole DEF NamedFiles
<1> QED BY <1>1, <1>3, <1>5, <1>6

LEMMA TimersName ==
    ASSUME ServiceInv, NamedFiles, TimePasses \/ MetadataTimer \/ RetryTimer PROVE NamedFiles'
<1>1. Honest(cache)'
  BY DEF NamedFiles, TimePasses, MetadataTimer, RetryTimer
<1>2. CASE TimePasses
  <2>1. Like(job, job') /\ ops' = ops
    BY <1>2, ServiceFacts DEF TimePasses, Jobs, Like
  <2> QED BY <1>1, <2>1, SameWhole DEF NamedFiles, Like
<1>3. CASE MetadataTimer
  <2> DEFINE j == [job EXCEPT !.timer = FALSE]
  <2>1. j \in Jobs
    BY ServiceFacts, Zenon DEF Jobs
  <2>2. Proven(j) /\ Like(job, j)
    BY ServiceFacts DEF Jobs, Proven, Like
  <2>3. job' = TimerArmed(MetadataAsked(j)) \/ job' = j
    BY <1>3 DEF MetadataTimer
  <2> HIDE DEF j
  <2>4. MetadataAsked(j) \in Jobs
    BY <2>1, <2>2, ServiceFacts, AskedTypes
  <2>5. Like(job, job')
    BY <2>1, <2>2, <2>3, <2>4, StaysLike DEF Like
  <2>6. ops' = ops
    BY <1>3 DEF MetadataTimer
  <2> QED BY <1>1, <2>5, <2>6, SameWhole DEF NamedFiles, Like
<1>4. CASE RetryTimer
  <2> DEFINE j == [job EXCEPT !.retry = FALSE]
  <2>1. j \in Jobs
    BY ServiceFacts, Zenon DEF Jobs
  <2>2. Proven(j) /\ Like(job, j)
    BY ServiceFacts DEF Jobs, Proven, Like
  <2>3. Advance(job, files, ops) \/ Advance(j, files, ops)
    BY <1>4, Zenon DEF RetryTimer
  <2> HIDE DEF j
  <2>4. AllWhole(j, ops)
    BY <2>2, SameWhole DEF NamedFiles, Like
  <2> QED BY <1>1, <2>1, <2>2, <2>3, <2>4, ServiceFacts, Fields, AdvanceWhole DEF NamedFiles
<1> QED BY <1>2, <1>3, <1>4

LEMMA DrainNames ==
    ASSUME ServiceInv, NamedFiles, DrainFails PROVE NamedFiles'
<1> DEFINE j == [job EXCEPT !.download = NoPath]
<1>1. j \in Jobs
  BY ServiceFacts, Zenon DEF Jobs
<1>2. /\ j.identity = job.identity /\ j.fetched = job.fetched
      /\ j.path = job.path /\ j.pathId = job.pathId /\ j.restore = job.restore
  BY ServiceFacts DEF Jobs
<1>3. job' = Failed(j, FALSE) /\ ops' = ops /\ cache' = cache
  BY DEF DrainFails
<1> HIDE DEF j
<1>4. Like(j, job')
  BY <1>1, <1>3, StaysLike
<1> QED BY <1>2, <1>3, <1>4, SameWhole DEF NamedFiles, Like, Honest

\* A file is accepted for the version it holds, and only such a one is published.
LEMMA WriterNames ==
    ASSUME ServiceInv, NamedFiles, NEW p \in Paths, WriterDone(p) PROVE NamedFiles'
<1>1. /\ ops[p].at = "writing" /\ cache' = cache /\ ops' \in Tables
      /\ ops'[p].at = "none" /\ ops'[p].id = ops[p].id
      /\ \A q \in Paths \ {p} : ops'[q] = ops[q]
  BY ServiceFacts, WriterEffect
<1>2. ops[p].publish = "no" /\ p # job.path
  BY <1>1, BusyFacts
<1>3. p # job.restore
  <2>1. Kept(p, job, files, ops, svc, users)
    BY ServiceFacts, PathFacts
  <2> QED BY <1>1, <2>1 DEF Kept, Restoring
<1>4. ASSUME NEW k, k.restore = job.restore, k.identity = job.identity, k.fetched = job.fetched,
             k.path = p \/ (k.path = job.path /\ k.pathId = job.pathId), Whole(p, k, ops')
      PROVE  AllWhole(k, ops')
  <2>1. ASSUME NEW q \in Paths \ {p} PROVE Whole(q, k, ops')
    <3>1. Whole(q, job, ops)
      BY DEF NamedFiles, AllWhole
    <3> QED BY <1>1, <1>4, <3>1 DEF Whole
  <2> QED BY <1>4, <2>1 DEF AllWhole
<1>5. CASE /\ ops'[p].publish = ops[p].publish /\ job'.restore = job.restore
           /\ job'.identity = job.identity /\ job'.fetched = job.fetched
           /\ job'.path = job.path /\ job'.pathId = job.pathId
  <2>1. Whole(p, job', ops')
    BY <1>1, <1>2, <1>3, <1>5 DEF Whole, Restoring
  <2> QED BY <1>1, <1>4, <1>5, <2>1 DEF NamedFiles
<1>6. CASE /\ p = job.download /\ Landed(job, job') /\ job'.path = p /\ job'.pathId = ops[p].id
           /\ Accepted(ops[p], ops'[p].data)
           /\ \/ ops'[p].publish = ops[p].publish
              \/ ops'[p].publish = "linking" /\ job.verified /\ job.identity \in Versions
  <2>1. job.fetched => ops[p].id = job.identity
    BY <1>6 DEF Accepted
  <2>2. ops[p].id \in Versions => ops'[p].data = ops[p].id
    BY <1>6 DEF Accepted
  <2>3. job.verified => job.fetched
    BY ServiceFacts DEF Proven
  <2>4. Whole(p, job', ops')
    BY <1>1, <1>2, <1>3, <1>6, <2>1, <2>2, <2>3 DEF Whole, Restoring, Landed
  <2> QED BY <1>1, <1>4, <1>6, <2>4 DEF NamedFiles, Landed
<1>7. ASSUME NEW j \in Jobs, NEW transient \in BOOLEAN, Landed(job, j), j.path = job.path,
             j.pathId = job.pathId, job' = Failed(j, transient)
      PROVE  /\ job'.restore = job.restore /\ job'.identity = job.identity
             /\ job'.fetched = job.fetched /\ job'.path = job.path /\ job'.pathId = job.pathId
  <2>1. Like(j, job')
    BY <1>7, StaysLike
  <2> QED BY <1>7, <2>1 DEF Like, Landed
<1> QED BY <1>5, <1>6, <1>7, ServiceFacts, WriterEffect

LEMMA RestoreNames ==
    ASSUME ServiceInv, NamedFiles, NEW p \in Paths,
           RestoreRuns(p) \/ RestoreReports(p) \/ RestoreDone(p)
    PROVE  NamedFiles'
<1>1. ops[p].publish = "no" /\ p # job.path /\ ops[p].at \in Restoring /\ cache' = cache
  <2>1. ops[p].at \in Restoring /\ cache' = cache
    BY DEF RestoreRuns, RestoreReports, RestoreDone, Restoring
  <2> QED BY <2>1, BusyFacts DEF Restoring
<1>2. Whole(p, job, ops) /\ ops \in Tables
  BY ServiceFacts DEF NamedFiles, AllWhole
<1>3. ASSUME NEW O, \A q \in Paths \ {p} : O[q] = ops[q], O[p].publish = ops[p].publish,
             O[p].id = ops[p].id, O[p].at \in {"hit", "restored"} => O[p].data = O[p].id
      PROVE  AllWhole(job, O)
  <2>1. ASSUME NEW q \in Paths \ {p} PROVE Whole(q, job, O)
    BY <1>3 DEF NamedFiles, AllWhole, Whole
  <2>2. Whole(p, job, O)
    BY <1>1, <1>2, <1>3 DEF Whole
  <2> QED BY <2>1, <2>2 DEF AllWhole
<1>4. CASE RestoreRuns(p)
  <2>1. /\ \/ ops' = [ops EXCEPT ![p].at = "miss"]
           \/ /\ ops' = [ops EXCEPT ![p].at = "hit", ![p].data = cache[ops[p].id]]
              /\ cache[ops[p].id] = ops[p].id
        /\ job' = job
    BY <1>4, Zenon DEF RestoreRuns
  <2>2. /\ \A q \in Paths \ {p} : ops'[q] = ops[q]
        /\ ops'[p].publish = ops[p].publish /\ ops'[p].id = ops[p].id
        /\ ops'[p].at \in {"hit", "restored"} => ops'[p].data = ops'[p].id
    BY <1>2, <2>1 DEF Tables, Operations
  <2> QED BY <1>1, <1>3, <2>1, <2>2 DEF NamedFiles
<1>5. CASE RestoreReports(p)
  <2>1. /\ ops[p].at \in {"hit", "miss"} /\ job' = job
        /\ \/ ops' = [ops EXCEPT ![p].at = "none", ![p].data = 0]
           \/ ops' = [ops EXCEPT ![p].at = IF @ = "hit" THEN "restored" ELSE "unrestored"]
    BY <1>5, Zenon DEF RestoreReports
  <2>2. /\ \A q \in Paths \ {p} : ops'[q] = ops[q]
        /\ ops'[p].publish = ops[p].publish /\ ops'[p].id = ops[p].id
        /\ ops'[p].at \in {"hit", "restored"} => ops'[p].data = ops'[p].id
    BY <1>2, <2>1 DEF Tables, Operations, Whole
  <2> QED BY <1>1, <1>3, <2>1, <2>2 DEF NamedFiles
<1>6. CASE RestoreDone(p)
  <2> DEFINE O == [ops EXCEPT ![p].at = "none"]
  <2>1. /\ O \in Tables /\ O[p].at = "none" /\ O[p].id = ops[p].id /\ O[p].data = ops[p].data
        /\ O[p].publish = ops[p].publish /\ \A q \in Paths \ {p} : O[q] = ops[q]
        /\ \/ ops' = O /\ UNCHANGED job
           \/ /\ p = job.restore /\ ops[p].at = "restored" /\ ops' = O
              /\ Restored(job, job') /\ job'.path = p /\ job'.pathId = job.identity
           \/ /\ p = job.restore
              /\ \E j \in Jobs : /\ Restored(job, j) /\ j.path = job.path /\ j.pathId = job.pathId
                                 /\ Advance(j, Without(files, {p}), O)
    BY <1>6, ServiceFacts, RestoreDoneEffect
  <2> HIDE DEF O
  <2>2. AllWhole(job, O)
    BY <1>3, <2>1
  <2>3. CASE ops' = O /\ UNCHANGED job
    BY <1>1, <2>2, <2>3 DEF NamedFiles
  <2>4. CASE /\ p = job.restore /\ ops[p].at = "restored" /\ ops' = O
             /\ Restored(job, job') /\ job'.path = p /\ job'.pathId = job.identity
    <3>1. ops[p].data = ops[p].id /\ job.fetched /\ ops[p].id = job.identity
      BY <1>2, <2>4 DEF Whole
    <3>2. Whole(p, job', O)
      BY <1>1, <2>1, <2>4, <3>1, PathsAreNamed DEF Whole, Restored, Restoring
    <3>3. ASSUME NEW q \in Paths \ {p} PROVE Whole(q, job', O)
      <4>1. Whole(q, job, O)
        BY <2>2 DEF AllWhole
      <4> QED BY <2>4, <4>1, PathsAreNamed DEF Whole, Restored
    <3> QED BY <1>1, <2>4, <3>2, <3>3 DEF NamedFiles, AllWhole
  <2>5. ASSUME NEW j \in Jobs, Restored(job, j), j.path = job.path, j.pathId = job.pathId,
               Advance(j, Without(files, {p}), O)
        PROVE  NamedFiles'
    <3>1. AllWhole(j, O)
      BY <2>2, <2>5, SameWhole DEF Restored
    <3>2. Proven(j) /\ Without(files, {p}) \in Ledgers
      BY <2>5, ServiceFacts, Fields, WithoutTypes DEF Restored, Proven
    <3> QED BY <1>1, <2>1, <2>5, <3>1, <3>2, ServiceFacts, AdvanceWhole DEF NamedFiles
  <2> QED BY <2>1, <2>3, <2>4, <2>5
<1> QED BY <1>4, <1>5, <1>6

LEMMA PublisherNames ==
    ASSUME ServiceInv, NamedFiles, NEW p \in Paths, PublishRuns(p) \/ CacheWritten(p)
    PROVE  NamedFiles'
<1>1. /\ job' = job /\ ops'[p].at = ops[p].at /\ ops'[p].id = ops[p].id
      /\ ops'[p].data = ops[p].data /\ ops'[p].publish # "linking"
      /\ \A q \in Paths \ {p} : ops'[q] = ops[q]
      /\ \/ cache' = cache
         \/ ops[p].publish = "linking" /\ cache' = [cache EXCEPT ![ops[p].id] = ops[p].data]
  BY ServiceFacts, PublisherEffect
<1>2. AllWhole(job, ops')
  <2>1. ASSUME NEW q \in Paths PROVE Whole(q, job, ops')
    <3>1. Whole(q, job, ops)
      BY DEF NamedFiles, AllWhole
    <3>2. CASE q = p
      BY <1>1, <3>1, <3>2 DEF Whole
    <3>3. CASE q # p
      BY <1>1, <3>1, <3>3 DEF Whole
    <3> QED BY <3>2, <3>3
  <2> QED BY <2>1 DEF AllWhole
<1>3. Honest(cache')
  <2>1. Whole(p, job, ops) /\ Honest(cache) /\ cache \in [Versions -> 0..MaxVersion]
    BY ServiceFacts, Fields DEF NamedFiles, AllWhole
  <2> QED BY <1>1, <2>1 DEF Whole, Honest
<1> QED BY <1>1, <1>2, <1>3 DEF NamedFiles

LEMMA StepsName == ServiceInv /\ NamedFiles /\ [Next]_vars => NamedFiles'
<1> SUFFICES ASSUME ServiceInv, NamedFiles, [Next]_vars PROVE NamedFiles'
  OBVIOUS
<1>1. CASE Owner
  BY <1>1, OwnerNames DEF Owner
<1>2. CASE Answers
  BY <1>2, ReplyNames, TimersName DEF Answers
<1>3. CASE DrainFails
  BY <1>3, DrainNames
<1>4. CASE Threads
  BY <1>4, WriterNames, RestoreNames, PublisherNames DEF Threads
<1>5. CASE UNCHANGED <<job, ops, cache>>
  BY <1>5 DEF NamedFiles
<1>6. CASE Leases \/ Overwrite \/ UNCHANGED vars
  BY <1>5, <1>6 DEF Leases, Lease, CloseLease, Overwrite, vars
<1>7. CASE Evict
  <2>1. PICK v \in Versions : cache' = [cache EXCEPT ![v] = 0]
    BY <1>7 DEF Evict
  <2>2. cache \in [Versions -> 0..MaxVersion] /\ UNCHANGED <<job, ops>>
    BY <1>7, ServiceFacts, Fields DEF Evict
  <2> QED BY <2>1, <2>2 DEF NamedFiles, Honest
<1> QED BY <1>1, <1>2, <1>3, <1>4, <1>6, <1>7 DEF Next, Outside

\* The file offered under a version holds it, however often the printer's file
\* was overwritten while it was asked for, downloaded, restored or published;
\* and no session finds another one in its place (_on_writer_done,
\* _publish_current and RawSourceCache).
THEOREM FileIsAlwaysItsIdentity == Spec => []FileIsItsIdentity
<1>1. Init => NamedFiles
  BY DEF Init, NewJob, NoOperation, NamedFiles, AllWhole, Whole, Honest, Restoring, Paths, NoPath
<1>2. ServiceInv /\ NamedFiles => FileIsItsIdentity
  <2> SUFFICES ASSUME ServiceInv, NamedFiles PROVE FileIsItsIdentity
    OBVIOUS
  <2>1. job.path # NoPath => job.path \in Paths
    BY ServiceFacts, Fields
  <2> QED BY <2>1 DEF NamedFiles, AllWhole, Whole, Honest, FileIsItsIdentity
<1> QED BY <1>1, <1>2, StepsName, ServiceInvariant, PTL DEF Spec
===================================================================================
