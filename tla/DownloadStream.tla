----------------------------- MODULE DownloadStream -----------------------------
(***************************************************************************)
(* One streamed download, DownloadOperation: the UI thread reads the reply *)
(* and queues its bytes, the operation's own thread writes them, and the   *)
(* two hold each other back between a high and a low water mark.           *)
(*                                                                         *)
(* A step is one critical section or one blocking call of the writer, or a *)
(* part of a UI-thread handler between two uses of the lock.  The UI       *)
(* thread finishes a handler before it takes the next event, so bytes,     *)
(* signals and aborts arrive only while it is idle.                        *)
(***************************************************************************)
EXTENDS Integers, Sequences

CONSTANTS Size,     \* bytes of the remote file, as the listing gives them
          High,     \* HIGH_WATER_BYTES
          Low,      \* LOW_WATER_BYTES
          Cap       \* setReadBufferSize: bytes the reply holds at most

ASSUME SizeAssumption  == Size \in Nat \ {0}
ASSUME MarksAssumption == High \in Nat /\ Low \in Nat /\ 0 < Low /\ Low <= High
ASSUME CapAssumption   == Cap \in Nat \ {0}

VARIABLES
    reply,   \* the network's side
    op,      \* the fields of DownloadOperation and of its target
    writer,  \* where the writer thread is, and the bytes in its hands
    gui,     \* where the UI thread is in a handler of this operation
    inbox,   \* the writer's signals, queued to the UI thread
    outcome  \* of the operation, for the service

streamVars == <<reply, op, writer, gui, inbox, outcome>>

End == 0     \* the sentinel, None in the queue

Replies == [coming : 0..Size,      \* bytes still to arrive
            unread : 0..Cap,       \* bytes in the reply's own buffer
            ended  : {"no", "ok", "error"}]
Downloads == [received : 0..Size, written : 0..Size, queue : Seq(0..Cap),
              paused   : BOOLEAN,     \* reading_paused
              finished : BOOLEAN,     \* finished_reading
              stopped  : BOOLEAN,     \* sentinel_put
              aborted  : BOOLEAN,
              error    : BOOLEAN,     \* writer_error
              bytes    : 0..Size]     \* target.bytes_written
Writers == [at : {"getting", "writing", "counting", "waking", "closing", "ended"},
            chunk : 0..Cap]

StreamInit ==
    /\ reply = [coming |-> Size, unread |-> 0, ended |-> "no"]
    /\ op = [received |-> 0, written |-> 0, queue |-> <<>>, paused |-> FALSE,
             finished |-> FALSE, stopped |-> FALSE, aborted |-> FALSE,
             error |-> FALSE, bytes |-> 0]
    /\ writer = [at |-> "getting", chunk |-> 0]
    /\ gui = "idle"
    /\ inbox = <<>>
    /\ outcome = "running"

Backlog(o) == o.received - o.written

-----------------------------------------------------------------------------
(* The operation's methods.                                                *)

\* can_read()
CanRead(o) == ~o.paused \/ o.finished \/ Backlog(o) < Low

\* enqueue()
Enqueued(o, n) ==
    IF n = 0 THEN o
    ELSE [o EXCEPT !.received = @ + n,
                   !.queue = Append(@, n),
                   !.paused = @ \/ (~o.finished /\ Backlog(o) + n >= High)]

\* stop(): the sentinel is put once.
Stopped(o) == IF o.stopped THEN o
              ELSE [o EXCEPT !.stopped = TRUE, !.queue = Append(@, End)]

\* Mutant of Aborted: nobody wakes the writer.
AbortsUnheard(o) == [o EXCEPT !.aborted = TRUE]

\* abort(), which closes the target under the writer.
Aborted(o) == [Stopped(o) EXCEPT !.aborted = TRUE]

-----------------------------------------------------------------------------
(* The network.                                                            *)

\* The bytes that may arrive at once.
Room(n) == n <= reply.coming /\ reply.unread + n <= Cap

\* Bytes arrive while the reply's buffer has room, and readyRead is emitted.
\* Nothing is emitted for bytes that cannot arrive.
Arrive ==
    /\ gui = "idle" /\ outcome = "running"
    /\ reply.ended = "no"
    /\ \E n \in 1..Size :
          /\ Room(n)
          /\ reply' = [reply EXCEPT !.coming = @ - n, !.unread = @ + n]
    /\ gui' = "draining"
    /\ UNCHANGED <<op, writer, inbox, outcome>>

\* The reply ends, and _finish_download() reads what is left of it.
ReplyEnds(how) ==
    /\ gui = "idle" /\ outcome = "running"
    /\ reply.ended = "no"
    /\ reply' = [reply EXCEPT !.ended = how]
    /\ op' = [op EXCEPT !.finished = TRUE]
    /\ gui' = "draining"
    /\ UNCHANGED <<writer, inbox, outcome>>

\* Every byte has come.
EndsWhole == reply.coming = 0 /\ ReplyEnds("ok")

\* An error or a timeout, or a proxy that cuts the file short and calls it well.
Breaks == ReplyEnds("error") \/ ReplyEnds("ok")

-----------------------------------------------------------------------------
(* The UI thread.                                                          *)

\* _drain() asks can_read().
Ask ==
    /\ gui = "draining"
    /\ op' = IF CanRead(op) /\ ~op.finished THEN [op EXCEPT !.paused = FALSE] ELSE op
    /\ gui' = IF CanRead(op) THEN "reading" ELSE "idle"
    /\ UNCHANGED <<reply, writer, inbox, outcome>>

\* _drain() reads everything and queues it; after the last read,
\* _finish_download() stops the writer.
Read ==
    /\ gui = "reading"
    /\ LET o == Enqueued(op, reply.unread)
       IN  op' = IF op.finished THEN Stopped(o) ELSE o
    /\ reply' = [reply EXCEPT !.unread = 0]
    /\ gui' = "idle"
    /\ UNCHANGED <<writer, inbox, outcome>>

\* _drain() refuses a compressed reply, or a file above the size cap.
Refuse ==
    /\ gui = "reading"
    /\ op' = Aborted(op)
    /\ outcome' = "failed"
    /\ gui' = "idle"
    /\ UNCHANGED <<reply, writer, inbox>>

\* Another file is bound, or the service is closed: _abort_download()
Abort ==
    /\ gui = "idle" /\ outcome = "running"
    /\ op' = Aborted(op)
    /\ outcome' = "dropped"
    /\ UNCHANGED <<reply, writer, gui, inbox>>

\* _on_writer_drained()
WriterDrained ==
    /\ gui = "idle"
    /\ inbox # <<>> /\ Head(inbox) = "drained"
    /\ inbox' = Tail(inbox)
    /\ gui' = IF outcome = "running" /\ ~op.finished THEN "draining" ELSE "idle"
    /\ UNCHANGED <<reply, op, writer, outcome>>

\* Mutant of Complete: the reply's word is taken for it.
TrustsTheReply(o) == TRUE

\* The listing's size is the referee.
Complete(o) == o.bytes = Size

\* _on_writer_done(): a retired operation's writer is not heard.
StreamDone ==
    /\ gui = "idle"
    /\ inbox # <<>> /\ Head(inbox) = "done"
    /\ inbox' = Tail(inbox)
    /\ outcome' = IF outcome # "running" THEN outcome
                  ELSE IF ~op.error /\ reply.ended = "ok" /\ Complete(op) THEN "kept"
                  ELSE "failed"
    /\ UNCHANGED <<reply, op, writer, gui>>

-----------------------------------------------------------------------------
(* The writer thread, _writer_main().                                      *)

WriterAt(place) == writer' = [writer EXCEPT !.at = place]

\* queue.get() waits for a chunk or the sentinel.
Get ==
    /\ writer.at = "getting"
    /\ op.queue # <<>>
    /\ op' = [op EXCEPT !.queue = Tail(@)]
    /\ IF Head(op.queue) = End THEN WriterAt("closing")
       ELSE writer' = [at |-> "writing", chunk |-> Head(op.queue)]
    /\ UNCHANGED <<reply, gui, inbox, outcome>>

\* The chunk is written, or the disk or a closed target refuses it.
Write ==
    /\ writer.at = "writing"
    /\ \/ /\ ~op.aborted
          /\ op' = [op EXCEPT !.bytes = @ + writer.chunk]
          /\ WriterAt("counting")
       \/ /\ op' = [op EXCEPT !.error = TRUE]
          /\ WriterAt("closing")
    /\ UNCHANGED <<reply, gui, inbox, outcome>>

\* Mutant of Resumes: the check comes before the count.
ChecksBeforeCounting(o, n) == o.paused /\ Backlog(o) < Low

\* Whether n bytes more written let a paused reader go on.
Resumes(o, n) == o.paused /\ Backlog(o) - n < Low

\* The written bytes are counted, and the reader's pause ends.
CountWritten ==
    /\ writer.at = "counting"
    /\ op' = [op EXCEPT !.written = @ + writer.chunk,
                        !.paused = @ /\ ~Resumes(op, writer.chunk)]
    /\ WriterAt(IF Resumes(op, writer.chunk) THEN "waking" ELSE "getting")
    /\ UNCHANGED <<reply, gui, inbox, outcome>>

Wake ==
    /\ writer.at = "waking"
    /\ inbox' = Append(inbox, "drained")
    /\ WriterAt("getting")
    /\ UNCHANGED <<reply, op, gui, outcome>>

\* flush_close(), which may fail, unless the target was closed by abort().
CloseTarget ==
    /\ writer.at = "closing"
    /\ \E fails \in BOOLEAN : op' = [op EXCEPT !.error = @ \/ (fails /\ ~op.aborted)]
    /\ inbox' = Append(inbox, "done")
    /\ WriterAt("ended")
    /\ UNCHANGED <<reply, gui, outcome>>

-----------------------------------------------------------------------------
Network == Arrive \/ EndsWhole \/ Breaks
Gui     == Ask \/ Read \/ Refuse \/ WriterDrained \/ StreamDone
Writer  == Get \/ Write \/ CountWritten \/ Wake \/ CloseTarget

StreamNext == Network \/ Gui \/ Abort \/ Writer

StreamSpec == StreamInit /\ [][StreamNext]_streamVars

\* The event loop and the thread run on, and bytes come while there is room for
\* them.  Nothing is owed when there is none: no timeout rescues a reader that
\* was forgotten.
FairStreamSpec ==
    /\ StreamSpec
    /\ WF_streamVars(Arrive) /\ WF_streamVars(EndsWhole)
    /\ WF_streamVars(Gui) /\ WF_streamVars(Writer)

-----------------------------------------------------------------------------
(* Properties.                                                             *)

\* Every field keeps its type, and what is in memory stays bounded: the reader
\* holds no more than the high-water mark and one buffer of the reply, and after
\* the end of the reply one buffer more.
StreamTypeOK ==
    /\ reply \in Replies
    /\ op \in Downloads
    /\ writer \in Writers
    /\ gui \in {"idle", "draining", "reading"}
    /\ inbox \in Seq({"drained", "done"})
    /\ outcome \in {"running", "kept", "failed", "dropped"}
    /\ Backlog(op) < High + (IF op.finished THEN 2 * Cap ELSE Cap)

\* No wake-up is lost: bytes the reader left in the reply's buffer are read
\* because of a signal that is on its way, or because the writer has enough
\* left to write to send one.  The buffer may be full, so that nothing else
\* would ever come.
SleepingReaderIsWoken ==
    gui = "idle" /\ outcome = "running" /\ reply.unread > 0 =>
        \/ op.paused /\ Backlog(op) >= Low
        \/ writer.at = "waking"
        \/ \E i \in DOMAIN inbox : inbox[i] = "drained"
        \/ op.error

Transfer == INSTANCE FileTransfer WITH bytes <- op.bytes, result <- outcome

\* The download is a FileTransfer and ends; whatever becomes of it, its writer
\* thread ends too.
TransfersTheFile == Transfer!Spec /\ <>(writer.at = "ended")
================================================================================
