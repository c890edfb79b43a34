-------------------------- MODULE EnvironmentMailbox --------------------------
(***************************************************************************)
(* EnvironmentMailbox: the two reflection maps that the capture worker and *)
(* the render thread share.  Each operation runs under the mailbox's lock, *)
(* so it is one expression over the pairs; what its caller does with the   *)
(* driver before and after is in ToolheadReflections.                      *)
(*                                                                         *)
(* A token names a pair and one cycle of it.  The cycle's serial is the    *)
(* job the pair was reserved for, which no other cycle has.  A fence is    *)
(* the number of commands its context still has to execute before it, so   *)
(* it is signalled at 0.                                                   *)
(***************************************************************************)
EXTENDS Integers

VARIABLES
    pairs,      \* _pairs
    front,      \* _front: the displayed pair, 0 for None
    generation,
    closed

mailbox == <<pairs, front, generation, closed>>

Slots   == 1..2
NoFence == -1
States  == {"free", "building", "ready", "displayed", "sealed", "draining"}
Pairs   == [state : States, generation : Nat,
            job : Nat,               \* the cycle's serial, and payload.serial
            kept : BOOLEAN,          \* payload.input_fence is still to be deleted
            producer : Nat \cup {NoFence}, consumer : Nat \cup {NoFence},
            poller : BOOLEAN, reader : BOOLEAN]
FreePair == [state |-> "free", generation |-> 0, job |-> 0, kept |-> FALSE,
             producer |-> NoFence, consumer |-> NoFence, poller |-> FALSE, reader |-> FALSE]

MailboxInit ==
    /\ pairs = [i \in Slots |-> FreePair]
    /\ front = 0 /\ generation = 0 /\ closed = FALSE

\* The scans of _pairs take the first that fits.
IsFirst(i, S) == i \in S /\ \A j \in S : i <= j
In(state)     == {i \in Slots : pairs[i].state = state}

\* reserve
Free == IF closed THEN {} ELSE In("free")
Reserved(i, job) ==
    [pairs EXCEPT ![i] = [@ EXCEPT !.state = "building", !.generation = generation, !.job = job]]

BuildingCurrent(i) ==
    pairs[i].state = "building" /\ pairs[i].generation = generation /\ ~closed

\* complete: only the generation that was reserved is published.
Completed(i, fence) ==
    [pairs EXCEPT ![i] = [@ EXCEPT !.state = IF BuildingCurrent(i) THEN "ready" ELSE "sealed",
                                   !.producer = fence, !.kept = FALSE]]

\* abort
Aborted(i, fence, kept) ==
    [pairs EXCEPT ![i] = [@ EXCEPT !.state = "sealed", !.producer = fence, !.kept = kept]]

\* begin_poll, end_poll: the adopted pair's fence goes to the caller.
Pollable     == IF closed THEN {} ELSE {i \in In("ready") : ~pairs[i].poller}
PollBegun(p, S) ==
    [i \in Slots |-> IF IsFirst(i, S) THEN [p[i] EXCEPT !.poller = TRUE] ELSE p[i]]
Adopts(i, complete) ==
    complete /\ pairs[i].state = "ready" /\ ~closed /\ pairs[i].generation = generation
PollEnded(p, i) == [p EXCEPT ![i].poller = FALSE]
Adopted(p, i) ==
    [j \in Slots |-> CASE j = i -> [p[j] EXCEPT !.poller = FALSE, !.state = "displayed",
                                                !.producer = NoFence]
                       [] j = front /\ j # i -> [p[j] EXCEPT !.state = "sealed"]
                       [] OTHER -> p[j]]

\* begin_read, end_read
Readable ==
    ~closed /\ front # 0 /\ pairs[front].state = "displayed" /\ ~pairs[front].reader
ReadBegun(p, i)        == [p EXCEPT ![i].reader = TRUE]
ReadEnded(p, i, fence) == [p EXCEPT ![i] = [@ EXCEPT !.reader = FALSE, !.consumer = fence]]

\* change_generation, close: p is what else the step does to the pairs.
Sealed(p, states) ==
    [i \in Slots |-> IF p[i].state \in states THEN [p[i] EXCEPT !.state = "sealed"] ELSE p[i]]
ChangeGeneration(p) ==
    IF closed THEN pairs' = p /\ UNCHANGED <<front, generation, closed>>
    ELSE /\ generation' = generation + 1
         /\ pairs' = Sealed(p, {"ready"})
         /\ UNCHANGED <<front, closed>>
Close ==
    IF closed THEN UNCHANGED mailbox
    ELSE /\ closed' = TRUE /\ generation' = generation + 1 /\ front' = 0
         /\ pairs' = Sealed(pairs, {"ready", "displayed"})

\* Mutant of Retirable: whoever still reads or polls the pair is not waited for.
AnySealed == In("sealed")

\* take_retirement, retired
Retirable == {i \in In("sealed") : ~pairs[i].poller /\ ~pairs[i].reader}

Draining(i) == [pairs EXCEPT ![i].state = "draining"]
Retired(i)  == [pairs EXCEPT ![i] = FreePair]
Drained     == closed /\ In("free") = Slots
=============================================================================
