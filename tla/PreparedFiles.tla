------------------------------ MODULE PreparedFiles ------------------------------
(***************************************************************************)
(* PreparedStore: the files that hold a print's prepared layers, the       *)
(* temporary file of an incremental writer, and the choice between the two *)
(* that a crash leaves behind.  A key is an identity of a print in one     *)
(* machine's prints folder: the identity the metadata give, or the name    *)
(* and size that stand in for it.  A payload is known by the key of the    *)
(* work item that stored it.                                               *)
(***************************************************************************)
EXTENDS Integers, FiniteSets

CONSTANTS Machines,   \* Cura machines, each with a prints folder
          Prints,     \* prints, by their jobs
          MaxLayer,   \* layers of a print
          MaxWriter   \* bound: writers opened in one behaviour

ASSUME StoreAssumption == /\ MaxLayer \in Nat \ {0} /\ MaxWriter \in Nat

Names   == {"fallback", "parsed"}   \* what RemoteFileService names a job's file by
Keys    == Machines \X Prints \X Names
Layers  == 1..MaxLayer
Writers == 1..MaxWriter
NoWriter == 0

States == {"empty", "cached", "refused"}   \* STATE_EMPTY, _CACHED, _UNCACHEABLE

\* A file's header and table, and what its payload area holds.
Files == [by       : {NoWriter} \cup Writers,   \* the writer it comes from, none: no file
          complete : BOOLEAN,
          table    : [Layers -> States],
          payload  : SUBSET Layers,
          of       : SUBSET Keys]               \* whose work the payloads are
NoFile == [by |-> NoWriter, complete |-> FALSE, table |-> [l \in Layers |-> "empty"],
           payload |-> {}, of |-> {}]
\* What open_for_write() leaves on the disk.
Opened(w) == [NoFile EXCEPT !.by = w]

Present(f)  == f.by # NoWriter
Resolved(f) == {l \in Layers : f.table[l] # "empty"}
AllResolved(f) == f.complete /\ Resolved(f) = Layers

\* _valid_table(): an advertised payload lies inside the file.
Valid(f) == \A l \in Layers : f.table[l] = "cached" => l \in f.payload

\* load_table()
Loaded(f) == IF Present(f) /\ Valid(f) THEN f ELSE NoFile

\* read(): the table's slot says where, the file at the path now what.
Readable(table, f, l) == table.table[l] = "cached" /\ Present(f)

\* Mutant of Stored: the slot is written before the payload.
AdvertisesFirst(f, l, k) == [f EXCEPT !.table[l] = "cached", !.of = @ \cup {k}]

\* append(): the payload lands, and is flushed, before its slot says so.
Stored(f, l, k) == [f EXCEPT !.payload = @ \cup {l}, !.of = @ \cup {k}]

Advertised(f, l) == [f EXCEPT !.table[l] = "cached"]
\* append_uncacheable()
Refused(f, ls) == [f EXCEPT !.table = [l \in Layers |-> IF l \in ls /\ @[l] = "empty"
                                                         THEN "refused" ELSE @[l]]]

\* Mutant of Adopted: the completion flag decides before the layers count.
FlagWins(f, t) == {IF Valid(t) /\ (f.complete => t.complete) THEN t ELSE f}

\* _adopt_interrupted() and _arbitrate(): what is published of a published file
\* (or none) and an interrupted one.  With equal progress the newer stays.
Adopted(f, t) ==
    LET more(a, b) == Cardinality(Resolved(a)) > Cardinality(Resolved(b))
    IN  IF ~Present(f) THEN {IF Valid(t) THEN t ELSE f}
        ELSE IF ~Valid(t) THEN {f}
        ELSE IF ~Valid(f) THEN {t}
        ELSE IF AllResolved(f) THEN {f}
        ELSE IF AllResolved(t) \/ more(t, f) THEN {t}
        ELSE IF more(f, t) THEN {f} ELSE {f, t}

==================================================================================
