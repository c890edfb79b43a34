------------------------------- MODULE IndexService -------------------------------
(***************************************************************************)
(* GCodeIndexService with its PreparedSession: one job's index restored or *)
(* built, its layers prepared by a background pass that yields to demands, *)
(* and the prepared store they are written to, published and reopened.     *)
(*                                                                         *)
(* The owner is Cura's main thread: a step of it is one public call or one *)
(* terminal, with every call it makes.  The worker is the pool's only      *)
(* thread; its steps end where the owner can see what it did, so an append *)
(* is two steps under the store's lock, and so is the publication.  Cura   *)
(* may be killed between any two steps, and its next start adopts what the *)
(* writers left.                                                           *)
(***************************************************************************)
EXTENDS PreparedFiles, Sequences

CONSTANTS NoJob,        \* no print is bound
          Home,         \* the machine of the first start
          Strong,       \* prints whose metadata have a reliable timestamp
          Uncodable,    \* layers the codec refuses
          Unreadable,   \* layers whose lines the raw file never gives
          MaxGen,       \* bound: bindings, machine switches and clears
          MaxDemand,    \* bound: demands
          MaxUnnamed,   \* bound: metadata requests that end with an error
          MaxFault,     \* bound: writes and reads that fail
          MaxCrash,     \* bound: ends of the process
          MaxTrouble    \* bound: these four together, an error of the metadata twice

ASSUME ServiceAssumption ==
    /\ Prints # {} /\ NoJob \notin Prints /\ Home \in Machines /\ Strong \subseteq Prints
    /\ Uncodable \subseteq Layers /\ Unreadable \subseteq Layers
    /\ MaxGen \in Nat /\ MaxDemand \in Nat /\ MaxUnnamed \in Nat
    /\ MaxFault \in Nat /\ MaxCrash \in Nat /\ MaxTrouble \in Nat

VARIABLES
    process,   \* "booting", "running", "closing"
    svc,       \* the service's fields and its session's
    disk,      \* the files, and the writers with their temporary ones
    queue,     \* the executor's work items, the first of them running
    posted,    \* terminals emitted and not delivered
    spent      \* how much of each bound is used up

vars == <<process, svc, disk, queue, posted, spent>>

Kinds == {"restore", "build", "hydrate", "save", "fullprep", "prepared_save"}
Services == [gen       : 0..(MaxGen + 1),
             store     : 0..MaxGen,               \* the stores, by the generation that
             swept     : {-1} \cup 0..MaxGen,     \* installed them; _swept_store
             machine   : Machines,
             job       : Prints \cup {NoJob},
             identity  : {"none"} \cup Names,      \* RemoteFileService's, and whether it has
             raw       : BOOLEAN,                 \* the file to lease
             view      : BOOLEAN,
             busy      : {""} \cup Kinds,
             busyGen   : {-1} \cup 0..MaxGen,
             wanted    : BOOLEAN,
             restored  : BOOLEAN,
             save      : BOOLEAN,
             error     : BOOLEAN,
             passError : BOOLEAN,
             hydrate   : SUBSET Layers,
             failed    : SUBSET Layers,           \* _failed_hydrate
             next      : 1..(MaxLayer + 1),       \* _full_next
             packed    : SUBSET Layers,           \* _full_cache
             open      : BOOLEAN,                 \* the session has an identity,
             name      : Names,                   \* which one,
             table     : Files,                   \* and its table with the file of that
             writer    : {NoWriter} \cup Writers,
             saved     : BOOLEAN,
             retried   : BOOLEAN,                 \* _retry_count
             complete  : BOOLEAN]
Disks == [final   : [Keys -> Files],
          index   : SUBSET Keys,                  \* PersistentIndexCache
          writers : [Writers -> [key : Keys, retired : BOOLEAN, temp : Files,
                                 dead : BOOLEAN]],
          opened  : 0..MaxWriter,
          faults  : 0..MaxFault]
Tasks == [kind    : Kinds,
          gen     : 0..MaxGen,
          store   : 0..MaxGen,
          key     : Keys,
          writer  : {NoWriter} \cup Writers,
          table   : Files,
          lease   : BOOLEAN,
          start   : 1..(MaxLayer + 1),
          at      : 1..(MaxLayer + 1),            \* the pass's frontier
          todo    : SUBSET Layers,                \* the demanded window, what is left
          window  : SUBSET Layers,
          skip    : SUBSET Layers,
          encoded : SUBSET Layers,
          refused : SUBSET Layers,
          failed  : SUBSET Layers,
          stage   : {"run", "payload", "flagged"},
          ok      : BOOLEAN]

\* The fields a new print or a new machine makes meaningless.
Fresh(s) == [s EXCEPT !.identity = "none", !.raw = FALSE,
                      !.view = FALSE, !.wanted = FALSE, !.restored = FALSE,
                      !.save = FALSE, !.error = FALSE, !.passError = FALSE,
                      !.hydrate = {}, !.failed = {}, !.next = 1, !.packed = {},
                      !.open = FALSE, !.name = "fallback", !.table = NoFile,
                      !.writer = NoWriter, !.saved = FALSE, !.retried = FALSE,
                      !.complete = FALSE]

NewService(m) ==
    [gen |-> 0, store |-> 0, swept |-> -1, machine |-> m, job |-> NoJob,
     identity |-> "none", raw |-> FALSE, view |-> FALSE,
     busy |-> "", busyGen |-> -1, wanted |-> FALSE, restored |-> FALSE, save |-> FALSE,
     error |-> FALSE, passError |-> FALSE, hydrate |-> {}, failed |-> {}, next |-> 1,
     packed |-> {}, open |-> FALSE, name |-> "fallback", table |-> NoFile,
     writer |-> NoWriter, saved |-> FALSE, retried |-> FALSE, complete |-> FALSE]

Init ==
    /\ process = "running"
    /\ svc = NewService(Home)
    /\ disk = [final |-> [k \in Keys |-> NoFile], index |-> {},
               writers |-> [w \in Writers |->
                   [key |-> <<Home, CHOOSE p \in Prints : TRUE, "fallback">>,
                    retired |-> FALSE, temp |-> NoFile, dead |-> FALSE]],
               opened |-> 0, faults |-> 0]
    /\ queue = <<>>
    /\ posted = <<>>
    /\ spent = [turns |-> 0, demands |-> 0, unnamed |-> 0, crashes |-> 0]

\* The session's identity in the folder of its store, and RemoteFileService's.
Key(s)   == <<s.machine, s.job, s.name>>
Named(s) == <<s.machine, s.job, s.identity>>
\* Only a reliable modified timestamp vouches for what an earlier session left.
Reliable(s) == s.identity = "parsed" /\ s.job \in Strong
\* What is left of the common bound.
Spare(d, n) == d.faults + spent.demands + 2 * spent.unnamed + spent.crashes + n <= MaxTrouble

\* A write the disk refuses, a read that fails once, or a batch that raises.
MayFail(d) == d.faults < MaxFault /\ Spare(d, 1)
Failed(d)  == [d EXCEPT !.faults = @ + 1]

-----------------------------------------------------------------------------
(* The writer.  d is `disk`, s `svc`.                                      *)

Writing(d, w) == w # NoWriter /\ ~d.writers[w].retired /\ Present(d.writers[w].temp)
Aborted(d, w) == [d EXCEPT !.writers[w].retired = TRUE, !.writers[w].temp = NoFile]

\* os.replace() onto the path of a key.
Replaced(d, w, key) == [d EXCEPT !.final[key] = d.writers[w].temp,
                                 !.writers[w].retired = TRUE, !.writers[w].temp = NoFile]

\* The path of the writer's identity, in the folder of the store that is asked.
InFolder(m, key) == <<m, key[2], key[3]>>

\* The lock a worker holds inside append() and finish_write().
Locked == queue # <<>> /\ Head(queue).stage # "run"

\* PreparedSession.retire(): suspend_write() publishes what is committed, as
\* an incomplete file, or aborts a writer that cannot.
Suspended(d, s) ==
    LET w == s.writer
    IN  IF w = NoWriter THEN {d}
        ELSE IF ~Writing(d, w) THEN {Aborted(d, w)}
        ELSE {Replaced(d, w, InFolder(s.machine, d.writers[w].key))}
             \cup (IF MayFail(d) THEN {Failed(Aborted(d, w))} ELSE {})

\* writer_target(): the session's writer, opened when it has none.  The open
\* fails when the disk refuses it, and once the bound is reached.
Targets(d, s) ==
    LET w == d.opened + 1
        opens == <<[d EXCEPT !.opened = w,
                             !.writers[w] = [key |-> Key(s), retired |-> FALSE,
                                             temp |-> Opened(w), dead |-> FALSE]],
                   [s EXCEPT !.writer = w], w>>
    IN  IF ~s.open \/ s.saved THEN {<<d, s, NoWriter>>}
        ELSE IF s.writer # NoWriter THEN {<<d, s, s.writer>>}
        ELSE IF w \notin Writers THEN {<<d, s, NoWriter>>}
        ELSE {opens} \cup (IF MayFail(d) THEN {<<Failed(d), s, NoWriter>>} ELSE {})

-----------------------------------------------------------------------------
(* The session's table.                                                    *)

\* open(): once per identity.  When the metadata replace the fallback identity the
\* table is another one; the writer, the latches and the frontier stay.
SessionOpen(d, s) ==
    IF s.open /\ s.name = s.identity THEN s
    ELSE [s EXCEPT !.open = TRUE, !.name = s.identity,
                   !.table = IF Reliable(s) THEN Loaded(d.final[Named(s)]) ELSE NoFile]

\* Mutant of Whole: a file whose pass has ended is taken for one without a hole.
TrustsTheFlag(f) == f.complete

\* What lets a reopened print skip the pass.
Whole(f) == Present(f) /\ AllResolved(f)

\* adopt(): the fast path stands the pass down.
SessionAdopt(s) ==
    IF Whole(s.table)
    THEN [s EXCEPT !.complete = TRUE, !.saved = TRUE, !.next = MaxLayer + 1]
    ELSE [s EXCEPT !.complete = FALSE]

\* Mutant of Reloaded: the session keeps the table it had.
KeepsTheTable(s, f) == s

\* What publish() makes of the file it has published.
Reloaded(s, f) == IF Present(f) THEN [s EXCEPT !.table = f, !.complete = AllResolved(f)] ELSE s

\* publish() or, once, arm_retry()
Published(d, s, ok) ==
    IF ok THEN Reloaded([s EXCEPT !.saved = TRUE, !.retried = FALSE], Loaded(d.final[Key(s)]))
    ELSE IF s.view /\ ~s.retried
    THEN [s EXCEPT !.retried = TRUE, !.saved = FALSE, !.complete = FALSE, !.next = 1]
    ELSE s

-----------------------------------------------------------------------------
(* _advance(): the outcomes <<disk, svc, queue>> of its next submission.   *)

Task(s, kind) ==
    [kind |-> kind, gen |-> s.gen, store |-> s.store, key |-> Named(s), writer |-> NoWriter,
     table |-> s.table, lease |-> FALSE, start |-> s.next, at |-> s.next, todo |-> {},
     window |-> {}, skip |-> s.failed, encoded |-> {}, refused |-> {}, failed |-> {},
     stage |-> "run", ok |-> FALSE]

\* _submit()
Submitted(d, s, q, t) ==
    {<<d, [s EXCEPT !.busy = t.kind, !.busyGen = s.gen], Append(q, t)>>}

\* Layers that nothing but the raw file can give.
NeedRaw(s, ls) == {l \in ls : l \notin s.packed /\ s.table.table[l] # "cached"}

\* _start_hydration(): the current layer of a window alone, or the whole window.
Hydration(d, s, q) ==
    UNION {LET needs == NeedRaw(s, ls) # {}
           IN  IF needs /\ ~s.raw THEN {<<d, s, q>>}
               ELSE UNION {Submitted(x[1], [x[2] EXCEPT !.hydrate = @ \ ls], q,
                                     [Task(s, "hydrate") EXCEPT !.writer = x[3],
                                         !.lease = needs, !.todo = ls, !.window = ls])
                           : x \in Targets(d, s)}
           : ls \in {{l} : l \in s.hydrate} \cup {s.hydrate}}

\* The finish of the pass: the writer leaves the session for its work item.
Finishing(d, s, q) ==
    LET t == [Task(s, "prepared_save") EXCEPT !.writer = s.writer]
    IN  IF s.writer = NoWriter THEN {<<d, s, q>>}
        ELSE Submitted(d, [s EXCEPT !.writer = NoWriter], q, t)

\* _start_full_preparation()
Preparing(d, s, q) ==
    LET left == {l \in s.next..MaxLayer : s.table.table[l] # "refused"}
        needs == NeedRaw(s, left) # {}
    IN  IF needs /\ ~s.raw THEN {<<d, s, q>>}
        ELSE UNION {Submitted(x[1], x[2], q, [Task(s, "fullprep") EXCEPT
                                                 !.writer = x[3], !.lease = needs])
                    : x \in Targets(d, s)}

\* Everything behind an index that exists; the save may wait thirty seconds.
WithView(d, s, q) ==
    LET goOn == IF s.next > MaxLayer /\ ~s.saved THEN Finishing(d, s, q)
                ELSE IF ~s.passError /\ s.next <= MaxLayer THEN Preparing(d, s, q)
                ELSE {<<d, s, q>>}
    IN  IF s.hydrate # {} THEN Hydration(d, s, q)
        ELSE IF s.save /\ Reliable(s)
        THEN Submitted(d, [s EXCEPT !.save = FALSE], q, Task(s, "save")) \cup goOn
        ELSE goOn

\* Without an identity the call asks for the metadata, and that is all.
Waits(s) == s.busy # "" \/ s.job = NoJob \/ ~s.wanted \/ s.error \/ s.identity = "none"

Advanced(d, s, q) ==
    LET opened == SessionOpen(d, [s EXCEPT !.restored = TRUE])
    IN  IF Waits(s) THEN {<<d, s, q>>}
        ELSE IF ~s.restored /\ Reliable(s)
        THEN Submitted(d, [s EXCEPT !.restored = TRUE], q, Task(s, "restore"))
        ELSE IF s.view THEN WithView(d, [opened EXCEPT !.hydrate = @ \ s.failed], q)
        ELSE IF s.raw THEN Submitted(d, opened, q, [Task(opened, "build") EXCEPT !.lease = TRUE])
        ELSE {<<d, opened, q>>}

Advance(d, s, q) ==
    \E x \in Advanced(d, s, q) : disk' = x[1] /\ svc' = x[2] /\ queue' = x[3]

-----------------------------------------------------------------------------
(* Public calls, on the main thread.                                       *)

\* A call that retires the writer waits for a worker inside the store's lock.
Unlocked == svc.writer = NoWriter \/ ~Locked

\* What the generation counts: a stale terminal no longer changes anything.
Turned(s) == [s EXCEPT !.gen = @ + 1]
Turns     == spent.turns < MaxGen /\ spent' = [spent EXCEPT !.turns = @ + 1]

\* bind(); the busy flag stays with the work item that is running.
Bind(j) ==
    /\ process = "running" /\ Unlocked
    /\ j # svc.job
    /\ disk' \in Suspended(disk, svc)
    /\ svc' = [Fresh(Turned(svc)) EXCEPT !.job = j]
    /\ Turns
    /\ UNCHANGED <<process, queue, posted>>

\* Temporary files in a machine's folder whose owner is gone.
Left(m) == {w \in Writers : /\ disk.writers[w].dead /\ disk.writers[w].key[1] = m
                            /\ Present(disk.writers[w].temp)}

\* Mutant of Moved: the new machine's stores are installed before the cutover.
InstallsFirst(s, m) ==
    LET t == [s EXCEPT !.machine = m] IN {<<d, t>> : d \in Suspended(disk, t)}

\* The cutover, then the new machine's stores.
Moved(s, m) == {<<d, [s EXCEPT !.machine = m]>> : d \in Suspended(disk, s)}

\* rebind_stores(): the machine, or the size of its cache, has changed.
Rebind(m) ==
    /\ process = "running" /\ Unlocked
    /\ (m = svc.machine \/ Left(m) = {})
    /\ \E x \in Moved(svc, m) :
          /\ disk' = x[1]
          /\ svc' = [Fresh(Turned(x[2])) EXCEPT !.job = NoJob, !.store = svc.gen + 1]
    /\ Turns
    /\ UNCHANGED <<process, queue, posted>>

\* clearCache(): invalidate(), then every folder goes.
Clear ==
    /\ process = "running" /\ Unlocked
    /\ \E d \in Suspended(disk, svc) :
          /\ disk' = [d EXCEPT !.final = [k \in Keys |-> NoFile], !.index = {},
                               !.writers = [w \in Writers |-> [@[w] EXCEPT !.temp = NoFile]]]
    /\ svc' = [Fresh(Turned(svc)) EXCEPT !.job = NoJob, !.swept = svc.store,
                                         !.busy = "", !.busyGen = svc.gen + 1]
    /\ Turns
    /\ UNCHANGED <<process, queue, posted>>

\* request()
Request ==
    /\ process = "running"
    /\ ~svc.wanted /\ svc.job # NoJob
    /\ Advance(disk, [svc EXCEPT !.wanted = TRUE], queue)
    /\ UNCHANGED <<process, posted, spent>>

\* request_hydration(): a layer a display asks for and its neighbours.
Demand(l) ==
    /\ process = "running"
    /\ svc.view /\ spent.demands < MaxDemand /\ Spare(disk, 1)
    /\ Advance(disk, [svc EXCEPT !.hydrate = @ \cup (((l - 1)..(l + 1) \cap Layers)
                                                     \ svc.failed)], queue)
    /\ spent' = [spent EXCEPT !.demands = @ + 1]
    /\ UNCHANGED <<process, posted>>

\* _on_files_changed(): the download the service has asked for is there.
FileArrives ==
    /\ process = "running"
    /\ svc.identity # "none" /\ svc.wanted /\ ~svc.raw
    /\ Advance(disk, [svc EXCEPT !.raw = TRUE, !.failed = {}, !.passError = FALSE], queue)
    /\ UNCHANGED <<process, posted, spent>>

\* A metadata request ends with an error: the name and the size the job came with
\* stand in for its identity, and the request is repeated.
MetadataFails ==
    /\ process = "running"
    /\ svc.job # NoJob /\ svc.identity # "parsed" /\ spent.unnamed < MaxUnnamed /\ Spare(disk, 2)
    /\ Advance(disk, [svc EXCEPT !.identity = "fallback", !.failed = {}, !.passError = FALSE],
               queue)
    /\ spent' = [spent EXCEPT !.unnamed = @ + 1]
    /\ UNCHANGED <<process, posted>>

\* It ends with the metadata, and is not repeated.  A file that came before them is
\* not known to be theirs, and is given back.
MetadataComes ==
    /\ process = "running"
    /\ svc.job # NoJob /\ svc.identity # "parsed"
    /\ Advance(disk, [svc EXCEPT !.identity = "parsed", !.raw = FALSE, !.failed = {},
                                 !.passError = FALSE], queue)
    /\ UNCHANGED <<process, posted, spent>>

-----------------------------------------------------------------------------
(* The worker: t is the work item it runs.                                 *)

Running(kind) == queue # <<>> /\ Head(queue).kind = kind
Goes(t)    == queue' = <<t>> \o Tail(queue) /\ UNCHANGED posted
Reports(t) == queue' = Tail(queue) /\ posted' = Append(posted, t)

\* PersistentIndexCache.load()
Restore ==
    /\ Running("restore")
    /\ LET t == Head(queue) IN Reports([t EXCEPT !.ok = t.key \in disk.index])
    /\ UNCHANGED <<process, svc, disk, spent>>

\* build_index_from_file(), or the process that runs it
Build ==
    /\ Running("build")
    /\ \E ok \in BOOLEAN : Reports([Head(queue) EXCEPT !.ok = ok])
    /\ UNCHANGED <<process, svc, disk, spent>>

\* _save_index(): not into a directory that was swept since.
Save ==
    /\ Running("save")
    /\ LET t == Head(queue)
           swept == t.gen # svc.gen /\ t.store = svc.swept
       IN  /\ Reports(t)
           /\ disk' = IF swept THEN disk ELSE [disk EXCEPT !.index = @ \cup {t.key}]
    /\ UNCHANGED <<process, svc, spent>>

\* The packed layers a work item sees: the service's, while it is the service's own.
Ram(t) == IF t.gen = svc.gen THEN svc.packed ELSE {}

\* The layer a work item is at, and the item once it is done with it.
At(t) == IF t.kind = "fullprep" THEN t.at ELSE CHOOSE l \in t.todo : \A m \in t.todo : l <= m

Past(t) == [t EXCEPT !.stage = "run",
                     !.at = IF t.kind = "fullprep" THEN @ + 1 ELSE @,
                     !.todo = @ \ {At(t)}]

\* append() up to the flush of the payload: not to a retired writer, nor twice.
Puts(t) ==
    LET w == t.writer
        open == Writing(disk, w) /\ disk.writers[w].temp.table[At(t)] = "empty"
    IN  IF open THEN /\ Goes([t EXCEPT !.stage = "payload"])
                     /\ disk' = [disk EXCEPT !.writers[w].temp = Stored(@, At(t), t.key)]
        ELSE Goes(Past(t)) /\ UNCHANGED disk

\* append() from there: the slot, or a refused write that ends the writer.
Slot ==
    /\ queue # <<>> /\ Head(queue).stage = "payload"
    /\ LET t == Head(queue)
           w == t.writer
       IN  /\ Goes(Past(t))
           /\ \/ disk' = [disk EXCEPT !.writers[w].temp = Advertised(@, At(t))]
              \/ MayFail(disk) /\ disk' = Failed(Aborted(disk, w))
    /\ UNCHANGED <<process, svc, spent>>

FromDisk(t) == Readable(t.table, disk.final[t.key], At(t))

\* hydrate_layer_from_file() has no file, or its lines cannot be read.
Unread(never) == \/ never /\ UNCHANGED disk
                 \/ MayFail(disk) /\ disk' = Failed(disk)

\* One layer of LayerPreparationTask.run().
PrepareLayer ==
    /\ Running("fullprep") /\ Head(queue).stage = "run" /\ Head(queue).at <= MaxLayer
    /\ LET t == Head(queue)
           l == t.at
           known == l \in t.skip \cup Ram(t) \/ t.table.table[l] = "refused" \/ FromDisk(t)
           lines == t.lease /\ l \notin Unreadable
       IN  \/ l \in t.skip /\ Goes(Past(t)) /\ UNCHANGED disk
           \/ l \notin t.skip /\ l \in Ram(t) /\ Puts(t)
           \/ l \notin t.skip \cup Ram(t) /\ t.table.table[l] # "refused" /\ FromDisk(t) /\ Puts(t)
           \/ /\ l \notin t.skip \cup Ram(t)
              /\ t.table.table[l] = "refused" \/ (~known /\ lines /\ l \in Uncodable)
              /\ Goes([Past(t) EXCEPT !.refused = @ \cup {l}]) /\ UNCHANGED disk
           \/ ~known /\ lines /\ l \notin Uncodable /\ Puts([t EXCEPT !.encoded = @ \cup {l}])
           \/ ~known /\ Unread(~lines) /\ Reports([t EXCEPT !.ok = TRUE])
    /\ UNCHANGED <<process, svc, spent>>

\* The batch ends: at the last layer, at its deadline, for a demand, or it raises.
PrepareEnds ==
    /\ Running("fullprep") /\ Head(queue).stage = "run"
    /\ LET t == Head(queue)
           demanded == t.gen = svc.gen /\ svc.hydrate # {}
       IN  \/ /\ t.at > t.start \/ t.at > MaxLayer \/ demanded
              /\ Reports([t EXCEPT !.ok = TRUE]) /\ UNCHANGED disk
           \/ MayFail(disk) /\ disk' = Failed(disk) /\ Reports(t)
    /\ UNCHANGED <<process, svc, spent>>

\* One layer of LayerHydrationTask.run().
HydrateLayer ==
    /\ Running("hydrate") /\ Head(queue).stage = "run" /\ Head(queue).todo # {}
    /\ LET t == Head(queue)
           l == At(t)
           ready == l \in Ram(t) \/ FromDisk(t)
           lines == t.lease /\ l \notin Unreadable
       IN  \/ /\ ready /\ UNCHANGED disk
              /\ Goes([Past(t) EXCEPT !.encoded = @ \cup {l}])
           \/ ~ready /\ lines /\ l \notin Uncodable /\ Puts([t EXCEPT !.encoded = @ \cup {l}])
           \/ ~ready /\ lines /\ l \in Uncodable /\ Goes(Past(t)) /\ UNCHANGED disk
           \/ /\ ~ready /\ Unread(~lines)
              /\ Goes([Past(t) EXCEPT !.failed = @ \cup {l}])
    /\ UNCHANGED <<process, svc, spent>>

HydrateEnds ==
    /\ Running("hydrate") /\ Head(queue).todo = {}
    /\ Reports(Head(queue))
    /\ UNCHANGED <<process, svc, disk, spent>>

\* finish_write() up to the completion flag: a retired writer never finishes.
Flag ==
    /\ Running("prepared_save") /\ Head(queue).stage = "run"
    /\ LET t == Head(queue)
           w == t.writer
       IN  IF disk.writers[w].retired THEN Reports(t) /\ UNCHANGED disk
           ELSE /\ Goes([t EXCEPT !.stage = "flagged"])
                /\ disk' = [disk EXCEPT !.writers[w].temp.complete = Present(disk.writers[w].temp)]
    /\ UNCHANGED <<process, svc, spent>>

\* finish_write() from there: the rename, or the end of the writer.
Rename ==
    /\ Running("prepared_save") /\ Head(queue).stage = "flagged"
    /\ LET t == Head(queue)
           w == t.writer
           there == Present(disk.writers[w].temp)
           path == InFolder(t.key[1], disk.writers[w].key)
       IN  \/ there /\ disk' = Replaced(disk, w, path) /\ Reports([t EXCEPT !.ok = TRUE])
           \/ ~there /\ disk' = Aborted(disk, w) /\ Reports(t)
           \/ there /\ MayFail(disk) /\ disk' = Failed(Aborted(disk, w)) /\ Reports(t)
    /\ UNCHANGED <<process, svc, spent>>

Work == \/ Restore \/ Build \/ Save \/ Slot \/ PrepareLayer \/ PrepareEnds
        \/ HydrateLayer \/ HydrateEnds \/ Flag \/ Rename

-----------------------------------------------------------------------------
(* _finish(): a work item's terminal, on the main thread.                  *)

\* Mutant of Owned: any terminal ends the work that is marked.
AnyTerminal(s, t) == TRUE

\* Mutant of Owned, too: a terminal of an older generation ends nothing.
OnlyTheNewest(s, t) == t.gen = s.gen

\* The busy flag belongs to the generation that set it.
Owned(s, t) == t.gen = s.busyGen

\* mark_uncacheable(), into the session's writer.
Marked(d, w, ls) ==
    IF ls = {} \/ ~Writing(d, w) THEN {d}
    ELSE {[d EXCEPT !.writers[w].temp = Refused(@, ls)]}
         \cup (IF MayFail(d) THEN {Failed(Aborted(d, w))} ELSE {})

\* The packed layers after some more: the oldest make room.
Packed(s, ls) == {(s.packed \ gone) \cup ls : gone \in SUBSET (s.packed \ ls)}

\* What a work item of this generation changes, as <<disk, svc>>.
Committed(d, s, t) ==
    CASE t.kind \in {"build", "restore"} /\ t.ok ->
           {<<d, SessionAdopt(SessionOpen(d, [s EXCEPT !.view = TRUE, !.failed = {},
                                  !.save = t.kind = "build", !.passError = FALSE]))>>}
      [] t.kind = "build" /\ ~t.ok -> {<<d, [s EXCEPT !.error = TRUE]>>}
      [] t.kind = "hydrate" ->
           {<<d, [s EXCEPT !.packed = p, !.failed = @ \cup t.failed,
                           !.save = @ \/ t.failed # t.window]>> : p \in Packed(s, t.encoded)}
      [] t.kind = "fullprep" /\ t.ok ->
           Marked(d, s.writer, t.refused)
           \X {[s EXCEPT !.packed = p, !.passError = FALSE,
                         !.next = IF t.at > @ THEN t.at ELSE @] : p \in Packed(s, t.encoded)}
      [] t.kind = "fullprep" /\ ~t.ok -> {<<d, [s EXCEPT !.passError = TRUE]>>}
      [] t.kind = "prepared_save" -> {<<d, Published(d, s, t.ok)>>}
      [] OTHER -> {<<d, s>>}

Finish ==
    /\ process = "running" /\ posted # <<>>
    /\ LET t == Head(posted)
           s == IF Owned(svc, t) THEN [svc EXCEPT !.busy = ""] ELSE svc
       IN  \E x \in (IF t.gen = s.gen THEN Committed(disk, s, t) ELSE {<<disk, s>>}) :
               Advance(x[1], x[2], queue)
    /\ posted' = Tail(posted)
    /\ UNCHANGED <<process, spent>>

-----------------------------------------------------------------------------
(* The ends of the process, and its starts.                                *)

\* close(): what runs is waited for, what is queued is not.
Close ==
    /\ process = "running" /\ Unlocked /\ spent.crashes < MaxCrash /\ Spare(disk, 1)
    /\ process' = "closing"
    /\ disk' \in Suspended(disk, svc)
    /\ svc' = Fresh(Turned(svc))
    /\ queue' = IF queue = <<>> THEN <<>> ELSE <<Head(queue)>>
    /\ spent' = [spent EXCEPT !.crashes = @ + 1]
    /\ UNCHANGED posted

\* The process is gone; the temporary files of its writers have no owner now.
\* Cura starts with the machine it ended with.
Over ==
    /\ process' = "booting"
    /\ svc' = NewService(svc.machine)
    /\ disk' = [disk EXCEPT !.writers = [w \in Writers |-> [@[w] EXCEPT !.dead = TRUE]]]
    /\ queue' = <<>> /\ posted' = <<>>

Exit  == process = "closing" /\ queue = <<>> /\ Over /\ UNCHANGED spent
Crash == /\ process = "running" /\ spent.crashes < MaxCrash /\ Spare(disk, 1)
         /\ Over
         /\ spent' = [spent EXCEPT !.crashes = @ + 1]

\* _adopt_interrupted(): one file an owner has left, when the stores of its
\* machine are made: at the start, or before the switch to that machine.
Adopt(w) ==
    /\ \E m \in Machines : w \in Left(m) /\ (process = "booting" <=> m = svc.machine)
    /\ process # "closing"
    /\ \E f \in Adopted(disk.final[disk.writers[w].key], disk.writers[w].temp) :
          disk' = [disk EXCEPT !.final[disk.writers[w].key] = f, !.writers[w].temp = NoFile]
    /\ UNCHANGED <<process, svc, queue, posted, spent>>

Boot == /\ process = "booting" /\ Left(svc.machine) = {}
        /\ process' = "running"
        /\ UNCHANGED <<svc, disk, queue, posted, spent>>

Next == \/ \E j \in Prints \cup {NoJob} : Bind(j)
        \/ \E m \in Machines : Rebind(m)
        \/ \E l \in Layers : Demand(l)
        \/ \E w \in Writers : Adopt(w)
        \/ Request \/ MetadataFails \/ MetadataComes \/ FileArrives \/ Clear \/ Work \/ Finish
        \/ Close \/ Exit \/ Crash \/ Boot

Spec == Init /\ [][Next]_vars

\* The worker runs, its terminals are delivered, the first request for the metadata ends
\* one way or the other (none need ever succeed), the job's file comes, a tick requests
\* the index, and Cura is started again.
FairSpec == /\ Spec
            /\ WF_vars(Work) /\ WF_vars(Finish) /\ WF_vars(FileArrives) /\ WF_vars(Request)
            /\ WF_vars(svc.identity = "none" /\ (MetadataFails \/ MetadataComes))
            /\ WF_vars(Exit) /\ WF_vars(Boot) /\ WF_vars(\E w \in Writers : Adopt(w))

-----------------------------------------------------------------------------
(* What must hold.                                                         *)

\* Every field keeps its type.
TypeOK ==
    /\ process \in {"booting", "running", "closing"}
    /\ svc \in Services
    /\ disk \in Disks
    /\ queue \in Seq(Tasks) /\ posted \in Seq(Tasks)
    /\ spent \in [turns : 0..MaxGen, demands : 0..MaxDemand,
                 unnamed : 0..MaxUnnamed, crashes : 0..MaxCrash]

Onto == {disk.final[k] : k \in Keys} \cup {disk.writers[w].temp : w \in Writers}

\* Whenever Cura dies, the layers a file on the disk advertises are in it: the
\* payload of append() reaches the file before its slot.
FilesAreWhole == \A f \in Onto : Valid(f)

\* Whose work the file of key k may hold: its own.  Under the fallback identity also
\* that of the identity which replaced it, because the session keeps its writer.
Belongs(k) == {c \in Keys : /\ c[1] = k[1] /\ c[2] = k[2]
                            /\ k[3] = "parsed" => c[3] = "parsed"}

\* A print's file holds that print's layers, of that machine, whatever was bound,
\* switched, cleared or identified anew while a worker was preparing them; and no
\* work item of the fallback identity stores into the file of the parsed one, which
\* the next session trusts.
FilesAreTheirOwn ==
    /\ \A k \in Keys : disk.final[k].of \subseteq Belongs(k)
    /\ \A w \in Writers : disk.writers[w].temp.of \subseteq Belongs(disk.writers[w].key)

\* A worker whose results still count reads a layer through the table it was
\* given at the offsets of the file that table came from: no publication has
\* replaced that file meanwhile.  (A worker of an older generation may see its
\* own suspended writer there; what it then reads goes nowhere.)
TablesMatchFiles ==
    \A i \in 1..Len(queue) :
        LET t == queue[i]
            f == disk.final[t.key]
        IN  /\ t.gen = svc.gen /\ t.kind \in {"hydrate", "fullprep"}
            /\ Present(t.table) /\ Present(f)
            => t.table.by = f.by

\* Of a generation there is at most one work item out, and none of the current one
\* once the busy flag says so: a terminal of an older one never clears it.
OneWorkItem ==
    LET out == queue \o posted
    IN  \A i \in DOMAIN out :
          /\ \A j \in DOMAIN out : out[j].gen = out[i].gen => j = i
          /\ out[i].gen = svc.gen => svc.busy # ""

\* The pass that calls itself complete has every layer in a published file of the
\* print: that of its identity, or of the fallback it has replaced since.
CompleteMeansPublished ==
    svc.complete => \E n \in {svc.name, "fallback"} :
                        AllResolved(disk.final[<<svc.machine, svc.job, n>>])

\* A start after a crash publishes no fewer layers than any candidate held.
AdoptionKeepsTheMost ==
    [][\A w \in Writers :
         LET k == disk.writers[w].key
             most(f) == Cardinality(Resolved(f)) <= Cardinality(Resolved(disk'.final[k]))
         IN  Adopt(w) => most(disk.final[k]) /\ most(disk.writers[w].temp)]_vars

\* Whatever was bound, switched, cleared, demanded or ended while a worker ran,
\* the worker comes to rest, and when nothing has failed (nor the bound on writers
\* been reached) the bound print is then prepared and published.
PassEnds ==
    <>[](/\ queue = <<>> /\ posted = <<>>
         /\ svc.job # NoJob /\ ~svc.error /\ disk.faults = 0 /\ disk.opened < MaxWriter
            => svc.saved)
====================================================================================
