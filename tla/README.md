# MoonrakerPrintFollower in TLA+

MoonrakerPrintFollower is a Cura plugin that follows and controls a print on a
Klipper printer through Moonraker. Its own logic is under `src/mpf/`; this
directory models the parts of it where the order of events matters, checks them
with TLC on small instances, and proves the most important facts about them
with TLAPS for every value of the constants. Paths below are relative to
`src/mpf/` unless they start with `docs/` or `tests/`.

## 1. Inventory

The plugin runs on Cura's UI thread: Qt delivers timers, socket data, HTTP
replies and signals there, and a signal runs its slots inside the `emit`. Only
a few helpers have threads of their own (the recovery executor, the download
writer, the index workers, the detection worker, the GL worker of the toolhead
scene). So the hard behaviours are of three kinds: the order in which replies,
frames, timers and button presses reach the UI thread; handlers that run inside
other handlers; and the few places where a second thread, a second process or a
crash comes in.

| Component (source) | State | Operations | Meets | Correct when |
| --- | --- | --- | --- | --- |
| Command table (`moonraker/MoonrakerSession.py`, `CommandTracker`) | one acknowledgement per command name | issue, accepted, failed, settled, observe, expire | client, lane, pauses | a verdict rests on evidence from after the press, and stands |
| Command lane (`monitor/controls/MonitorCommands.py`) | busy, tracked name, dispatch id, queue | send, request, reply, verdict, reset, emergency stop | table, permissions, transport | it is always released, the queue drains, stale entries are dropped |
| Scheduled pauses (`printing/PauseController.py`, `PauseScheduleService.py`) | layers, state of each, target, current layer | toggle, clear, bind, observe | table, transport, coordinator | one PAUSE per entry |
| Status feed (`moonraker/MoonrakerClient.py`, `MoonrakerSocket.py`, session) | feed mode, backoff, socket, coalescer slot, stamps, snapshot | start, stop, configure, tick, drain, subscribe, degrade, admit | Moonraker, every consumer of a status | the snapshot converges to the printer and never mixes printers or times |
| HTTP transport (`moonraker/MoonrakerTransport.py`) | one pending request per (owner, channel) | send, cancel, timeout, reply | everything that asks | each request gets one answer or is cancelled |
| Recovery attempt (`printing/RecoveryExecution.py`, `RecoveryHandover.py`) | stage, owned pose and modes, cancelled, handed over | start, cancel, status and script handlers | transport, printer | nothing moves on a stale check; a hand-over is never taken back |
| Recovery controller (`application/RecoveryController.py`) | phase, generation, plan, executor | plan, verify, start, cancel, re-plan, invalidate | attempt, remote job, session | the panel shows the attempt, stale results do nothing |
| Print coordinator (`application/PrintCoordinator.py`) | observed job, follow state | observe, session loss, select file | pauses, recovery, index, preview | consumers see a frame in one fixed order |
| Remote job identity (`printing/RemoteJobService.py`) | run, identity, metadata | observe, reset | coordinator, recovery | a new run is told from an old one |
| Monitor model, data, permissions (`monitor/`) | observation record, runtime | buttons, polls, settle | lane, client | a button is offered only when its command may be sent |
| Toolhead and tuning (`monitor/toolhead/`, `monitor/controls/`) | jog queue, fresh-state query | enqueue, pump, drain | lane, transport | no jog is sent on a stale permission |
| Remote files, downloads (`files/transfers/`) | leases, retired paths, writer thread | download, restore, lease, release | transport, disk | no leased file is deleted, a paused reader resumes |
| Uploads (`files/transfers/UploadController.py`) | operation, stage | power on, wait, upload, verdict | transport, print start | a stale result changes nothing |
| G-code index (`application/indexing/`) | generation, task, busy, stores | open, build, suspend, rebind | store, workers | a stale terminal never clears a newer task |
| Prepared store, caches (`gcode/`) | file with a slot table, checkpoints | append, suspend, finish, adopt | disk, a second process | a crash never loses or mixes layers |
| Settings, migration (`settings/`) | preferences, documents, record | merge, migrate, verify, clean | disk | replayable after a crash at any step |
| Detection (`detection/`) | generation, worker, model files, record | set up, run, enable, remove, act | print, disk | a removal is done or remembered, and the window shows how the worker is |
| Camera, console, preview, plate, toolhead scene, widgets | display state | frames, drawing | feed | mostly presentation |

`PROJECT.json` lists every component with what is modelled of it, and the
hazards of this code at the lines where they bite.

## 2. Modules

| Module | Models | State |
| --- | --- | --- |
| `CommandTracker` | the command table, as functions of the table | none of its own |
| `CommandLane` | lane, scheduled pauses, admission and settling of commands, emergency stop, permissions of the queue | `cmds snap assumed connected active obs lane pauses` |
| `CommandLane_proofs` | theorems: type, honest confirmations that stand, the empty idle lane, the busy lane that waits, one PAUSE for an entry, revalidated one-shots | |
| `RecoveryExecution` | one attempt, as functions of the attempt, and the printer's answer to its scripts | none of its own |
| `RecoveryController` | controller, executor, the two request lanes, the printer with its G-code queue, remote job, other clients | `ctl exec wires worker seen printer klippy` and the ghosts `meddles verified resumed` |
| `RecoveryPromise` | the abstract specification of an attempt | `stage asked` |
| `RecoveryController_proofs` | theorems: type, panel, completion, the awaited answer, acting on what was verified, refinement | |
| `StatusFeed` | client, socket, coalescer and admission against one Moonraker and its Klippy | `printer feed relics budget` |
| `StatusFeed_proofs` | theorems: type, one printer, the closed socket, the slot, nothing shown goes backwards | |
| `DownloadStream` | one streamed download: the reply with its bounded buffer, the reader on the UI thread, the writer thread | `reply op writer gui inbox outcome` |
| `FileTransfer` | the abstract specification of a download | `bytes result` |
| `RemoteFiles` | the file service: metadata, identity, download, restore, publication, leases, retirement, the raw cache | `svc job files ops cache remote users` |
| `Downloads_proofs` | theorems about both: type and memory bound, the sleeping reader, refinement; type, leased files stay, nothing is left behind, a wanted file is underway, a file is its identity | |
| `PreparedFiles` | the prepared files: slots, payloads, adoption after a crash, as functions of a file | none of its own |
| `IndexService` | the index service and its worker over `PreparedFiles`, and the ends of Cura's process | `process svc disk queue posted spent` |
| `IndexService_proofs` | theorems: type, whole files of their own print, tables, completeness, one work item, adoption | |
| `SettingsMigration` | the legacy chains and the one-shot migration, a step for each write to the disk | `origin disk cura spent` |
| `SettingsMigration_proofs` | theorems: type, nothing is lost, live settings win | |
| `ToolheadQueue` | the queue of manual moves on the command lane, against a printer that runs one script at a time | `printer seen lane jog check spent` |
| `EnvironmentMailbox` | the two pairs of reflection maps with their states and fences, one action or function for each method | `pairs front generation closed` |
| `ToolheadReflections` | capture worker and render thread over the mailbox, the two command streams of the GPU, every way of closing | `drawing capturing link worker main facade leases inputs deletions faults` |
| `Toolhead_proofs` | theorems about the queue (type, every move is checked) and the reflections (type, no map is sampled while it is written, every source has one owner) | |
| `LocalDetection` | the detection service and its worker thread, their mailbox, the record in the settings, the installed files, ends of the process | `record disk gui shared mailbox saving worker ghost spent` |
| `LocalDetection_proofs` | theorems: type, a removal is done or remembered, a worker at rest is shown as it is | |
| `MC...` | instances for TLC, one for each module a run checks | |

A step is one handler on the UI thread together with every handler it calls
synchronously. That is why the models are written as functions of records
(`Released`, `Pumped`, `Sent`; `Carry`, `Judged`, `Onward`; `Refreshed`,
`Admitted`, `Degraded`): a handler's nested calls are compositions of them, in
the order of the code. What happens between two handlers (another reply, a
frame, a press, another client) is the interleaving of actions.

### The command lane

`Press` is a button (its permission, then `request`), `AcceptCommand` the reply
path of the client with its second observation of the cached state,
`ControlReply` the completion callback of the lane, `PauseReply` that of the
scheduled pause, `AdmitFrame` an admitted status with everything it does:
merge and observe, restart arming, publication to the monitor and to the pause
controller, then the commands' events. `Superseded` is restart arming;
`EmergencyStop`, `InvalidateSession`, `ConnectionLost`, `KlippyReady` and
`ExpireCommands` are what their names say.

Abstractions: the lifecycle token of the lane is subsumed by its dispatch id;
receipts, status texts and the arming of the emergency stop are display;
print duration is a free choice of "lower than at the assumption"; the order of
Python's dict of commands is a free choice; the refresh forced at the end of a
handler is the next `AdmitFrame`; dispatch 0 is an id no post carries. The
ghosts `accepted`, `fresh`, `atIssue`, `settled` and `unheard` of a command
record what evidence its verdict rests on. A verdict can be swallowed: an
observation inside `accept_command` changes other commands whose events are not
emitted (`unheard`), and a lane waiting for such an event stays busy until an
emergency stop or a session change; `BusyLaneWaits` and `LaneReleases` name
that one exception.

### Recovery

`Plan`, `PlanDone`, `ProfileReply`, `Start`, `VerificationDone`,
`IdentityReply` are the controller's; `StatusReply`, `ScriptReply` and
`ReplanDone` run the attempt; `ExecutorDone` is the single worker thread, whose
FIFO order is what keeps a late re-plan from clearing the next attempt's
callback. `RunScript`,
`FailScript`, `PrintOn` are Klipper, which runs scripts one after the other,
including those whose HTTP request has long timed out; `Meddle` is another
client of the same printer. The answers to a script may be lost, late, or an
error whatever the printer did.

Abstractions: an attempt's token is subsumed by (generation, stage); positions
are classes (`pos` 0 elsewhere, 1 at the boundary, ...) and the details of the
handlers' checks that do not change the control are one flag, `fit`; a new run
is the regress of duration or position that `RemoteJobService` looks for.
`close()`, exceptions inside the scan worker, and reentrancy of the `changed`
signal are left out.

### The status feed

A value of the printer is a version number, so "newer than", "of this run of
Klippy" (`epoch`) and "of this printer" (`bound`) are comparisons. `feed` holds
both ends of the wire: what the client asked (`asks`, `http`), whether
Moonraker pushes (`subscribed`), and what it sent and the socket has not read
(`down`, first in first out). `Becomes(f)` closes every step: it renames the
monotonic stamps, which are only compared, to their ranks, and notes `relics`.
The ghost `runs` keeps the first version of every run of Klippy of this printer,
for `NeverBackwards` to say of which restart a fragment is the older side.
`Tick`, `ForceRefresh`, `QueuedRefresh` are the three ways into `_refresh`;
`Degraded` is both fallbacks to HTTP; `Configured` is the rebind, and also the
configure without one, which puts a degraded feed back on its configured mode
while an HTTP request may be out.

Left out: events of one read buffer handled after a handler stopped the socket,
reentrant admissions and publications, the auxiliary accumulator, JSON-RPC
requests other than subscribe, equal stamps (the code lets them through), the
client's generation where cancelling the owner's requests and handlers already
does its work.

### Downloads and remote files

`DownloadStream` is one download. `Arrive` puts bytes in the reply's buffer,
which holds `Cap`; the reader (`gui`) moves them to the writer's queue until the
backlog reaches `High`; the writer thread takes them, and what it does between
its lock and its signal is a step of its own (`writer.at = "waking"`), because a
wake-up can be lost only there. `TransfersTheFile` says that all this is a
`FileTransfer`, and that the writer thread ends.

`RemoteFiles` is the service around it. A download is one operation here
(`ops[p]`), with the points at which its thread and the UI thread can overtake
each other: finished on disk and not yet reported, restored from the cache and
not yet reported, publishing. A *version* is what the file holds on the printer;
`Overwrite` replaces it. An identity is what the listing or the metadata says,
and the code can tell the bytes of two versions apart only by their size, so
versions differ in size. A path stands for one working directory.

Left out: `FileDownload`'s save lane (it shares `DownloadStream`), metadata-only
requests, a switch of the cache directory, and session boundaries other than
the binding of no job.

### Prepared layers and the index service

`PreparedFiles` describes one file of prepared layers: an incremental writer
puts a payload and then its slot, a publication replaces the final file, and
`Adopted` chooses between the two that a crash leaves. `IndexService` is the
owner and its single worker on top of it. A work item carries its generation,
its key, its table and its demand from the time it was submitted; the owner may
bind, switch the machine, clear or close while it runs; its terminal is
delivered later (`posted`). `Crash` ends the process between any two steps and
`Adopt` and `Boot` are the next start.

A print has up to two identities. When its metadata cannot be had, it goes by
the path and the size Moonraker lists (`"fallback"`, `MetadataFails`), which
unblocks the download; the identity that the metadata give, with its modified
time, replaces that one for the same job (`"parsed"`, `MetadataComes`). The key
of a file is the machine, the print and that name (`Key`, `Named`).
`SessionOpen` therefore opens a session twice in one binding: the second time
the key and the table are the parsed identity's, while the writer, the saved and
complete latches and the frontier of the pass are those of the first
(`PreparedSession.py:146`).

Two things worth knowing when reading it. A worker of an old generation may
read through its table after its own suspended writer has replaced the file;
what it then reads is dropped by its generation, and `TablesMatchFiles` says so.
And a file of another machine is adopted at the switch, before `Rebind`.

Left out: the isolated worker process on Windows, progress signals, the eviction
of prepared files, the arrays of the motion index and their debt, GPU prefetch,
the check of the layer count, the LRU of decoded layers, and a reused process
id. Metadata that say no more than path and size, or cannot be parsed, leave the
identity as it is and are no step. A packed layer that is kept in memory across
the change of identity counts as work of the item that stores it: the model does
not follow which download it was made from (16b). Cura restarts with the machine
it ended with. When `MaxWriter` writers have been opened, the next open fails,
which is a failure the code handles.

### The migration of the settings

The procedure runs on the UI thread from end to end, so only the end of the
process comes between its steps; a step is one write. `Writes` is that write,
which may fail and leave the file as it was (the documents are replaced
atomically). `Boot` and `Switch` are Cura's readiness and a change of printer,
with the two legacy chains (`FlatMoved`, `Imported`); `Decision` is what
`run_persistence_migration` makes of the record; `Save` and `Exit` are Cura's own
saves of its preferences, which decide what of the clean reaches the disk.
A record, a shard or a document is `none`, `old` (migrated) or `live` (the user
has changed it since).

Left out: the per-key content of a record, a second Cura between the unlocked
read of the existing settings and their write, a `settings.json` that cannot be
decoded (read as empty), two attempts within one second (they share the backup's
name), and instances of Moonraker Connection that are no dictionaries.

### Manual moves

`ToolheadQueue` follows `ToolheadController` and as much of the lane as it
needs: the handler functions pass on a record of the printer's scripts, the
lane, the queue and the query (`Pump`, `PauseFirst`, `Dispatch`, `Query`,
`Checked`, `Settled`, `Hears`). A pump nested in another one does nothing, as
`_pumping` and `_querying` make sure, so the order of the signals around a
verdict matters: the lane announces that it is idle (the queue pumps), sends its
own next command, and only then the queue hears of the verdict. A POST that is
out when its command ends (`wire = "old"`) keeps the channel taken.

Left out: the projection of positions and the arithmetic of safe endpoints (an
unsafe one is one of `Refused`'s outcomes), the poll-rate guard, the mode latch,
status texts, restart arming of the emergency stop's assumption, and `close()`.

### Reflections

`EnvironmentMailbox` is the class of that name: two pairs of maps, of which one
is shown while the other is built, and for each the fences that say when the
GPU has done with it. `ToolheadReflections` puts its two users around it. The
worker thread (`worker.pc`) takes a job, reserves a pair, captures in `Turns`
turns, waits for its fence and publishes; the render thread (`main.pc`) asks
the fence, adopts, draws and ends its reads; both stop and are stopped. The GPU
is the two queues `drawing` and `capturing`: a command has effect when it leaves
its queue, in the order of its own context and in no order with the other one,
and a fence is its place in the queue. That is why a pair that the CPU has long
handed over can still be read by the GPU, which is what the fences are for.

A scene that is not ready shows before `step()` or where it would submit;
`Defers` is `defer()` at either place, which collects nothing.

Left out: the synchronous fallback, time budgets, the geometry of the capture
and of the query, more than one life of the facade, a scene that changes and
changes back while its map is still shown (the code may then fade from it, the
model does not), and a drain of the capture that fails inside a turn (the model
lets the turn itself fail, and every wait that follows it).

### Local detection

`LocalDetection` follows `LocalDetectionService` on its two threads. A press or
the drain of the mailbox is a step of the UI thread, a stretch between two locks
or two accesses to the disk one of the worker (`worker.pc` names where it is).
A save merges a patch into the record in memory, writes the result and puts it in
place of that record, on either thread and without a lock, so a save takes two
steps (`saving.base`, `worker.base`). A report (`mailbox`) carries the generation
it was sent with; `Hears` is what the UI thread makes of one. `Crash` ends the
process between any two steps, and the next one reads what is on the disk.

Four ghosts say where the code goes astray, and the properties name them as their
exceptions (14 below): `missed`, `mute`, `overtaken`, `crossed`.

Abstractions: the generation stands for the context of a frame; of the phases
only "checking" matters; consent and the offer are saves without an effect of
their own; the progress of the transfer is one report; the lane shared between
services is free unless the service is closed or cancelled; the deletions that
undo a failed setup are one step; a drain hears one message after the other and
lets no other slot run until the mailbox is empty, which never holds the sixteen
reports a drain is limited to. The judgement of the scores and what
is done to a print because of it (`DetectionRun`, `DetectionPolicy`,
`DetectionActions`) are left out.

## 3. Runs

Every run finishes well within five minutes with two workers.

| Run | Instance | Shows |
| --- | --- | --- |
| `lane` | Pause and Resume, queue of 1, two posts | confirmations rest on honest evidence; a busy lane waits for something; verdicts stand; every dispatch ends; gated entries are checked when they leave the queue |
| `pauses` | layers 1 and 2, one job | each entry fires one PAUSE |
| `recovery` | prime and cleanup, one act of another client, generation up to 4 | the attempt implements `RecoveryPromise`, with its liveness; the panel shows it; it waits for an answer that is on its way; complete means its own M24 ran; scripts run on what was verified |
| `feed` | two fields, three versions, one restart, one fault, start and one more act | no mixing of printers, no way backwards, no socket beside HTTP, convergence |
| `relics` | the same, no fault, start only | a fragment from before a Klippy restart is drained over the new sync |
| `stream` | a file of 8 bytes, water marks 4 and 2, a buffer of 2 | no lost wake-up, the stream implements `FileTransfer`, the thread ends |
| `files` | three working directories, two versions, two bindings, one lease | leased files stay, nothing is left behind, the file is what its identity says, a wanted file is under way |
| `index` | two machines, a print of two layers of which the codec refuses one, two writers, three bindings; a demand, a fault, a crash, metadata that come at once or after an error | files are whole and their own, tables match the files they are read with, complete means published, one work item at a time, the pass ends and is published, adoption keeps the most layers |
| `migration` | five installs over two printers; a fault, a crash, an edit, a restored preference file | nothing is lost, live settings win, the migration settles |
| `toolhead` | three operations, a queue of 2, one other command with a place behind it, one disturbance | moves leave only on a fresh check, the queue is worked off or dropped |
| `reflections` | two captures of two turns, a change of scene, a fade of one frame, one fault of the driver | no map is sampled while it is written, each input fence has one owner, stopping returns everything, sealed maps drain, a capture that was asked for comes to an end |
| `detection` | four earlier lives, three presses, a frame, two resets, errors or ends of the process | a removal is done or remembered; a worker at rest is shown as it is |

Two installs in `migration` have records, one of them with a record that is no
dictionary; one has a damaged blob; two have settings from before there were
records, with or without what Moonraker Connection knows.

Bounds. Two stateful commands are enough for one to be live while the other
holds a verdict; two layers are enough to cross both at once and to fire the
second after the first. Four generations let an attempt be invalidated,
re-planned and started again while the first one's answers are still out. In
the feed, two fields let one be changed while the other keeps its old value,
three versions are a value before and after a change and one for the next run
or the next printer, and one fault, one restart and one rebind can meet in any
order. In the stream, the file is twice the high-water mark, so the reader
pauses and is woken more than once, and the buffer is smaller than the marks,
so a reader that is not woken leaves it full. Three directories (`MaxPath`)
are a download, the one that replaces it, and a restore. Three bindings,
switches or clears (`MaxGen`, counted over all processes) let the terminal of a
worker arrive when the one that replaced it is over. One request for metadata
that fails (`MaxUnnamed`) is what gives a print its second identity; demands,
faults and ends of the process share one allowance (`MaxTrouble`, 3), of which
that error takes two, so that each meets each of the others. Two
writers (`MaxWriter`) are one that is suspended or dies and one that reopens.
In the migration one fault and one crash meet in any order, and the crash may
come after a restored file. A queue of two operations has a head and a tail,
and the third is refused or comes after the first. In the reflections two jobs
(`MaxSerial`) fill both pairs, a draw the GPU is behind (`MaxAhead`) is one that
still samples what the CPU has returned, and one change of scene
(`MaxGeneration`) and one fault (`MaxFault`) meet anywhere in a capture. In the
detection three presses are a removal, a setup and another removal, or a setup,
its cancellation and the next thing asked, each over anything an earlier life
left; two upsets are a failure that a restart or a reset meets.

`MaxSent`, `MaxGeneration`, `MaxMeddles`, `MaxVersion`, `MaxRestarts`,
`MaxFaults`, `MaxActs`, `MaxPath`, `MaxBind`, `MaxLease`, `MaxGen`, `MaxWriter`,
`MaxDemand`, `MaxUnnamed`, `MaxTrouble`, `MaxFault`, `MaxCrash`, `MaxCrashes`, `MaxEdits`, `MaxRestores`,
`MaxPush`, `MaxPress`, `MaxMeddle`, `MaxAhead`, `MaxSerial`, `MaxFrames`,
`MaxUpsets` are bounds of the
models only, `Turns` and `FadeFrames` small values of the code's; `MaxQueued` is
the code's `MAX_QUEUED_COMMANDS`, `MaxPending` its `MAX_PENDING_OPS`, `High`,
`Low` and `Cap` its water marks and its read buffer.

Deadlock is checked except where the system really stops: `files`
(closed), `detection` (at rest or closed), `stream` (over), `index` (the bounds on bindings and ends of the
process are used up), `reflections` (gone).

Fairness. `LaneReleases` assumes that a POST is answered (the transport's
timeout answers for a silent peer), that deadlines pass and that the command
timer runs. `KeepsPromise` assumes that requests are answered (the same
timeout) and that the scan on the executor ends. `FeedConverges` assumes that
the poll, proof and backoff timers fire, that a link is read, that Moonraker
answers what it is asked and Klippy comes back, but neither that a handshake
ends nor that the key is accepted (15 below).
`TransfersTheFile` assumes the event loop, the writer thread, and that bytes
arrive while the buffer has room (a silent peer is the transfer timeout's).
`PassEnds` assumes that the worker runs, its terminals are delivered, the file
comes, a tick requests the index, a Cura that ended is started again, and the
first request for metadata ends one way or the other; none need ever succeed.
`MigrationSettles` assumes that the procedure goes on, and that Cura is ended
and started again some day: a failed migration waits for that. `QueueSettles`
assumes that frames keep coming, posted calls run, timers fire and requests end.
`CaptureSettles` and `SealedMapsDrain` assume that the GPU executes, the worker
thread runs, frames are drawn while the scene stays the same, teardown goes on,
and that the worker's queued signals are delivered some time when they are
possible again and again (strong fairness: a frame may be under way each time).
No fairness is assumed of buttons, other clients, faults, or Klipper.

### What disagrees with the code's own words

One run ends in a counterexample.

1. *Fragments of the previous run come back* (`relics`,
   `moonraker/MoonrakerClient.py:274`). The core accumulator is not emptied at a
   Klippy restart; when Klippy is back before the backoff has ended, the first
   tick merges them over the sync, and a field the new run does not change
   (homed axes, for one) stays wrong.

The others are visible in the models, where a property names the exception or a
step takes the order of the code.

2. *Metadata that comes during a download ends it*
   (`files/transfers/RemoteFileService.py:890`). The whole file is refused with
   "retrying against its identity", and nothing retries: the error is latched
   without `auto_retry`, and `WantedIsUnderway` has to count an error as an end.
3. *Cached state confirms* (`moonraker/MoonrakerClient.py:744`). Any frame that
   raises the revision makes `accept_command` observe the cached state, so a
   Resume is confirmed by a state from before it: `ConfirmedHonestly` has to
   allow `atIssue`.
4. *Crossed targets do not coalesce* (`printing/PauseController.py:106`):
   `Fires` fires one PAUSE for each of the targets crossed together, against
   `docs/ARCHITECTURE.md:1026`.
5. *Revalidation reads the frame before* (`moonraker/MoonrakerClient.py:633`).
   Restart arming announces its verdicts before the frame is published, and the
   queue pump runs inside that announcement; `GatedShotsRevalidated` says "on the
   state before or after the step".
6. *A new print confirms the old print's command*
   (`moonraker/MoonrakerClient.py:594`). The merge observes before restart
   arming retires, as `AdmitFrame` does.
7. *The recovery's own run ends it* (`application/RecoveryController.py:445`).
   A Cancel after the hand-over changes the phase that protects the attempt
   from the notification of its own run (`OwnRun`).
8. An HTTP request from a degraded period that fails after the websocket has
   come up marks the feed disconnected, "retrying", and nothing retries; the
   next pushed change, whenever that is, marks it connected. The statement of
   `FeedConverges` shows it.
9. *A repair can lose layers* (`gcode/PreparedStore.py:512`). The writer of a
   reopened print starts empty, and suspending it replaces the published file;
   a print that is left in the middle of its repair keeps fewer layers than it
   had. `AdoptionKeepsTheMost` is about a start after a crash only.
10. *An unreadable layer is asked for without end*
   (`application/indexing/GCodeIndexService.py:121`). When a layer's lines cannot
   be read from the raw file, the repair stops at it, its error is cleared by
   the next submission and the pass is submitted again at once; with
   `Unreadable` not empty `PassEnds` does not hold.
11. The migration. (a) Flat settings whose printer is unknown at readiness are
   reset without having reached a record, once the import alone has opened the
   gate; only the backup keeps them, and that is all `NothingIsLost` asks.
   (b) After a failed write of the record, the next start is said to replay
   against an empty source; but the clean has reset the import's flag, and
   Moonraker Connection is imported again (gaps only: `LiveStateWins`). (c) A
   record that is no dictionary never passes the verification, and every start
   writes another backup: `MigrationSettles` excludes it. (d) The keys from
   before the rename are copied over the new ones at every start, though
   `PrinterBinding` says that new keys win. (e) The toast about a failure writes
   the session's failed record, and the legacy chains do not run afterwards.
   (f) The wipe of a removed printer is skipped while it has no entry.
12. Manual moves. (a) A script whose POST timed out (30 s; a bed mesh or a
   homing takes longer) frees the lane, and the next move is checked against an
   endpoint its still running predecessor will change, though
   `ToolheadController.py:649` says the endpoint is read after the
   acknowledgement: `MovesAreChecked` can only say that nothing of the *lane's*
   is out (`owed`), while `behind` may be true. (b) An offset sent while printing
   sets `_draining`, so a jog queued behind it is dropped as "resumed" though no
   pause was granted. (c) When a Pause of the user's fails, the pump nested in
   the verdict sends the queue's own Pause, and then the verdict drops the
   queue: the print is paused for no move. (d) Locking and unlocking the
   controls within one query leaves the queued move alive.
13. *A failed capture can take the whole toolhead with it*
   (`monitor/toolhead/ToolheadAsyncEnvironment.py:69`). After a failure the
   worker closes the mailbox on its own thread. A frame drawn before its signal
   is delivered still finds reflections available; acquiring raises out of the
   draw, and `CompositeOverlay` latches the failure of the whole head, although
   `ToolheadEnvironment.py:335` says that a map fault retires only the optional
   reflection. `Draws` takes this path (`facade.failed`).
14. Detection. (a) *A reset can make the last report stale*
   (`detection/LocalDetectionService.py:398`): a reset between the worker's
   report and the drain, or before a startup fails with the generation it began
   with, leaves the window "checking", or ready without a model, although
   `tests/test_detection_service.py:375` says that a reset only invalidates
   frames (`missed`). (b) *A cancelled load says nothing* (`:475`): the lane is
   refused and no report is sent. When the setup that was cancelled is then
   absorbed by the startup, the cancellation stays set, and every frame is
   refused until detection is switched off and on (`mute`; `Infers`). (c) *The
   two threads save over each other* (`:216`): consent or an offer saved from a
   record read before undoes an enabling, or a tombstone, saved in between
   (`overtaken`). (d) *The end of a removal answers what is asked after it*
   (`:662`, `:397`): a removal that is requested before the worker crosses off
   the one before is forgotten and stays busy; a removal requested before the
   first startup runs twice, and its second answer ends the wait of a setup
   pressed in between, so that a removal is accepted during that setup, and the
   setup installs after it (`crossed`).
15. *A silent link is noticed only before the first data*
   (`moonraker/MoonrakerClient.py:336`). The comment at `:319` gives the
   websocket a window to deliver or the feed degrades, but the proof counts
   data of the link before: after a reconnect a handshake that hangs, or a
   subscribe rejected as "unauthorized" (`:252`), stays as it is while the owner
   is told of a retry, because a connecting or upgraded socket is left alone by
   every tick. `FeedConverges` says so much by `Unproven` and nothing more: it
   fails when either half of `Unproven` is dropped.
16. *The second identity of a print keeps the first one's work*
   (`application/indexing/PreparedSession.py:146`). `open` is "a one-shot per
   identity" (`:138`), but the writer, `_saved`, `_complete` and the frontier
   are not reset when the identity changes. (a) The pass that began under the
   fallback identity goes on into that one's file, which no later start trusts
   (`:153`); the parsed identity's file, which "the fresh pass's publish
   replaces" (`:143`), is not written, and a complete session may have none.
   `Belongs` and the second half of `CompleteMeansPublished` allow this and
   nothing more: the other direction, work of the fallback identity in the
   parsed one's file, stays excluded for what is read through a table or built
   by an item. (b) `RemoteFileService.py:556` retires the file that was downloaded
   under the fallback identity, but the index built from it is kept, and saved
   under the parsed one, and so are the layers packed in memory, against
   "prefer rebuilding over stale geometry" (`PreparedSession.py:154`).

## 4. Proofs

`tlapm` checks the eight proof modules with no assumption but those the
constants carry (`LayersAssumption`, `JobsAssumption`, `FieldsAssumption` and
their like).

* `TypeCorrect`, `RecoveryTypeCorrect`: one typing lemma for each function a
  handler is made of, then one step for each action.
* `IdleLaneIsEmptyAlways`: `IdleLaneIsEmpty` is inductive together with the
  types. The lemma `PumpedIdle` is the heart: pumping a lane either finds
  nothing it may send, and empties the queue, or sends and leaves it busy; and
  `LaneIdle` carries that to every way a verdict or a reply reaches the lane.
* `ConfirmationsAreHonest`: `ConfirmedHonestly` alone is not inductive, because
  the re-observation in `accept_command` confirms on the cached state.
  `HonestInv` adds what makes that state evidence: a live command whose
  expected state is the cached one has seen it since it was issued, or was
  issued over it; a Pause or a Cancel is never issued over a state it expects;
  and, for that, an observation of an active print is the cached state itself.
* `OnePauseIsFired`: by `OnceInv`: a layer with no lifecycle state has posted
  nothing, one that has posted has posted once, and a layer that is tracked will
  hear a verdict, never the empty outcome that would arm it again.
* `BusyLaneAlwaysWaits`: by `WaitsInv`. The POST that is out belongs to the
  command its lane tracks (`Own`), and the command a busy lane tracks has the id
  of that dispatch and is live, or its verdict was swallowed (`Followed`). In the
  middle of a handler the verdict may also still be in the set of events to
  deliver, which is `Followed`'s third argument.
* `AConfirmationStands`: by `NumberedInv` with `HonestInv`. A failed POST closes its
  command whatever its outcome was; it cannot undo a confirmation, because the
  POST of an accepted command has been answered and no later POST has its id.
* `GatedShotsAreRevalidated` needs no more than the types: `GatedStep` looks at
  every handler from which a one-shot can be sent, and `HearsSends` says what any
  pump inside a handler may send.
* `PanelAlwaysShowsTheAttempt`, `CompleteAlwaysMeansResumed`, `PromiseIsKept`:
  by `RInv`, that is `TypeOK`, `Sound` (stage, activity, hand-over and cancel of
  an attempt fit together), `OneErrand` (a generation has at most one errand
  under way: a plan, a profile check, a verification, an identity check or the
  attempt), `PanelShowsTheAttempt`, and `RanIsKnown` (a "resuming" script that
  ran belongs to a generation whose M24 ran). `OneErrand` is why a late answer
  cannot start or end an attempt behind the panel's back. `PromiseIsKept`
  refines the safety part of `RecoveryPromise`: every step maps to a step of it
  or to a stutter.
* `AnAttemptAlwaysWaitsForAnAnswer`: by `Undisturbed`, another part of `RInv`.
  The executor's queue may hold re-plans of attempts that were cancelled.
  `Unhindered` says where the errand of the current generation is (profile check,
  plan, verification, identity check, attempt), that no such re-plan is behind it,
  and that none at all is left when an attempt waits for anything but its
  re-plan; so the one re-plan an attempt waits for is its own (`OnlyReplan`).
* `AnAttemptActsOnWhatItVerified`: by `Informed`, the last part of `RInv`. `Posted`:
  no script Klipper still has is of a generation whose status query is out or of
  one yet to start. `InTurn`: an attempt's script is behind those of other
  attempts only in its first three stages, and once it is answered Klipper has
  nothing to run. `Ready`: when such a script's generation was the last to read
  the printer, the printer is as it was read. `Fresh`: a printer that does not
  print stays what the status answer on its way shows. `AtBoundary`: what the
  attempt cannot read again (the file is at the boundary, the modes are restored)
  holds for as long as the nozzle has not been moved away.
* `FeedTypeCorrect`, `OnlyThisPrinterAlways`, `UnusedSocketIsAlwaysClosed`,
  `SlotAlwaysHasItsRequest`: by `FeedInv`, the types with `Fit` of the feed to
  the printer's first version. `Fit` is a conjunction about one feed, so each
  handler function has one lemma that says it keeps it (`RefreshedFit`,
  `DegradedFit`, `AdmittedFit`, ...) and an action is a use of those. The
  invariants alone are not inductive: `Wanted` adds that a socket belongs to a
  feed both running on the websocket and configured for it, without which a
  degraded feed could connect again, and that only an upgraded link carries
  anything; `PrinterFit` adds that the printer itself never reports a value
  older than its binding. `ConfiguredFit` is the heart: a rebind turns a feed
  that fits the old printer into one that fits the new one, because stopping
  retires the request before the session is reset. `Greatest` shows that `Max`
  is what its name says, from well-foundedness and without induction.
* `NothingGoesBackwards`: the action property `NeverBackwards`, by `OrderInv`, which
  adds to `FeedInv` an order on everything between the printer and the user. The
  fragments the socket keeps and the messages on the link behind them form one
  line. `Told` says that its values only grow from place to place, that none is
  newer than the printer, that a sync has every field, and that each sync, and the
  printer's status now, is no older than what the patches ahead of it leave, unless a
  restart of Klippy lies between. `Awaits` says it of the client: a patch is no
  older than what is shown or than a sync ahead of it that will be admitted,
  an HTTP request is older than the subscription and than every fragment beside
  it, and once a sync was shown an answer to it is refused. `Shown`: what is shown
  and what HTTP answered is not newer than the printer, and an answer that can
  still be admitted is no older than what is shown. The parts are about one line,
  status or stamps given as arguments, so that a handler that sends, reads or
  merges has one lemma for what it does to the line (`Longer`, `Shorter`,
  `Turned`); that renaming stamps to ranks keeps their order is shown once
  (`Ranked`). The property was first stated with `relics`, and the attempted
  proof showed that this fails when Klippy restarts twice, which the bound of the
  run hid: fragments of the first run may be merged over a sync of the second
  after the third has begun, and `relics` only knows of values of the third. It is
  now stated with `runs`.

* `StreamTypeCorrect`, `SleepersAreWoken`, `StreamsTransfer`: by `StreamInv`. Its
  types contain the memory bound: what the writer has not counted is at most the
  high-water mark and one read buffer. `Ordered` says which bytes the queue
  holds, by a function that gives each of its entries the offset it starts at,
  and makes the written file a prefix; `Counted` ties the backlog to the queue;
  `Bounded` and `Alive` say what a paused reader and a working writer imply of
  each other. `SleepingReaderIsWoken` needs all of them, since the wake-up is
  lost or not between the writer's lock and its signal. The refinement is of
  the safety part.
* `FilesTypeCorrect`, `LeasedFilesAlwaysStay`, `NothingIsEverLeftBehind`: by
  `StoreInv`, the types (`FilesInv`: what the machine's bounds and a restore's
  identity need) with `Stored`. Its part `Kept` is the ledger of one path: its
  leases are its users and, while a publication of it is under way, one more; a
  leased path is on the disk, no operation of it is under way, and it is the
  current one or retired; a retired path is leased and not the current one. So
  the last release finds exactly what there is to delete, and a path on the
  disk belongs to the job, to a lease, or to a restore whose thread deletes
  it. `Pinned` says the same of the markers of the shared cache. Both are about
  one path, a job, a ledger, operations and users given as arguments, so that
  they can be said in the middle of a handler; each function a handler is made
  of has one lemma, for its own path and for the others (`UntouchedKeeps`).
* `WantedIsAlwaysUnderway`: by `ServiceInv`, which adds `Underway` (a bound and
  wanted file is there, asked for, on its way, or refused; a refusal that will be
  retried has its timer; metadata that failed has a request or a timer) and
  `Urgent`, what a job's flags imply of each other, by which the handlers that
  return early return with one of these in place.
* `FileIsAlwaysItsIdentity`: by `NamedFiles`. A restore knows its version when it
  begins, a download is accepted for one, and only what was accepted is
  published; so a file on its way into the cache and one on its way out of it
  hold what they are called (`Whole`), and the cache does (`Honest`).
* `IndexTypeCorrect` and the six theorems about the index service: by
  `IndexInv`, one inductive invariant over disk, service, executor queue and
  undelivered terminals. `Kept`: each final or temporary file is valid and holds
  work of keys that belong there (`Belongs`). `Session`: a table is the published
  file's of the session's own key, unless the terminal of a publication is on its
  way; the session goes by the parsed identity only if the service does; a complete
  session is saved, and what it published is on the disk under its own key or the
  fallback one. `Single`: of a
  generation at most one item is queued or undelivered. `Fits` and `Counts` say
  of each item, wherever it is, which writer it may write to and that, when it
  is of the service's generation, the busy flag stands for it. `Lock` and `Held`
  are what the running item has done between two steps. A crash forgets all
  but `Kept`, and an adoption chooses between files that are `Kept`
  (`ChosenSound`).
* `MigrationTypeCorrect`, `NothingIsEverLost`, `LiveStateAlwaysWins`: by
  `MigrationInv`, which says for each point of the procedure which copies have
  been written and verified; cleaning is allowed only behind them, and a crash
  takes away the point but not the copies.
* `QueueTypeCorrect`, `MovesAreAlwaysChecked`: by `QueueInv`, the state that the
  nested handlers pass on (`Fit`), with one lemma for each of them (the `Keeps`
  family). The revision counter is what rejects an answer to an older check.
* `ReflectionsTypeCorrect`, `MapsStayQuiet`, `SourcesKeepOneOwner`: by `IInv`, for
  every number of jobs, turns of a capture, frames of a fade, draws in flight and
  faults. A fence is the number of commands before it, so `Fenced` says what the GPU
  still has to do: a pair that a queued capture writes is the worker's token or has
  its producer's fence behind that capture, a pair that a queued draw samples is being
  read or has its consumer's fence behind that draw; and the fields of a pair exclude
  each other (`Sane`): what was read has no producer's fence any more, what is under
  construction has neither. That no map is sampled while it is written follows from
  these alone. `Placed` keeps them: what the worker's place implies of its token, of
  the pair it retires, and of the waits that are over, a failed wait included, which
  goes on only after the main context was finished (`host`). `Framed` is the same of
  the render thread. `Apart` and `Owned` are the books of the sources: a job is in one
  place at a time, serials are used once, and an input fence is alive if and only if
  its place answers for it; `OneOwner` counts the places. Each method of the mailbox
  has one lemma for the pairs and one for the fences, each thread one step lemma
  (`ControlStep`, `RenderStep`, `StillStep`, ...) that its actions use.
* `DetectionTypeCorrect`, `RemovalStaysKept`: by `IInv`, for every number of presses,
  frames, resets, failures and ends of the process. The difficulty is that two threads
  write the same record and answer each other by generations. `Dated`: nothing carries
  a generation that is still to come, so what was asked last is told from what is
  answered late. `Cleared` says of each place of the worker what a removal has done by
  then. `SettingUp`: a setup that is requested or under way keeps the window busy, no
  message that would end the wait is on its way, and therefore neither a removal nor a
  second setup is accepted beside it; this is what fails once `crossed` holds. `Gone`:
  after the tombstone nothing is on its way that would write again, no setup, no
  evidence of a frame (its result is of an older generation), no version; and a model
  that is still loaded has a removal before it that nothing can answer early. An end of
  the process keeps the tombstone and forgets the rest.
* `WindowShowsTheTruth`: by `WInv` on top of that `IInv`, which says of every moment
  what the window still waits for and who is going to say it. The messages under way
  are taken as a whole, by what the window will say when it has heard them all
  (`EndsReady`, `FailsLast`, `Outdated`, ...); `Posted` and `Taken` are the two lemmas
  about that, for a message sent and one heard. `Occupied`: a busy window has a setup, a
  removal or an answer coming. `Reported`: a window that is checking has something that
  will be reported. `WordIsTrue`: where the worker has nothing to add, the last word said
  or under way is true of the model. `ReadyGoes` and `ModelGoes`: what looks ready, or is
  loaded, although nothing is installed is going to be corrected. The others order the
  ends of jobs and say what a record that was saved in between may hold; each is weakened
  by exactly the exceptions of the property (`Live`, `Sharp`). One lemma for each action.

No run spends its time on types: they are proved.

Only model-checked: liveness (`LaneReleases`, the fair part of `KeepsPromise`,
`FeedConverges`, the fair part of `TransfersTheFile`, `PassEnds`,
`MigrationSettles`, `QueueSettles`, `StopReturnsEverything`, `SealedMapsDrain`,
`CaptureSettles`), which needs ENABLED.

## 5. Not modelled

Presentation, geometry, G-code parsing, rendering, byte formats and pure
functions with direct unit tests are data without a protocol and stay with the
tests. Uploads, what detection does to a print, the camera and the file browser have no module yet;
the plan has them. What each module leaves
out of its own component is said in section 2.

## 6. Plan

In this order; each line is a module, what it composes, and what it is for.

1. Done: `CommandTracker`, `CommandLane`; `RecoveryExecution`,
   `RecoveryController`, `RecoveryPromise`; `StatusFeed`; `DownloadStream`,
   `FileTransfer`; `RemoteFiles`; `SettingsMigration`; `ToolheadQueue`;
   `PreparedFiles`, `IndexService`; `EnvironmentMailbox`,
   `ToolheadReflections`; `LocalDetection`. Proofs of the safety of all of them.
2. `StatusFeed`: events handled after a stop within one buffer.
3. `Upload` with the print start, then the actions of the detection on a print,
   then the camera and the file browser.
