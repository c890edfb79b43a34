----------------------------- MODULE LocalDetection -----------------------------
(***************************************************************************)
(* LocalDetectionService: the UI thread, its one worker thread, the        *)
(* mailbox between them, the record in Cura's settings and the installed   *)
(* assets, with ends of the process anywhere.                              *)
(*                                                                         *)
(* A step of the UI thread is one slot, but a save of the record takes two *)
(* (what it is based on, then the write with the rest of the slot), and so *)
(* does one of the worker: the two threads merge into the same dictionary  *)
(* without a lock.  A step of the worker is a stretch between two of its   *)
(* locks or accesses to the disk.  A generation stands for the frames'     *)
(* context; images, scores, time and the text of errors are left out.      *)
(***************************************************************************)
EXTENDS Integers, Sequences

\* Bounds of the model: what the user presses, the frames, and the resets, errors and
\* ends of the process together.
CONSTANTS MaxActs, MaxFrames, MaxUpsets

ASSUME DetectionBounds ==
    {MaxActs, MaxFrames, MaxUpsets} \subseteq Nat

VARIABLES
    record,    \* _record, in memory
    disk,      \* the record as saved, the assets, and the evidence of alerts
    gui,       \* what QML is shown
    shared,    \* what both threads read and write
    mailbox,   \* _updates.mailbox
    saving,    \* the UI thread's save that is under way
    worker,    \* _run()'s place and locals, and _model
    ghost, spent

vars == <<record, disk, gui, shared, mailbox, saving, worker, ghost, spent>>

Nobody  == 0          \* no sample is waiting; generations start at 1
Whole   == {"archive", "runtime", "model"}

Records == [version : BOOLEAN,       \* ready_version = ASSET_VERSION
            cleanup : BOOLEAN,       \* cleanup_pending
            enabled : BOOLEAN]
Slots   == {"none", "drain", "enable", "disable", "remove", "offer"}
Says    == {"ready", "failed", "uninstalled", "released", "working", "absorbed", "result"}
Updates == [generation : Nat, says : Says, done : BOOLEAN]    \* done: busy = False
Places  == {"start", "condemned", "checks", "verify", "load", "loaded", "absorb",
            "remove", "entombing", "clear", "unlink", "forget", "resume", "unrequest",
            "idle", "gone", "infer", "detect", "install", "consent", "consenting", "fetch",
            "bench", "benched", "marking", "marked", "unmarking", "undo", "leftover"}

TypeOK ==
    /\ record \in Records
    /\ disk \in [record : Records, assets : SUBSET (Whole \cup {"torn"}), evidence : BOOLEAN]
    /\ gui \in [ready : BOOLEAN, busy : BOOLEAN, checking : BOOLEAN]
    /\ shared \in [generation : Nat, removal : Nat,    \* _removal_generation, 0 for None
                   cancel : BOOLEAN, closed : BOOLEAN,
                   removing : BOOLEAN,                 \* _remove_requested
                   setup : BOOLEAN, load : BOOLEAN, release : BOOLEAN, io : BOOLEAN,
                   sample : Nat]                       \* the generation it was taken at
    /\ mailbox \in Seq(Updates)
    /\ saving \in [slot : Slots, base : Records]
    /\ worker \in [pc : Places, gen : Nat, base : Records, model : BOOLEAN,
                   verified : BOOLEAN,                 \* already_verified
                   startup : {"first", "load", "no"}]
    /\ ghost \in [missed : BOOLEAN,      \* a reset dropped what the worker reported last
                  mute : BOOLEAN,        \* a cancelled load ended without a report
                  overtaken : BOOLEAN,   \* a save overtook another one
                  crossed : BOOLEAN,     \* the end of a removal answered what was asked after it
                  asked : BOOLEAN]       \* the user had everything removed
    /\ spent \in [acts : 0..MaxActs, frames : 0..MaxFrames, upsets : 0..MaxUpsets]

Fresh == [generation |-> 1, removal |-> 0, cancel |-> FALSE, closed |-> FALSE,
          removing |-> FALSE, setup |-> FALSE, load |-> FALSE, release |-> FALSE,
          io |-> FALSE, sample |-> Nobody]
AtStart(r) == [pc |-> "start", gen |-> 0, base |-> r, model |-> FALSE, verified |-> FALSE,
               startup |-> "first"]
Checking == [ready |-> FALSE, busy |-> FALSE, checking |-> TRUE]
NotSaving(r) == [slot |-> "none", base |-> r]

\* __init__() on what an earlier life left.
Starts(r) ==
    /\ record = r /\ gui = Checking /\ shared = Fresh /\ mailbox = <<>>
    /\ saving = NotSaving(r) /\ worker = AtStart(r)

\* Nothing, an install that is in use or switched off, or a removal that was cut short.
Lives == {"none", "used", "off", "removed"}
Init ==
    /\ \E life \in Lives :
           LET r == [version |-> life \in {"used", "off"}, cleanup |-> life = "removed",
                     enabled |-> life # "off"]
           IN  /\ Starts(r)
               /\ disk = [record |-> r, evidence |-> r.version,
                          assets |-> IF r.version THEN Whole
                                     ELSE IF r.cleanup THEN {"runtime"} ELSE {}]
               /\ ghost = [missed |-> FALSE, mute |-> FALSE, overtaken |-> FALSE, crossed |-> FALSE,
                           asked |-> r.cleanup]
    /\ spent = [acts |-> 0, frames |-> 0, upsets |-> 0]

-----------------------------------------------------------------------------
(* Shared pieces.                                                          *)

Upset == spent.upsets < MaxUpsets /\ spent' = [spent EXCEPT !.upsets = @ + 1]
NoUpset == UNCHANGED spent

\* _persist(): the merged record goes to the disk and replaces the one in memory.
Persisted(base, merged) ==
    /\ record' = merged
    /\ disk' = [disk EXCEPT !.record = merged]
    /\ ghost' = [ghost EXCEPT !.overtaken = @ \/ base # record]

-----------------------------------------------------------------------------
(* The UI thread.                                                          *)

Gui == saving.slot = "none" /\ ~shared.closed    \* free to run another slot

\* The user's presses are counted.
Press == spent.acts < MaxActs /\ spent' = [spent EXCEPT !.acts = @ + 1]

\* a removal that has not reported yet
Removing == {"remove", "entombing", "clear", "unlink", "forget"}

\* setup(): a refusal changes only what the error line says.
SetUp ==
    /\ Gui /\ Press
    /\ ~record.cleanup /\ ~shared.removing /\ ~gui.busy /\ ~gui.ready
    /\ shared' = [shared EXCEPT !.cancel = FALSE, !.setup = TRUE]
    /\ gui' = [gui EXCEPT !.busy = TRUE, !.checking = FALSE]
    /\ ghost' = [ghost EXCEPT !.asked = FALSE,
                              !.crossed = \/ @ \/ worker.pc \in Removing
                                          \/ \E i \in DOMAIN mailbox : mailbox[i].done]
    /\ UNCHANGED <<record, disk, mailbox, saving, worker>>

\* cancel()
Cancel ==
    /\ Gui /\ Press
    /\ gui.busy /\ ~shared.removing
    /\ shared' = [shared EXCEPT !.cancel = TRUE, !.sample = Nobody]
    /\ gui' = [gui EXCEPT !.checking = FALSE]
    /\ UNCHANGED <<record, disk, mailbox, saving, worker, ghost>>

\* The first half of set_enabled(), remove_assets() and the two offer slots.
MaySave(slot) ==
    CASE slot = "enable"  -> (gui.ready \/ record.version) /\ ~record.enabled
      [] slot = "disable" -> (gui.ready \/ record.version) /\ record.enabled
      [] slot = "remove"  -> ~gui.busy
      [] slot = "offer"   -> TRUE
      [] OTHER            -> FALSE
Saves ==
    /\ Gui /\ Press
    /\ \E slot \in Slots : MaySave(slot) /\ saving' = [slot |-> slot, base |-> record]
    /\ UNCHANGED <<record, disk, gui, shared, mailbox, worker, ghost>>

SaveFails ==
    /\ saving.slot \notin {"none", "drain"} /\ Upset
    /\ saving' = [saving EXCEPT !.slot = "none"]
    /\ UNCHANGED <<record, disk, gui, shared, mailbox, worker, ghost>>

\* reset(), also of the monitor's when what a frame means has changed
Retired(s) == [s EXCEPT !.generation = @ + 1, !.sample = Nobody]

\* set_enabled(), once the choice is saved
Switched(s, enabled) == [Retired(s) EXCEPT !.load = enabled, !.release = ~enabled]
Enables(enabled) ==
    /\ saving.slot = IF enabled THEN "enable" ELSE "disable"
    /\ Persisted(saving.base, [saving.base EXCEPT !.enabled = enabled])
    /\ shared' = Switched(shared, enabled)
    /\ gui' = IF enabled THEN [gui EXCEPT !.ready = FALSE, !.checking = TRUE] ELSE gui
    /\ saving' = [saving EXCEPT !.slot = "none"] /\ NoUpset
    /\ UNCHANGED <<mailbox, worker>>

\* Mutant of Removal: what was queued for the disk stays queued.
KeepsWriting(s) ==
    [Retired(s) EXCEPT !.removal = s.generation + 1, !.cancel = FALSE, !.removing = TRUE]

\* remove_assets(), once the tombstone is saved
Removal(s) == [Retired(s) EXCEPT !.removal = s.generation + 1, !.cancel = FALSE,
                                 !.removing = TRUE, !.io = FALSE]

Tombstone(r) == [r EXCEPT !.cleanup = TRUE, !.version = FALSE]
RemovesAssets ==
    /\ saving.slot = "remove"
    /\ record' = Tombstone(saving.base)
    /\ disk' = [disk EXCEPT !.record = Tombstone(saving.base)]
    /\ ghost' = [ghost EXCEPT !.overtaken = @ \/ saving.base # record, !.asked = TRUE]
    /\ shared' = Removal(shared)
    /\ gui' = [ready |-> FALSE, busy |-> TRUE, checking |-> FALSE]
    /\ saving' = [saving EXCEPT !.slot = "none"] /\ NoUpset
    /\ UNCHANGED <<mailbox, worker>>

\* decline_offer(), reset_offer(): of the record only what it is based on matters.
Offers ==
    /\ saving.slot = "offer"
    /\ Persisted(saving.base, saving.base)
    /\ saving' = [saving EXCEPT !.slot = "none"] /\ NoUpset
    /\ UNCHANGED <<gui, shared, mailbox, worker>>

\* sample()
Sample ==
    /\ Gui /\ gui.ready /\ record.enabled
    /\ spent.frames < MaxFrames /\ spent' = [spent EXCEPT !.frames = @ + 1]
    /\ shared' = [shared EXCEPT !.sample = shared.generation]
    /\ UNCHANGED <<record, disk, gui, mailbox, saving, worker, ghost>>

Reset ==
    /\ Gui
    /\ Upset
    /\ shared' = Retired(shared)
    /\ UNCHANGED <<record, disk, gui, mailbox, saving, worker, ghost>>

Close ==
    /\ Gui /\ Press
    /\ shared' = [Retired(shared) EXCEPT !.closed = TRUE, !.cancel = TRUE]
    /\ gui' = [ready |-> FALSE, busy |-> FALSE, checking |-> FALSE]
    /\ UNCHANGED <<record, disk, mailbox, saving, worker, ghost>>

\* _on_status(), _on_result(): views are the fields of gui with removing, io and the
\* ghost that remembers a report a reset has made stale.
\* Mutant of Retires: also the reports of what the window waits for.
RetiresAll(v, u) == u.generation # shared.generation

Retires(v, u)  == u.generation # shared.generation /\ ~v.busy

Outlived(u)    == u.generation < shared.removal
Unfinished(v, u) == \/ v.busy /\ u.says = "uninstalled"
                    \/ v.removing /\ u.generation = shared.removal /\ ~u.done
Told(v, u) == [v EXCEPT
    !.ready    = u.says = "ready" \/ (@ /\ u.says # "failed"),
    !.busy     = @ /\ ~u.done,
    !.checking = @ /\ u.says = "absorbed",
    !.removing = @ /\ ~(u.generation = shared.removal),
    !.missed   = @ /\ u.says \notin {"ready", "failed"}]
Hears(v, u) ==
    IF u.says = "result"
    THEN [v EXCEPT !.io = @ \/ (/\ u.generation = shared.generation /\ v.ready
                                /\ record.enabled /\ ~v.removing /\ ~record.cleanup)]
    ELSE IF Outlived(u) THEN v
    ELSE IF Retires(v, u) THEN [v EXCEPT !.missed = @ \/ u.says # "working"]
    ELSE IF Unfinished(v, u) THEN v
    ELSE Told(v, u)

\* _drain_mailbox(): one message after the other, until the queue is empty, which never
\* holds the 16 it takes at most.
Drain ==
    /\ saving.slot \in {"none", "drain"} /\ ~shared.closed /\ mailbox # <<>>
    /\ LET view == [ready |-> gui.ready, busy |-> gui.busy, checking |-> gui.checking,
                    removing |-> shared.removing, io |-> shared.io, missed |-> ghost.missed]
           v == Hears(view, Head(mailbox))
       IN  /\ gui' = [ready |-> v.ready, busy |-> v.busy, checking |-> v.checking]
           /\ shared' = [shared EXCEPT !.removing = v.removing, !.io = v.io]
           /\ ghost' = [ghost EXCEPT !.missed = v.missed]
    /\ mailbox' = Tail(mailbox)
    /\ saving' = [saving EXCEPT !.slot = IF Len(mailbox) = 1 THEN "none" ELSE "drain"]
    /\ UNCHANGED <<record, disk, worker, spent>>

-----------------------------------------------------------------------------
(* The worker thread.                                                      *)

At(pc) == worker.pc = pc
Goes(pc) == worker' = [worker EXCEPT !.pc = pc]
Sends(generation, says, done) ==
    mailbox' = Append(mailbox, [generation |-> generation, says |-> says, done |-> done])
\* the steps that leave everything but the worker alone
Alone == UNCHANGED <<record, disk, gui, shared, saving, ghost>>

\* _startup(), on the thread's start or when detection is enabled again.  A
\* tombstone is worked off first.
StartsUp ==
    /\ At("start")
    /\ worker' = [worker EXCEPT !.gen = shared.generation,
                                !.pc = IF record.cleanup THEN "condemned" ELSE "checks"]
    /\ ghost' = [ghost EXCEPT !.mute = FALSE]
    /\ UNCHANGED <<record, disk, gui, shared, mailbox, saving, spent>>
Condemned ==
    /\ At("condemned")
    /\ shared' = [shared EXCEPT !.removal = worker.gen]
    /\ Goes("remove")
    /\ UNCHANGED <<record, disk, gui, mailbox, saving, ghost, spent>>
Checks ==
    /\ At("checks")
    /\ LET installed == record.version /\ record.enabled
           refused   == installed /\ (shared.closed \/ shared.cancel)    \* _acquire_lane()
       IN  /\ Goes(IF installed /\ ~refused THEN "verify" ELSE "idle")
           /\ IF installed THEN UNCHANGED mailbox
              ELSE Sends(worker.gen, IF record.version THEN "ready" ELSE "uninstalled", FALSE)
           /\ ghost' = [ghost EXCEPT !.mute = refused]
    /\ UNCHANGED <<record, disk, gui, shared, saving, spent>>

Unloads(pc) == worker' = [worker EXCEPT !.pc = pc, !.model = FALSE]
\* The model is verified, loaded and measured.
StartupFails ==
    /\ \/ At("load") /\ Upset
       \/ At("load") /\ shared.cancel /\ NoUpset
       \/ At("verify") /\ disk.assets # Whole /\ NoUpset
    /\ Unloads("idle") /\ Sends(worker.gen, "failed", FALSE)
    /\ Alone
Verifies == At("verify") /\ disk.assets = Whole /\ Goes("load") /\ Alone /\ UNCHANGED <<mailbox, spent>>
Loads ==
    /\ At("load")
    /\ worker' = [worker EXCEPT !.pc = "loaded", !.model = TRUE]
    /\ Alone /\ UNCHANGED <<mailbox, spent>>
Loaded ==
    /\ At("loaded")
    /\ Sends(shared.generation, "ready", FALSE)
    /\ IF shared.closed \/ ~record.enabled THEN Unloads("idle")
       ELSE Goes(IF worker.startup = "first" THEN "absorb" ELSE "idle")
    /\ Alone /\ UNCHANGED spent
\* A setup that was requested in the meantime has nothing left to do.
Absorbs ==
    /\ At("absorb") /\ Goes("idle")
    /\ shared' = [shared EXCEPT !.setup = FALSE]
    /\ IF shared.setup THEN Sends(shared.generation, "absorbed", TRUE) ELSE UNCHANGED mailbox
    /\ UNCHANGED <<record, disk, gui, saving, ghost, spent>>

\* _run(): what it does next, in this order.
Turn ==
    IF shared.closed /\ ~shared.removing THEN "leave"
    ELSE IF shared.release THEN "release"
    ELSE IF shared.load THEN "load"
    ELSE IF shared.removing THEN "remove"
    ELSE IF shared.setup THEN "setup"
    ELSE IF shared.io THEN "io"
    ELSE IF shared.sample # Nobody THEN "sample" ELSE "wait"
Takes ==
    /\ At("idle")
    /\ \/ Turn = "leave" /\ Goes("gone") /\ UNCHANGED <<shared, mailbox, disk>>
       \/ /\ Turn = "release"
          /\ shared' = [shared EXCEPT !.release = FALSE]
          /\ Unloads("idle") /\ Sends(shared.generation, "released", FALSE) /\ UNCHANGED disk
       \/ /\ Turn = "load"
          /\ shared' = [shared EXCEPT !.load = FALSE, !.cancel = FALSE]
          /\ worker' = [worker EXCEPT !.pc = "start", !.startup = "load"]
          /\ UNCHANGED <<mailbox, disk>>
       \/ /\ Turn = "remove"
          /\ shared' = [shared EXCEPT !.sample = Nobody]
          /\ worker' = [worker EXCEPT !.pc = "remove", !.startup = "no"]
          /\ UNCHANGED <<mailbox, disk>>
       \/ /\ Turn = "setup"
          /\ shared' = [shared EXCEPT !.setup = FALSE, !.sample = Nobody]
          /\ Goes("install") /\ UNCHANGED <<mailbox, disk>>
       \/ /\ Turn = "io"
          /\ shared' = [shared EXCEPT !.io = FALSE]
          /\ disk' = [disk EXCEPT !.evidence = TRUE]
          /\ UNCHANGED <<mailbox, worker>>
       \/ /\ Turn = "sample"
          /\ shared' = [shared EXCEPT !.sample = Nobody]
          /\ worker' = [worker EXCEPT !.pc = "infer", !.gen = shared.sample]
          /\ UNCHANGED <<mailbox, disk>>
    /\ UNCHANGED <<record, gui, saving, ghost, spent>>

\* A frame: its context may have been retired before, or while the model runs.
Infers ==
    /\ At("infer")
    /\ \/ Goes("idle")                  \* the frame is too old by now
       \/ /\ ~shared.closed /\ ~shared.cancel
          /\ worker.gen = shared.generation /\ worker.model /\ record.enabled
          /\ Goes("detect")
    /\ Alone /\ UNCHANGED <<mailbox, spent>>
Detects == At("detect") /\ Sends(worker.gen, "result", FALSE) /\ Goes("idle") /\ Alone /\ UNCHANGED spent
Retiring == shared.closed \/ worker.gen # shared.generation \/ ~record.enabled
InferenceFails ==
    /\ At("detect")
    /\ \/ Retiring /\ NoUpset /\ Goes("idle") /\ UNCHANGED <<mailbox, shared>>
       \/ /\ ~Retiring
          /\ IF saving.slot = "remove" THEN NoUpset ELSE Upset    \* or remove_assets() stopped it
          /\ shared' = [shared EXCEPT !.sample = Nobody]
          /\ Unloads("idle") /\ Sends(worker.gen, "failed", FALSE)
    /\ UNCHANGED <<record, disk, gui, saving, ghost>>

-----------------------------------------------------------------------------
(* _remove_assets(), requested or for a tombstone found at the start.      *)

\* _finish_removal(), and the return to whoever called
Finishes(w) ==
    /\ Sends(w.gen, "failed", TRUE)
    /\ worker' = [w EXCEPT !.pc = IF w.startup = "no" THEN "unrequest" ELSE "resume"]
Removes ==
    /\ At("remove")
    /\ LET w == [worker EXCEPT !.gen = shared.removal]
       IN  IF shared.closed THEN Finishes(w)
           ELSE /\ worker' = [w EXCEPT !.pc = "entombing", !.base = record, !.model = FALSE]
                /\ UNCHANGED mailbox
    /\ Alone /\ UNCHANGED spent
Entombs ==
    /\ At("entombing") /\ NoUpset
    /\ Persisted(worker.base, Tombstone(worker.base))
    /\ Goes("clear")
    /\ UNCHANGED <<gui, shared, mailbox, saving>>
Clears ==
    /\ At("clear") /\ NoUpset
    /\ disk' = [disk EXCEPT !.evidence = FALSE]
    /\ Goes("unlink")
    /\ UNCHANGED <<record, gui, shared, mailbox, saving, ghost>>

\* The model, the archive, then the runtime; and once more the evidence.
Next3(assets) == IF "model" \in assets THEN {"model"}
                 ELSE IF "archive" \in assets THEN {"archive"} ELSE assets
Unlinks ==
    /\ At("unlink") /\ NoUpset
    /\ IF disk.assets # {}
       THEN /\ disk' = [disk EXCEPT !.assets = @ \ Next3(@)]
            /\ UNCHANGED worker
       ELSE /\ disk' = [disk EXCEPT !.evidence = FALSE]
            /\ worker' = [worker EXCEPT !.base = record, !.pc = "forget"]
    /\ UNCHANGED <<record, gui, shared, mailbox, saving, ghost>>
Forgets ==
    /\ At("forget") /\ NoUpset
    /\ Persisted(worker.base, [worker.base EXCEPT !.cleanup = FALSE, !.version = FALSE])
    /\ Finishes(worker)
    /\ UNCHANGED <<gui, shared, saving>>

\* Any of it may fail; a runtime that is in use is left in pieces.
RemovalFails ==
    /\ worker.pc \in Removing \ {"remove"} /\ Upset
    /\ \/ UNCHANGED disk
       \/ /\ At("unlink") /\ disk.assets = {"runtime"}
          /\ disk' = [disk EXCEPT !.assets = {"torn"}]
    /\ Finishes(worker)
    /\ UNCHANGED <<record, gui, shared, saving, ghost>>

Resumes == At("resume") /\ Goes(IF record.cleanup THEN "idle" ELSE "checks")
           /\ Alone /\ UNCHANGED <<mailbox, spent>>
Unrequests ==
    /\ At("unrequest") /\ Goes("idle")
    /\ shared' = [shared EXCEPT !.removing = FALSE]
    /\ ghost' = [ghost EXCEPT !.crossed = @ \/ (shared.removing /\ shared.removal # worker.gen)]
    /\ UNCHANGED <<record, disk, gui, mailbox, saving, spent>>

-----------------------------------------------------------------------------
(* _install().                                                             *)

Installs ==
    /\ At("install")
    /\ LET w == [worker EXCEPT !.gen = shared.generation, !.verified = disk.assets = Whole]
       IN  IF shared.closed \/ shared.cancel
           THEN Sends(w.gen, "working", TRUE) /\ worker' = [w EXCEPT !.pc = "idle"]
           ELSE worker' = [w EXCEPT !.pc = "consent"] /\ UNCHANGED mailbox
    /\ Alone /\ UNCHANGED spent

\* Each place where it looks for the cancellation, and what comes there otherwise.
Following == [consent |-> "consenting", fetch |-> "fetch", bench |-> "benched", benched |-> "marking"]
Cancelled ==
    /\ worker.pc \in DOMAIN Following \cup {"marked"} /\ shared.cancel
    /\ worker' = IF At("marked") THEN [worker EXCEPT !.pc = "unmarking", !.base = record]
                 ELSE [worker EXCEPT !.pc = "undo"]
    /\ Alone /\ UNCHANGED <<mailbox, spent>>
Merges ==
    /\ worker.pc \in {"consent", "benched"} /\ ~shared.cancel
    /\ worker' = [worker EXCEPT !.pc = Following[@], !.base = record]
    /\ Alone /\ UNCHANGED <<mailbox, spent>>
Consents ==
    /\ At("consenting") /\ NoUpset
    /\ Persisted(worker.base, [worker.base EXCEPT !.version = FALSE])
    /\ Goes("fetch") /\ Sends(worker.gen, "working", FALSE)
    /\ UNCHANGED <<gui, shared, saving>>
\* AssetInstaller.install(): the archive, the runtime out of it, the model; each is put
\* in its place whole, and none over a broken one.
Fetches ==
    /\ At("fetch") /\ NoUpset /\ "torn" \notin disk.assets
    /\ IF disk.assets = Whole THEN Goes("bench") /\ UNCHANGED disk
       ELSE /\ disk' = [disk EXCEPT !.assets = @ \cup
                  IF "archive" \notin @ THEN {"archive"}
                  ELSE IF "runtime" \notin @ THEN {"runtime"} ELSE {"model"}]
            /\ UNCHANGED worker
    /\ UNCHANGED <<record, gui, shared, mailbox, saving, ghost>>
Benches ==
    /\ At("bench")
    /\ worker' = [worker EXCEPT !.pc = Following[@], !.model = TRUE]
    /\ Alone /\ UNCHANGED <<mailbox, spent>>
Marks(pc, version, then) ==
    /\ At(pc) /\ NoUpset
    /\ Persisted(worker.base, [worker.base EXCEPT !.version = version])
    /\ Goes(then)
    /\ UNCHANGED <<gui, shared, mailbox, saving>>
SetUpEnds ==
    /\ At("marked") /\ ~shared.cancel
    /\ Sends(worker.gen, "ready", TRUE)
    /\ worker' = [worker EXCEPT !.pc = "idle", !.model = record.enabled]
    /\ ghost' = [ghost EXCEPT !.mute = FALSE]
    /\ UNCHANGED <<record, disk, gui, shared, saving, spent>>
InstallFails ==
    /\ \/ worker.pc \in {"consenting", "fetch", "bench", "marking", "unmarking"} /\ Upset
       \/ At("fetch") /\ "torn" \in disk.assets /\ NoUpset
    /\ Goes("undo")
    /\ Alone /\ UNCHANGED mailbox

\* What was not there before is deleted again, or left for the next start.
Undoes ==
    /\ At("undo")
    /\ \/ /\ NoUpset /\ Unloads("idle") /\ Sends(worker.gen, "failed", TRUE)
          /\ disk' = IF worker.verified THEN disk ELSE [disk EXCEPT !.assets = {}]
       \/ /\ ~worker.verified /\ disk.assets # {} /\ Upset
          /\ \E rest \in {disk.assets, disk.assets \ {"model"}, disk.assets \cap {"runtime", "torn"},
                          IF "runtime" \in disk.assets THEN {"torn"} ELSE {}} \ {{}} :
                 disk' = [disk EXCEPT !.assets = rest]
          /\ worker' = [worker EXCEPT !.pc = "leftover", !.model = FALSE, !.base = record]
          /\ UNCHANGED mailbox
    /\ UNCHANGED <<record, gui, shared, saving, ghost>>
Leaves ==
    /\ At("leftover")
    /\ \/ NoUpset /\ Persisted(worker.base, Tombstone(worker.base))
       \/ Upset /\ UNCHANGED <<record, disk, ghost>>
    /\ Goes("idle") /\ Sends(worker.gen, "failed", TRUE)
    /\ UNCHANGED <<gui, shared, saving>>

-----------------------------------------------------------------------------
\* The process ends, closed or not, and the next one starts.
Crash ==
    /\ Upset
    /\ record' = disk.record /\ gui' = Checking /\ shared' = Fresh /\ mailbox' = <<>>
    /\ saving' = NotSaving(disk.record) /\ worker' = AtStart(disk.record)
    /\ ghost' = [missed |-> FALSE, mute |-> FALSE, overtaken |-> FALSE, crossed |-> FALSE,
                 asked |-> ghost.asked /\ ~ghost.overtaken /\ ~ghost.crossed]
    /\ UNCHANGED disk

SavesEnd == (\E enabled \in BOOLEAN : Enables(enabled)) \/ RemovesAssets \/ Offers
Work ==
    \/ StartsUp \/ Condemned \/ Checks \/ Verifies \/ Loads \/ Loaded \/ StartupFails \/ Absorbs
    \/ Takes \/ Infers \/ Detects \/ InferenceFails
    \/ Removes \/ Entombs \/ Clears \/ Unlinks \/ Forgets \/ RemovalFails \/ Resumes \/ Unrequests
    \/ Installs \/ Cancelled \/ Merges \/ Consents \/ Fetches \/ Benches
    \/ Marks("marking", TRUE, "marked") \/ Marks("unmarking", FALSE, "undo")
    \/ SetUpEnds \/ InstallFails \/ Undoes \/ Leaves
Next ==
    \/ SetUp \/ Cancel \/ Saves \/ SaveFails \/ SavesEnd \/ Sample \/ Reset \/ Close \/ Drain
    \/ Work \/ Crash

Spec == Init /\ [][Next]_vars

-----------------------------------------------------------------------------
(* Properties.                                                             *)

\* What the user had removed is gone, files and evidence, or the tombstone is on the disk
\* that makes the next start go on: through failures at every file, ends of the process and
\* detections under way.  The exceptions are a save of one thread that overtook the other's,
\* and a setup that the end of an earlier removal answered, which is then still to come.
RemovalIsKept ==
    ghost.asked => \/ ghost.overtaken \/ ghost.crossed
                   \/ disk.record.cleanup \/ (disk.assets = {} /\ ~disk.evidence)

\* When the worker has nothing to do and nothing to say, the window shows how things are:
\* a model is loaded exactly when it says ready and detection is on, the next start will
\* find it, and nothing looks as if it were still under way.  The exceptions are a report
\* that a reset made stale, a load that was cancelled and says nothing, a save that another
\* one overtook, and a removal whose end answered what was asked after it.
Quiet == /\ ~ghost.crossed
         /\ At("idle") /\ mailbox = <<>> /\ saving.slot = "none" /\ ~shared.closed
         /\ ~shared.release /\ ~shared.load /\ ~shared.removing /\ ~shared.setup
ShowsTheTruth ==
    Quiet => /\ ghost.missed \/ ghost.mute \/ ghost.overtaken
                \/ (worker.model <=> gui.ready /\ record.enabled)
             /\ ghost.missed \/ ~gui.checking
             /\ ~gui.busy
             /\ ghost.overtaken \/ (gui.ready => disk.record.version)
================================================================================
