--------------------------- MODULE SettingsMigration ---------------------------
(***************************************************************************)
(* The move of the settings out of Cura's preferences into the plugin's    *)
(* own documents: the two legacy chains, the one-shot migration with its   *)
(* backup, its writes, its verification, its clean and its record, and     *)
(* what the user changes meanwhile; over failing writes, crashes and       *)
(* restored preference files.                                              *)
(*                                                                         *)
(* The whole procedure runs on the UI thread, so nothing comes between its *)
(* steps but the end of the process: a step is one write to the disk.      *)
(***************************************************************************)
EXTENDS Naturals

CONSTANTS Machines,     \* Cura's printers
          NoMachine,    \* the identity before Cura has an active printer
          Installs,     \* what users may have before this version
          MaxFaults,    \* bounds of the model: writes that fail, ends of the process
          MaxCrashes,   \* without saving, changes made by the user, and preference
          MaxEdits,     \* files the user puts back
          MaxRestores

VARIABLES
    origin,  \* what the user had: the preferences, and Moonraker Connection's printers
    disk,    \* cura.cfg, the documents, the backups
    cura,    \* the process: where its migration is, its preferences, its printer
    spent    \* of the bounds

vars == <<origin, disk, cura, spent>>

\* What the plugin's section of cura.cfg holds.
Prefs == [blob : SUBSET Machines,   \* printer_configs_v1: the printers it has records of,
          odd  : SUBSET Machines,   \*   those whose record is not a dictionary,
          corrupt : BOOLEAN,        \*   or a text that is no JSON
          flat : BOOLEAN,           \* settings from before there were records
          flatDone : BOOLEAN,       \* the flags of the two legacy chains
          importDone : BOOLEAN,
          bed  : BOOLEAN]           \* a bed mesh view that is not the default

\* _clean_preferences(): every key at its default, which Cura does not save.
Cleaned == [blob |-> {}, odd |-> {}, corrupt |-> FALSE, flat |-> FALSE,
            flatDone |-> FALSE, importDone |-> FALSE, bed |-> FALSE]

\* A piece of a document: missing, migrated, or the user's since.
Copies == {"none", "old", "live"}

Failures == {"backup-failed", "write-failed", "verify-failed", "corrupt-unsaved", "corrupt-blob"}
Records  == {"none", "ok"} \cup Failures

Disks == [cfg : Prefs,
          backup : SUBSET (Machines \cup {"corrupt", "flat"}),   \* what some backup holds
          exists : BOOLEAN,                       \* settings.json
          machines : [Machines -> Copies],        \*   its printers,
          bed : Copies \cup {"default"},          \*   the bed mesh view and
          record : Records,                       \*   the migration's record
          shards : [Machines -> Copies],          \* a printer's state document
          chrome : Copies,                        \* the panel state in state.json
          oldChrome : BOOLEAN]                    \* the state file of 4.4.0

Steps == {"down", "idle", "activate", "decide", "tidy", "carry", "sweep", "backup", "global",
          "recover", "shards", "verify", "record", "flush"}
Processes == [at : Steps, prefs : Prefs, active : Machines \cup {NoMachine},
              session : Records,             \* the record's copy of this session
              todo : SUBSET Machines]        \* the shards still to write

Origins == [cfg : Prefs, imports : SUBSET Machines]

ASSUME MachinesAssumption == NoMachine \notin Machines
ASSUME BoundsAssumption ==
    MaxFaults \in Nat /\ MaxCrashes \in Nat /\ MaxEdits \in Nat /\ MaxRestores \in Nat

\* A blob that has been damaged has been through the legacy chains before.
ASSUME InstallsAssumption ==
    \A o \in Installs : /\ o \in Origins
                        /\ o.cfg.odd \subseteq o.cfg.blob
                        /\ o.cfg.corrupt => /\ o.cfg.blob = {} /\ o.cfg.flatDone
                                            /\ o.imports = {} \/ o.cfg.importDone

Init ==
    /\ origin \in Installs
    /\ disk = [cfg |-> origin.cfg, backup |-> {}, exists |-> FALSE,
               machines |-> [m \in Machines |-> "none"], bed |-> "none", record |-> "none",
               shards |-> [m \in Machines |-> "none"], chrome |-> "none", oldChrome |-> TRUE]
    /\ cura = [at |-> "down", prefs |-> origin.cfg, active |-> NoMachine, session |-> "none",
               todo |-> {}]
    /\ spent = [faults |-> 0, crashes |-> 0, edits |-> 0, restores |-> 0]

Spend(b) == spent' = [spent EXCEPT ![b] = @ + 1]

-----------------------------------------------------------------------------
(* The legacy chains, in memory.                                           *)

\* migrate_legacy_to_current_machine().
FlatMoved(p, a) ==
    IF p.flatDone \/ a = NoMachine THEN p
    ELSE CASE a \in p.blob              -> [p EXCEPT !.flatDone = TRUE]
           [] a \notin p.blob /\ p.flat -> [p EXCEPT !.blob = @ \cup {a}, !.corrupt = FALSE,
                                                     !.flatDone = TRUE]
           [] OTHER                     -> p

\* migrate_moonraker_connection(): what it imports is a record again.
Imported(p) ==
    IF p.importDone \/ origin.imports = {} THEN p
    ELSE [p EXCEPT !.blob = @ \cup origin.imports, !.odd = @ \ origin.imports, !.corrupt = FALSE,
                   !.importDone = TRUE]

\* migration_record(): the document's, or else the session's own.
Record(s) == IF disk.record # "none" THEN disk.record ELSE s

\* _migrate(): the legacy chains run while there is no record.
Migrating(c) ==
    [c EXCEPT !.at = "activate",
              !.prefs = IF Record(c.session) = "none" THEN Imported(FlatMoved(c.prefs, c.active))
                        ELSE c.prefs]

-----------------------------------------------------------------------------
(* The steps.                                                              *)

At(s) == cura.at = s
To(s) == [cura EXCEPT !.at = s]

\* A failed attempt is abandoned whole; the session remembers why.
Failed(r) == [cura EXCEPT !.at = "idle", !.session = r, !.todo = {}]

\* A write to the disk that succeeds, or fails and leaves the file as it was.
Writes(d, c, failed) ==
    \/ disk' = d /\ cura' = c /\ UNCHANGED spent
    \/ /\ spent.faults < MaxFaults
       /\ cura' = failed /\ Spend("faults") /\ UNCHANGED disk

\* The skeleton of the settings document; that it failed is only logged.
Activate ==
    /\ At("activate")
    /\ IF disk.exists THEN cura' = To("decide") /\ UNCHANGED <<disk, spent>>
       ELSE Writes([disk EXCEPT !.exists = TRUE], To("decide"), To("decide"))
    /\ UNCHANGED origin

\* No records, or no legacy chain has run on them yet.
NothingToMove(p) == (p.blob = {} /\ ~p.corrupt) \/ (~p.flatDone /\ ~p.importDone)

\* Mutant of Decision: no failure is tried again.
AnyFailureEnds(p, r) ==
    IF r = "ok" THEN "tidy"
    ELSE IF r \in Failures \/ NothingToMove(p) THEN "idle"
    ELSE "carry"

\* What run_persistence_migration() goes on with.
Decision(p, r) ==
    IF r = "ok" THEN "tidy"
    ELSE IF r = "corrupt-blob" \/ NothingToMove(p) THEN "idle"
    ELSE "carry"

Decide ==
    /\ At("decide")
    /\ cura' = To(Decision(cura.prefs, Record(cura.session)))
    /\ UNCHANGED <<origin, disk, spent>>

\* _carry_bed_mesh_preferences(): once; it holds the clean back when it fails.
Carry ==
    /\ cura.at \in {"tidy", "carry"}
    /\ LET done == To(IF At("tidy") THEN "sweep" ELSE "backup")
       IN  IF disk.bed # "none" THEN cura' = done /\ UNCHANGED <<disk, spent>>
           ELSE Writes([disk EXCEPT !.exists = TRUE,
                                    !.bed = IF cura.prefs.bed THEN "old" ELSE "default"],
                       done, IF At("tidy") THEN To("idle") ELSE Failed("write-failed"))
    /\ UNCHANGED origin

\* The end of a committed migration: no trace in the preferences, no old file.
Sweep ==
    /\ At("sweep")
    /\ disk' = [disk EXCEPT !.oldChrome = FALSE]
    /\ cura' = [cura EXCEPT !.at = "idle", !.prefs = Cleaned]
    /\ UNCHANGED <<origin, spent>>

\* write_backup(): a copy of the file on the disk, if it shows a source.
Contents(cfg) == cfg.blob \cup {x \in {"corrupt"} : cfg.corrupt} \cup {x \in {"flat"} : cfg.flat}
Evidence(cfg) == Contents(cfg) # {} \/ origin.imports # {}

Backup ==
    /\ At("backup")
    /\ LET failed == Failed(IF cura.prefs.corrupt THEN "corrupt-unsaved" ELSE "backup-failed")
       IN  IF ~Evidence(disk.cfg) THEN cura' = failed /\ UNCHANGED <<disk, spent>>
           ELSE Writes([disk EXCEPT !.backup = @ \cup Contents(disk.cfg)], To("global"), failed)
    /\ UNCHANGED origin

\* Mutant of Filled: the migrated copy always wins.
Replays(copy) == "old"

\* Of two copies the live one stays; a migrated one fills a gap.
Filled(copy) == IF copy = "none" THEN "old" ELSE copy

Migrants == cura.prefs.blob \ cura.prefs.odd

\* The panel state of the old file, under what the new document holds.
Global ==
    /\ At("global")
    /\ Writes([disk EXCEPT !.chrome = IF disk.oldChrome THEN Filled(@) ELSE @],
              IF cura.prefs.corrupt THEN To("recover")
              ELSE [cura EXCEPT !.at = "shards", !.todo = Migrants],
              Failed("write-failed"))
    /\ UNCHANGED origin

\* _recover_empty_documents(): the record rides in the settings document.
Recover ==
    /\ At("recover")
    /\ Writes([disk EXCEPT !.exists = TRUE, !.record = "corrupt-blob"],
              [cura EXCEPT !.at = "sweep", !.session = "corrupt-blob"],
              Failed("write-failed"))
    /\ UNCHANGED origin

Shard(m) ==
    /\ At("shards") /\ m \in cura.todo
    /\ Writes([disk EXCEPT !.shards[m] = Filled(@)], [cura EXCEPT !.todo = @ \ {m}],
              Failed("write-failed"))
    /\ UNCHANGED origin

Settings ==
    /\ At("shards") /\ cura.todo = {}
    /\ Writes([disk EXCEPT !.exists = TRUE,
                           !.machines = [m \in Machines |-> IF m \in Migrants THEN Filled(@[m])
                                                            ELSE @[m]]],
              To("verify"), Failed("write-failed"))
    /\ UNCHANGED origin

\* Mutant of Verified: nothing is read back.
TrustsTheWrites == TRUE

\* _verify_new_files(): every record, the odd ones too.
Verified == \A m \in cura.prefs.blob : disk.machines[m] # "none" /\ disk.shards[m] # "none"

Verify ==
    /\ At("verify")
    /\ IF Verified
       THEN /\ cura' = [cura EXCEPT !.at = "record", !.prefs = Cleaned]
            /\ disk' = [disk EXCEPT !.oldChrome = FALSE]
       ELSE cura' = Failed("verify-failed") /\ UNCHANGED disk
    /\ UNCHANGED <<origin, spent>>

\* set_migration_record(): the session keeps it, unless the document could not
\* even be opened.
Commit ==
    /\ At("record")
    /\ \E r \in {"ok", cura.session} :
           Writes([disk EXCEPT !.exists = TRUE, !.record = "ok"],
                  [cura EXCEPT !.at = "flush", !.session = "ok"],
                  [cura EXCEPT !.at = "flush", !.session = r])
    /\ UNCHANGED origin

Saved == [disk EXCEPT !.cfg = cura.prefs]
Flush == At("flush") /\ Writes(Saved, To("idle"), To("idle")) /\ UNCHANGED origin

Step == \/ Activate \/ Decide \/ Carry \/ Sweep \/ Backup \/ Global \/ Recover
        \/ (\E m \in Machines : Shard(m)) \/ Settings \/ Verify \/ Commit \/ Flush

-----------------------------------------------------------------------------
(* Around them.                                                            *)

\* Cura has started: mark_ready(), with the printer it came up with, or none.
Boot(a) ==
    /\ At("down")
    /\ cura' = Migrating([at |-> "activate", prefs |-> disk.cfg, active |-> a, session |-> "none",
                          todo |-> {}])
    /\ UNCHANGED <<origin, disk, spent>>

\* _machine_changed().
Switch(m) ==
    /\ At("idle") /\ m # cura.active
    /\ cura' = Migrating([cura EXCEPT !.active = m])
    /\ UNCHANGED <<origin, disk, spent>>

\* Settings saved for the active printer, or the wipe of a removed one; its
\* console; the panel; the bed mesh view.
Edit ==
    /\ At("idle") /\ spent.edits < MaxEdits
    /\ \/ \E m \in Machines :
            /\ m = cura.active \/ disk.machines[m] # "none"
            /\ disk' = [disk EXCEPT !.exists = TRUE, !.machines[m] = "live"]
       \/ cura.active # NoMachine /\ disk' = [disk EXCEPT !.shards[cura.active] = "live"]
       \/ disk' = [disk EXCEPT !.chrome = "live"]
       \/ disk' = [disk EXCEPT !.exists = TRUE, !.bed = "live"]
    /\ Spend("edits")
    /\ UNCHANGED <<origin, cura>>

\* MigrationNotice._raise_once(): the toast is noted in the record, which takes
\* the session's record to the disk.
Toast ==
    /\ At("idle") /\ disk.record = "none" /\ cura.session \in Failures
    /\ Writes([disk EXCEPT !.exists = TRUE, !.record = cura.session], cura, cura)
    /\ UNCHANGED origin

\* Cura saves its preferences, now and then, and when it ends.
Save == At("idle") /\ disk' = Saved /\ UNCHANGED <<origin, cura, spent>>

Gone(d) == [at |-> "down", prefs |-> d.cfg, active |-> NoMachine, session |-> "none", todo |-> {}]

Exit == At("idle") /\ disk' = Saved /\ cura' = Gone(disk') /\ UNCHANGED <<origin, spent>>

Crash == /\ ~At("down") /\ spent.crashes < MaxCrashes
         /\ cura' = Gone(disk) /\ Spend("crashes")
         /\ UNCHANGED <<origin, disk>>

\* The user, or Cura's backup plugin, puts the old preference file back.
Restore == /\ At("down") /\ spent.restores < MaxRestores
           /\ disk' = [disk EXCEPT !.cfg = origin.cfg]
           /\ cura' = Gone(disk') /\ Spend("restores")
           /\ UNCHANGED origin

Next == \/ Step \/ Edit \/ Toast \/ Save \/ Exit \/ Crash \/ Restore
        \/ \E a \in Machines \cup {NoMachine} : Boot(a)
        \/ \E m \in Machines : Switch(m)

Spec == Init /\ [][Next]_vars

\* The procedure goes on, and Cura is ended and started again some day.
FairSpec == /\ Spec
            /\ WF_vars(Step) /\ WF_vars(Exit)
            /\ WF_vars(\E a \in Machines \cup {NoMachine} : Boot(a))

-----------------------------------------------------------------------------
(* What must hold.                                                         *)

\* Every field keeps its type, and shards are left to write only while the
\* attempt that writes them goes on.
TypeOK ==
    /\ origin \in Origins
    /\ disk \in Disks /\ cura \in Processes
    /\ cura.todo # {} => At("shards") /\ cura.todo \subseteq Migrants
    /\ spent \in [faults : 0..MaxFaults, crashes : 0..MaxCrashes, edits : 0..MaxEdits,
                  restores : 0..MaxRestores]

\* Wherever the migration is interrupted, everything the user had is still in
\* the preference file, or else in its new place, and then what was cleaned is
\* in a backup too.
NothingIsLost ==
    /\ \A m \in origin.cfg.blob : \/ m \in disk.cfg.blob
                                  \/ /\ disk.machines[m] # "none" /\ disk.shards[m] # "none"
                                     /\ m \in disk.backup
    /\ origin.cfg.corrupt => disk.cfg.corrupt \/ "corrupt" \in disk.backup
    /\ origin.cfg.flat    => disk.cfg.flat \/ "flat" \in disk.backup
    /\ origin.cfg.bed     => disk.cfg.bed \/ disk.bed \in {"old", "live"}
    /\ disk.oldChrome \/ disk.chrome # "none"

\* A migration that runs again, after a crash, a failure or a restored file,
\* fills gaps: it never rolls back what the user has set in the new documents.
LiveStateWins ==
    [][/\ \A m \in Machines : /\ disk.machines[m] = "live" => disk'.machines[m] = "live"
                              /\ disk.shards[m] = "live" => disk'.shards[m] = "live"
       /\ disk.chrome = "live" => disk'.chrome = "live"
       /\ disk.bed = "live" => disk'.bed = "live"]_vars

\* Once writes succeed and Cura is restarted, a migration that failed is tried
\* again and ends: it is on record, or nothing is left to migrate.  (A source
\* with a record that is no dictionary never passes the verification, and one
\* that no legacy chain has marked waits for its printer.)
MigrationSettles ==
    (origin.cfg.odd = {} /\ (origin.cfg.flatDone \/ origin.cfg.importDone))
        => <>[](\/ disk.record \in {"ok", "corrupt-blob"}
                \/ disk.cfg.blob = {} /\ ~disk.cfg.corrupt)
================================================================================
