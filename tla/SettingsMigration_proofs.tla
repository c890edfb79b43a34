----------------------- MODULE SettingsMigration_proofs -----------------------
(***************************************************************************)
(* Theorems about SettingsMigration, for every set of printers, every      *)
(* install and every number of faults, crashes, edits and restored files:  *)
(* the type invariant, that nothing is lost, that live state wins.         *)
(***************************************************************************)
EXTENDS SettingsMigration, TLAPS

-----------------------------------------------------------------------------
(* The inductive invariant.  NothingIsLost speaks of the preference file,  *)
(* which is next written with the preferences in memory, so the same has   *)
(* to hold of those; and they are cleaned only where everything is in its  *)
(* new place, which is established bit by bit along the procedure.         *)

Copied(d, m) == d.machines[m] # "none" /\ d.shards[m] # "none"
Documented(d) == \A m \in origin.cfg.blob : Copied(d, m)
BackedUp(d) ==
    /\ \A m \in origin.cfg.blob : m \in d.backup
    /\ origin.cfg.corrupt => "corrupt" \in d.backup
    /\ origin.cfg.flat    => "flat" \in d.backup
BedKept(d) == origin.cfg.bed => d.bed \in {"old", "live"}

\* With the preferences p nothing of the user is lost.
Safe(d, p) ==
    /\ \A m \in origin.cfg.blob : m \in p.blob \/ (Copied(d, m) /\ m \in d.backup)
    /\ origin.cfg.corrupt => p.corrupt \/ "corrupt" \in d.backup
    /\ origin.cfg.flat    => p.flat \/ "flat" \in d.backup
    /\ origin.cfg.bed     => p.bed \/ d.bed \in {"old", "live"}
    /\ d.oldChrome \/ d.chrome # "none"

\* A damaged blob holds no records, and no legacy chain replaces it any more.
Damaged(p) ==
    p.corrupt => p.blob = {} /\ p.flatDone /\ (origin.imports = {} \/ p.importDone)

BeforeWrites == {"down", "idle", "activate", "decide", "tidy", "carry"}
Finished == {"tidy", "sweep", "record", "flush"}

\* What is done at a step of the procedure.
Done(d, c) ==
    /\ c.at \notin BeforeWrites => BedKept(d)
    /\ c.at \notin BeforeWrites \cup {"backup"} => BackedUp(d)
    /\ c.at \notin BeforeWrites \cup {"backup", "global"} => d.chrome # "none"
    /\ c.at = "recover" => c.prefs.corrupt
    /\ d.record = "ok" \/ c.session = "ok" \/ c.at \in Finished =>
           Documented(d) /\ BackedUp(d) /\ d.chrome # "none"

Kept(d, c) ==
    /\ Safe(d, d.cfg) /\ Safe(d, c.prefs)
    /\ Damaged(origin.cfg) /\ Damaged(d.cfg) /\ Damaged(c.prefs)
    /\ origin.cfg.bed => d.bed # "default"
    /\ Done(d, c)

MigrationInv == TypeOK /\ Kept(disk, cura)

-----------------------------------------------------------------------------
(* Types.                                                                  *)

LEMMA CleanedType == Cleaned \in Prefs
BY DEF Cleaned, Prefs

LEMMA FilledType == ASSUME NEW copy \in Copies PROVE Filled(copy) \in Copies \ {"none"}
BY DEF Filled, Copies

LEMMA ContentsType ==
    ASSUME NEW cfg \in Prefs PROVE Contents(cfg) \in SUBSET (Machines \cup {"corrupt", "flat"})
BY DEF Contents, Prefs

LEMMA OriginType == ASSUME NEW o \in Installs PROVE o \in Origins /\ o.cfg \in Prefs
BY InstallsAssumption DEF Origins

\* The legacy chains keep the types, add printers, and leave a damaged blob alone.
LEMMA LegacyChains ==
    ASSUME origin \in Origins, NEW p \in Prefs, Damaged(p), NEW a \in Machines \cup {NoMachine}
    PROVE  /\ Imported(FlatMoved(p, a)) \in Prefs
           /\ Damaged(Imported(FlatMoved(p, a)))
           /\ \A d : Safe(d, p) => Safe(d, Imported(FlatMoved(p, a)))
<1> DEFINE q == FlatMoved(p, a)
<1>1. q \in Prefs /\ Damaged(q) /\ p.blob \subseteq q.blob
      /\ q.corrupt = p.corrupt /\ q.flat = p.flat /\ q.bed = p.bed
  <2>1. CASE p.flatDone \/ a = NoMachine
    <3>1. q = p
      BY <2>1 DEF FlatMoved
    <3> QED BY <3>1
  <2>2. CASE ~p.flatDone /\ a # NoMachine /\ a \in p.blob
    <3>1. q = [p EXCEPT !.flatDone = TRUE]
      BY <2>2 DEF FlatMoved
    <3> QED BY <3>1 DEF Prefs, Damaged
  <2>3. CASE ~p.flatDone /\ a # NoMachine /\ a \notin p.blob /\ p.flat
    <3>1. q = [p EXCEPT !.blob = @ \cup {a}, !.corrupt = FALSE, !.flatDone = TRUE]
      BY <2>3 DEF FlatMoved
    <3>2. a \in Machines /\ ~p.corrupt /\ p.corrupt \in BOOLEAN
      BY <2>3 DEF Damaged, Prefs
    <3> HIDE DEF q
    <3> QED BY <3>1, <3>2 DEF Prefs, Damaged
  <2>4. CASE ~p.flatDone /\ a # NoMachine /\ a \notin p.blob /\ ~p.flat
    <3>1. q = p
      BY <2>4 DEF FlatMoved
    <3> QED BY <3>1
  <2> QED BY <2>1, <2>2, <2>3, <2>4
<1> DEFINE r == Imported(q)
<1> HIDE DEF q
<1>2. /\ r \in Prefs /\ Damaged(r) /\ q.blob \subseteq r.blob
      /\ r.corrupt = q.corrupt /\ r.flat = q.flat /\ r.bed = q.bed
  <2>1. CASE q.importDone \/ origin.imports = {}
    <3>1. r = q
      BY <2>1 DEF Imported
    <3> QED BY <3>1, <1>1
  <2>2. CASE ~q.importDone /\ origin.imports # {}
    <3>1. r = [q EXCEPT !.blob = @ \cup origin.imports, !.odd = @ \ origin.imports,
                        !.corrupt = FALSE, !.importDone = TRUE]
      BY <2>2 DEF Imported
    <3>2. origin.imports \subseteq Machines /\ ~q.corrupt /\ q.corrupt \in BOOLEAN
      BY <1>1, <2>2 DEF Damaged, Prefs, Origins
    <3> HIDE DEF r
    <3> QED BY <1>1, <3>1, <3>2 DEF Prefs, Damaged
  <2> QED BY <2>1, <2>2
<1> HIDE DEF r
<1>3. ASSUME NEW d, Safe(d, p) PROVE Safe(d, r)
  BY <1>1, <1>2, <1>3 DEF Safe
<1> QED BY <1>2, <1>3 DEF r, q

LEMMA InitialInv == Init => MigrationInv
<1> SUFFICES ASSUME Init PROVE MigrationInv
  OBVIOUS
<1>1. origin \in Origins /\ origin.cfg \in Prefs
  BY OriginType DEF Init
<1>2. TypeOK
  BY <1>1, BoundsAssumption
     DEF Init, TypeOK, Disks, Processes, Copies, Records, Steps, At
<1>3. Kept(disk, cura)
  BY <1>1, InstallsAssumption
     DEF Init, Kept, Safe, Damaged, Done, BeforeWrites, Finished
<1> QED BY <1>2, <1>3 DEF MigrationInv

-----------------------------------------------------------------------------
(* What the steps have in common.                                          *)

Spents == [faults : 0..MaxFaults, crashes : 0..MaxCrashes, edits : 0..MaxEdits,
           restores : 0..MaxRestores]

LEMMA SpendType ==
    ASSUME spent \in Spents
    PROVE  /\ spent.faults < MaxFaults /\ Spend("faults") => spent' \in Spents
           /\ spent.crashes < MaxCrashes /\ Spend("crashes") => spent' \in Spents
           /\ spent.edits < MaxEdits /\ Spend("edits") => spent' \in Spents
           /\ spent.restores < MaxRestores /\ Spend("restores") => spent' \in Spents
BY BoundsAssumption DEF Spents, Spend

LEMMA TypeStep ==
    ASSUME TypeOK, origin' = origin, disk' \in Disks, cura' \in Processes, spent' \in Spents,
           cura'.todo # {} => /\ cura'.at = "shards"
                              /\ cura'.todo \subseteq cura'.prefs.blob \ cura'.prefs.odd
    PROVE  TypeOK'
BY DEF TypeOK, Spents, At, Migrants

\* The types of a state, and that shards are left only at their step.
LEMMA Types ==
    ASSUME TypeOK
    PROVE  /\ origin \in Origins /\ origin.cfg \in Prefs /\ origin.imports \subseteq Machines
           /\ disk \in Disks /\ disk.cfg \in Prefs /\ cura \in Processes /\ cura.prefs \in Prefs
           /\ cura.todo \subseteq Machines /\ spent \in Spents
           /\ cura.at # "shards" => cura.todo = {}
           /\ cura.todo \subseteq Migrants
BY DEF TypeOK, Origins, Disks, Processes, Spents, At

LEMMA ToType ==
    ASSUME TypeOK, cura.todo = {}, NEW at \in Steps
    PROVE  To(at) \in Processes /\ To(at).todo = {}
BY DEF TypeOK, To, Processes

LEMMA FailedType ==
    ASSUME TypeOK, NEW r \in Records PROVE Failed(r) \in Processes /\ Failed(r).todo = {}
BY DEF TypeOK, Failed, Processes, Steps

LEMMA StepNames == BeforeWrites \subseteq Steps /\ Finished \subseteq Steps
BY DEF BeforeWrites, Finished, Steps

\* Documents that lose nothing.
Grows(d, e) ==
    /\ \A m \in origin.cfg.blob : Copied(d, m) => Copied(e, m)
    /\ d.backup \subseteq e.backup
    /\ d.bed \in {"old", "live"} => e.bed \in {"old", "live"}
    /\ d.oldChrome \/ d.chrome # "none" => e.oldChrome \/ e.chrome # "none"
    /\ d.chrome # "none" => e.chrome # "none"

LEMMA SafeGrows ==
    ASSUME NEW d, NEW e, Grows(d, e), NEW p, Safe(d, p) PROVE Safe(e, p)
BY DEF Grows, Safe

\* Where everything is in its new place, the preferences may go.
LEMMA SafeCleaned ==
    ASSUME NEW d, Documented(d), BackedUp(d), BedKept(d), d.chrome # "none"
    PROVE  Safe(d, Cleaned) /\ Damaged(Cleaned)
BY DEF Documented, BackedUp, BedKept, Safe, Cleaned, Damaged

\* The documents grow, and the process goes on with what is done.
LEMMA KeptGrows ==
    ASSUME Kept(disk, cura), NEW e, NEW c, Grows(disk, e), e.cfg = disk.cfg,
           origin.cfg.bed => e.bed # "default", c.prefs = cura.prefs, Done(e, c)
    PROVE  Kept(e, c)
BY SafeGrows DEF Kept

\* Done holds at a step before the writes if the record says nothing new.
LEMMA DoneAtRest ==
    ASSUME Kept(disk, cura), NEW e, NEW c, Grows(disk, e),
           e.record = "ok" => disk.record = "ok",
           c.session = "ok" => cura.session = "ok" \/ disk.record = "ok",
           c.at \in BeforeWrites \ {"tidy"}
    PROVE  Done(e, c)
BY DEF Kept, Done, Grows, Documented, BackedUp, BeforeWrites, Finished

\* The origin never changes.
LEMMA Frozen == ASSUME origin' = origin, Kept(disk', cura') PROVE Kept(disk, cura)'
BY DEF Kept, Safe, Damaged, Done, BedKept, BackedUp, Documented, Copied

LEMMA StaysGrown == Grows(disk, disk)
BY DEF Grows

\* A failed attempt.
LEMMA FailureKeeps ==
    ASSUME MigrationInv, NEW r \in Failures, cura' = Failed(r), UNCHANGED <<origin, disk>>,
           spent' \in Spents
    PROVE  MigrationInv'
<1>1. r \in Records /\ r # "ok"
  BY DEF Records, Failures
<1>2. TypeOK'
  BY <1>1, FailedType, Types, TypeStep DEF MigrationInv
<1>3. cura'.at = "idle" /\ cura'.prefs = cura.prefs /\ cura'.session = r
  BY Types DEF MigrationInv, Failed, Processes
<1>4. Done(disk', cura')
  BY <1>1, <1>3, StaysGrown, DoneAtRest DEF MigrationInv, BeforeWrites
<1>5. Kept(disk', cura')
  BY <1>3, <1>4, StaysGrown, KeptGrows DEF MigrationInv, Kept
<1> QED BY <1>2, <1>5, Frozen DEF MigrationInv

-----------------------------------------------------------------------------
(* The steps of the procedure.                                             *)

\* A write that grows the documents, or fails.
LEMMA WriteKeeps ==
    ASSUME MigrationInv, origin' = origin, NEW e \in Disks, NEW c \in Processes,
           c.todo # {} => c.at = "shards" /\ c.todo \subseteq c.prefs.blob \ c.prefs.odd,
           NEW f, Writes(e, c, f), cura' = f /\ UNCHANGED disk /\ spent' \in Spents => MigrationInv',
           Grows(disk, e), e.cfg = disk.cfg, origin.cfg.bed => e.bed # "default",
           c.prefs = cura.prefs, Done(e, c)
    PROVE  MigrationInv'
<1>1. CASE disk' = e /\ cura' = c /\ UNCHANGED spent
  <2>1. TypeOK'
    BY <1>1, Types, TypeStep DEF MigrationInv
  <2>2. Kept(disk', cura')
    BY <1>1, KeptGrows DEF MigrationInv
  <2> QED BY <2>1, <2>2, Frozen DEF MigrationInv
<1>2. CASE spent.faults < MaxFaults /\ cura' = f /\ Spend("faults") /\ UNCHANGED disk
  BY <1>2, SpendType, Types DEF MigrationInv
<1> QED BY <1>1, <1>2 DEF Writes

\* The process goes on to another step.
LEMMA ToKeeps ==
    ASSUME MigrationInv, NEW at \in Steps, cura.todo = {}, cura' = To(at),
           UNCHANGED <<origin, disk>>, spent' \in Spents, Done(disk, To(at))
    PROVE  MigrationInv'
<1>1. TypeOK'
  BY ToType, Types, TypeStep DEF MigrationInv
<1>2. To(at).prefs = cura.prefs
  BY Types DEF MigrationInv, To, Processes
<1>3. Kept(disk', cura')
  BY <1>2, KeptGrows, StaysGrown DEF MigrationInv, Kept
<1> QED BY <1>1, <1>3, Frozen DEF MigrationInv

LEMMA ActivateKeeps == MigrationInv /\ Activate => MigrationInv'
<1> SUFFICES ASSUME MigrationInv, Activate PROVE MigrationInv'
  OBVIOUS
<1>1. cura.at = "activate" /\ cura.todo = {} /\ "decide" \in Steps /\ "decide" \in BeforeWrites \ {"tidy"}
  BY Types DEF MigrationInv, Activate, At, Steps, BeforeWrites
<1>2. To("decide").at = "decide" /\ To("decide").session = cura.session /\ To("decide").prefs = cura.prefs
  BY Types DEF MigrationInv, To, Processes
<1> DEFINE e == [disk EXCEPT !.exists = TRUE]
<1>3. e \in Disks /\ Grows(disk, e) /\ e.cfg = disk.cfg /\ e.bed = disk.bed /\ e.record = disk.record
  BY Types DEF MigrationInv, Disks, Grows, Copied
<1> HIDE DEF e
<1>4. Done(disk, To("decide")) /\ Done(e, To("decide"))
  BY <1>1, <1>2, <1>3, StaysGrown, DoneAtRest DEF MigrationInv
<1>5. cura' = To("decide") /\ UNCHANGED <<origin, disk>> /\ spent' \in Spents => MigrationInv'
  BY <1>1, <1>4, ToKeeps
<1>6. CASE disk.exists
  BY <1>5, <1>6, Types DEF MigrationInv, Activate
<1>7. CASE ~disk.exists
  <2>1. Writes(e, To("decide"), To("decide")) /\ origin' = origin
    BY <1>7 DEF Activate, e
  <2>2. To("decide") \in Processes /\ To("decide").todo = {}
    BY <1>1, ToType DEF MigrationInv
  <2>3. origin.cfg.bed => e.bed # "default"
    BY <1>3 DEF MigrationInv, Kept
  <2> QED BY <1>2, <1>3, <1>4, <1>5, <2>1, <2>2, <2>3, WriteKeeps
<1> QED BY <1>6, <1>7

LEMMA DecideKeeps == MigrationInv /\ Decide => MigrationInv'
<1> SUFFICES ASSUME MigrationInv, Decide PROVE MigrationInv'
  OBVIOUS
<1> DEFINE at == Decision(cura.prefs, Record(cura.session))
<1>1. at \in {"tidy", "idle", "carry"}
  BY DEF Decision
<1>2. at = "tidy" => disk.record = "ok" \/ cura.session = "ok"
  BY DEF Decision, Record
<1>3. cura' = To(at) /\ UNCHANGED <<origin, disk, spent>> /\ cura.todo = {}
  BY Types DEF MigrationInv, Decide, At
<1> HIDE DEF at
<1>4. To(at).at = at /\ To(at).session = cura.session
  BY Types DEF MigrationInv, To, Processes
<1>5. Done(disk, To(at))
  BY <1>1, <1>2, <1>4 DEF MigrationInv, Kept, Done, BeforeWrites, Finished
<1> QED BY <1>1, <1>3, <1>5, Types, ToKeeps DEF MigrationInv, Steps

LEMMA CarryKeeps == MigrationInv /\ Carry => MigrationInv'
<1> SUFFICES ASSUME MigrationInv, Carry PROVE MigrationInv'
  OBVIOUS
<1> DEFINE at == IF At("tidy") THEN "sweep" ELSE "backup"
           bed == IF cura.prefs.bed THEN "old" ELSE "default"
           e == [disk EXCEPT !.exists = TRUE, !.bed = bed]
           failed == IF At("tidy") THEN To("idle") ELSE Failed("write-failed")
<1>1. /\ cura.at \in {"tidy", "carry"} /\ cura.todo = {} /\ at \in Steps
      /\ at = "sweep" => cura.at = "tidy"
      /\ at = "backup" \/ at = "sweep"
  BY Types DEF MigrationInv, Carry, Steps, At
<1>2. /\ e.cfg = disk.cfg /\ e.bed = bed /\ e.record = disk.record /\ e.backup = disk.backup
      /\ e.machines = disk.machines /\ e.shards = disk.shards /\ e.chrome = disk.chrome
  BY Types DEF MigrationInv, Disks, Grows, Copied, Copies
<1>3. origin.cfg.bed => (disk.bed # "none" => BedKept(disk)) /\ (disk.bed = "none" => bed = "old")
  BY Types DEF MigrationInv, Kept, Safe, BedKept, Disks, Copies
<1>4. disk.bed = "none" => Grows(disk, e) /\ e \in Disks
  BY Types DEF MigrationInv, Disks, Grows, Copied, Copies
<1> HIDE DEF e, bed, at
<1>5. To(at).at = at /\ To(at).session = cura.session /\ To(at).prefs = cura.prefs
  BY Types DEF MigrationInv, To, Processes
<1>6. CASE disk.bed # "none"
  <2>1. Done(disk, To(at))
    BY <1>1, <1>3, <1>5, <1>6 DEF MigrationInv, Kept, Done, BeforeWrites, Finished, BedKept
  <2>2. cura' = To(at) /\ UNCHANGED <<origin, disk, spent>>
    BY <1>6 DEF Carry, at
  <2> QED BY <1>1, <2>1, <2>2, ToKeeps, Types DEF MigrationInv
<1>7. CASE disk.bed = "none"
  <2>1. Writes(e, To(at), failed) /\ origin' = origin
    BY <1>7 DEF Carry, at, e, bed
  <2>2. cura' = failed /\ UNCHANGED disk /\ spent' \in Spents => MigrationInv'
    <3>1. CASE At("tidy")
      <4>1. "idle" \in Steps /\ "idle" \in BeforeWrites \ {"tidy"}
        BY DEF Steps, BeforeWrites
      <4>2. Done(disk, To("idle"))
        <5>1. To("idle").at = "idle" /\ To("idle").session = cura.session
          BY Types DEF MigrationInv, To, Processes
        <5> QED BY <4>1, <5>1, StaysGrown, DoneAtRest DEF MigrationInv
      <4> QED BY <1>1, <2>1, <3>1, <4>1, <4>2, ToKeeps
    <3>2. CASE ~At("tidy")
      BY <2>1, <3>2, FailureKeeps DEF Failures
    <3> QED BY <3>1, <3>2
  <2>3. To(at) \in Processes /\ To(at).todo = {}
    BY <1>1, ToType DEF MigrationInv
  <2>4. origin.cfg.bed => e.bed # "default"
    BY <1>2, <1>3, <1>7
  <2>5. Done(e, To(at))
    BY <1>1, <1>2, <1>3, <1>5, <1>7
       DEF MigrationInv, Kept, Done, BeforeWrites, Finished, BedKept, BackedUp, Documented, Copied
  <2> HIDE DEF failed
  <2> QED BY <1>2, <1>4, <1>5, <1>7, <2>1, <2>2, <2>3, <2>4, <2>5, WriteKeeps
<1> QED BY <1>6, <1>7

LEMMA SweepKeeps == MigrationInv /\ Sweep => MigrationInv'
<1> SUFFICES ASSUME MigrationInv, Sweep PROVE MigrationInv'
  OBVIOUS
<1>1. cura.at = "sweep" /\ cura.todo = {}
  BY Types DEF MigrationInv, Sweep, At
<1>2. Documented(disk) /\ BackedUp(disk) /\ BedKept(disk) /\ disk.chrome # "none"
  BY <1>1 DEF MigrationInv, Kept, Done, BeforeWrites, Finished
<1>3. /\ disk' \in Disks /\ disk'.cfg = disk.cfg /\ disk'.bed = disk.bed
      /\ disk'.chrome = disk.chrome /\ disk'.record = disk.record
      /\ disk'.machines = disk.machines /\ disk'.shards = disk.shards
      /\ disk'.backup = disk.backup
  BY Types DEF MigrationInv, Sweep, Disks
<1>4. /\ cura' \in Processes /\ cura'.at = "idle" /\ cura'.prefs = Cleaned
      /\ cura'.session = cura.session /\ cura'.todo = {}
  BY <1>1, Types, CleanedType DEF MigrationInv, Sweep, Processes, Steps
<1>5. UNCHANGED <<origin, spent>>
  BY DEF Sweep
<1>6. TypeOK'
  BY <1>3, <1>4, <1>5, Types, TypeStep DEF MigrationInv
<1>7. Documented(disk') /\ BackedUp(disk') /\ BedKept(disk') /\ Grows(disk, disk')
  BY <1>2, <1>3 DEF Documented, BackedUp, BedKept, Copied, Grows
<1>8. Done(disk', cura')
  BY <1>2, <1>3, <1>4, <1>7 DEF Done, BeforeWrites, Finished
<1>9. Kept(disk', cura')
  BY <1>2, <1>3, <1>4, <1>7, <1>8, SafeCleaned, SafeGrows DEF MigrationInv, Kept
<1> QED BY <1>5, <1>6, <1>9, Frozen DEF MigrationInv

LEMMA BackupKeeps == MigrationInv /\ Backup => MigrationInv'
<1> SUFFICES ASSUME MigrationInv, Backup PROVE MigrationInv'
  OBVIOUS
<1> DEFINE failed == Failed(IF cura.prefs.corrupt THEN "corrupt-unsaved" ELSE "backup-failed")
           e == [disk EXCEPT !.backup = @ \cup Contents(disk.cfg)]
<1>1. cura.at = "backup" /\ cura.todo = {} /\ origin' = origin
  BY Types DEF MigrationInv, Backup, At
<1>2. cura' = failed /\ UNCHANGED disk /\ spent' \in Spents => MigrationInv'
  <2>1. CASE cura.prefs.corrupt
    BY <1>1, <2>1, FailureKeeps DEF Failures
  <2>2. CASE ~cura.prefs.corrupt
    BY <1>1, <2>2, FailureKeeps DEF Failures
  <2> QED BY <2>1, <2>2
<1>3. CASE ~Evidence(disk.cfg)
  BY <1>2, <1>3, Types DEF MigrationInv, Backup
<1>4. CASE Evidence(disk.cfg)
  <2>1. Writes(e, To("global"), failed)
    BY <1>4 DEF Backup
  <2>2. Contents(disk.cfg) \in SUBSET (Machines \cup {"corrupt", "flat"})
    BY Types, ContentsType DEF MigrationInv
  <2>3. /\ e \in Disks /\ e.cfg = disk.cfg /\ e.bed = disk.bed /\ e.chrome = disk.chrome
        /\ e.record = disk.record /\ e.machines = disk.machines /\ e.shards = disk.shards
        /\ e.oldChrome = disk.oldChrome /\ e.backup = disk.backup \cup Contents(disk.cfg)
    BY <2>2, Types DEF MigrationInv, Disks
  <2> HIDE DEF e, failed
  <2>4. Grows(disk, e)
    BY <2>3 DEF Grows, Copied
  <2>5. BackedUp(e)
    BY <2>3 DEF MigrationInv, Kept, Safe, BackedUp, Contents
  <2>6. BedKept(e)
    BY <1>1, <2>3 DEF MigrationInv, Kept, Done, BeforeWrites, BedKept
  <2>7. /\ To("global").at = "global" /\ To("global").session = cura.session
        /\ To("global").prefs = cura.prefs
    BY Types DEF MigrationInv, To, Processes
  <2>8. Done(e, To("global"))
    BY <2>3, <2>4, <2>5, <2>6, <2>7
       DEF MigrationInv, Kept, Done, BeforeWrites, Finished, Documented, Grows
  <2>9. To("global") \in Processes /\ To("global").todo = {}
    BY <1>1, ToType DEF MigrationInv, Steps
  <2>10. origin.cfg.bed => e.bed # "default"
    BY <2>3 DEF MigrationInv, Kept
  <2> QED BY <1>1, <1>2, <2>1, <2>3, <2>4, <2>7, <2>8, <2>9, <2>10, WriteKeeps
<1> QED BY <1>3, <1>4

\* A failed write of the documents.
LEMMA WriteFailureKeeps ==
    ASSUME MigrationInv, UNCHANGED <<origin, disk>>, cura' = Failed("write-failed"),
           spent' \in Spents
    PROVE  MigrationInv'
BY FailureKeeps DEF Failures

LEMMA GlobalKeeps == MigrationInv /\ Global => MigrationInv'
<1> SUFFICES ASSUME MigrationInv, Global PROVE MigrationInv'
  OBVIOUS
<1> DEFINE c == IF cura.prefs.corrupt THEN To("recover")
                ELSE [cura EXCEPT !.at = "shards", !.todo = Migrants]
           chrome == IF disk.oldChrome THEN Filled(disk.chrome) ELSE disk.chrome
           e == [disk EXCEPT !.chrome = chrome]
<1>1. /\ cura.at = "global" /\ cura.todo = {} /\ origin' = origin
      /\ Writes(e, c, Failed("write-failed"))
  BY Types DEF MigrationInv, Global, At
<1>2. disk.chrome \in Copies /\ disk.oldChrome \in BOOLEAN
  BY Types DEF MigrationInv, Disks
<1>3. chrome \in Copies /\ chrome # "none"
  BY <1>2, FilledType DEF MigrationInv, Kept, Safe
<1> HIDE DEF chrome
<1>4. /\ e \in Disks /\ e.cfg = disk.cfg /\ e.bed = disk.bed /\ e.chrome = chrome
      /\ e.record = disk.record /\ e.machines = disk.machines /\ e.shards = disk.shards
      /\ e.oldChrome = disk.oldChrome /\ e.backup = disk.backup
  BY <1>3, Types DEF MigrationInv, Disks
<1>5. /\ c \in Processes /\ c.prefs = cura.prefs /\ c.session = cura.session
      /\ cura.prefs.corrupt => c.at = "recover" /\ c.todo = {}
      /\ ~cura.prefs.corrupt => c.at = "shards" /\ c.todo = Migrants
  BY <1>1, Types DEF MigrationInv, Processes, Steps, To, Migrants, Prefs
<1> HIDE DEF e, c
<1>6. Grows(disk, e)
  BY <1>3, <1>4 DEF Grows, Copied
<1>7. BackedUp(e) /\ BedKept(e)
  BY <1>1, <1>4 DEF MigrationInv, Kept, Done, BeforeWrites, BackedUp, BedKept
<1>8. Done(e, c)
  BY <1>3, <1>4, <1>5, <1>6, <1>7
     DEF MigrationInv, Kept, Done, BeforeWrites, Finished, Documented, Grows
<1>9. c.todo # {} => c.at = "shards" /\ c.todo \subseteq c.prefs.blob \ c.prefs.odd
  BY <1>5, Types DEF MigrationInv, Prefs, Migrants
<1>10. origin.cfg.bed => e.bed # "default"
  BY <1>4 DEF MigrationInv, Kept
<1> QED BY <1>1, <1>4, <1>5, <1>6, <1>8, <1>9, <1>10, WriteKeeps, WriteFailureKeeps

LEMMA RecoverKeeps == MigrationInv /\ Recover => MigrationInv'
<1> SUFFICES ASSUME MigrationInv, Recover PROVE MigrationInv'
  OBVIOUS
<1> DEFINE c == [cura EXCEPT !.at = "sweep", !.session = "corrupt-blob"]
           e == [disk EXCEPT !.exists = TRUE, !.record = "corrupt-blob"]
<1>1. /\ cura.at = "recover" /\ cura.todo = {} /\ origin' = origin
      /\ Writes(e, c, Failed("write-failed"))
  BY Types DEF MigrationInv, Recover, At
<1>2. /\ e \in Disks /\ e.cfg = disk.cfg /\ e.bed = disk.bed /\ e.chrome = disk.chrome
      /\ e.record = "corrupt-blob" /\ e.machines = disk.machines /\ e.shards = disk.shards
      /\ e.oldChrome = disk.oldChrome /\ e.backup = disk.backup
  BY Types DEF MigrationInv, Disks, Records, Failures
<1>3. /\ c \in Processes /\ c.prefs = cura.prefs /\ c.session = "corrupt-blob"
      /\ c.at = "sweep" /\ c.todo = {}
  BY <1>1, Types DEF MigrationInv, Processes, Steps, Records, Failures
<1> HIDE DEF e, c
<1>4. Grows(disk, e)
  BY <1>2 DEF Grows, Copied
<1>5. cura.prefs.blob = {}
  BY <1>1 DEF MigrationInv, Kept, Done, Damaged
<1>6. Documented(e) /\ BackedUp(e) /\ BedKept(e) /\ e.chrome # "none"
  BY <1>1, <1>2, <1>5
     DEF MigrationInv, Kept, Safe, Done, BeforeWrites, Documented, BackedUp, BedKept, Copied
<1>7. Done(e, c)
  BY <1>3, <1>6 DEF Done
<1>8. origin.cfg.bed => e.bed # "default"
  BY <1>2 DEF MigrationInv, Kept
<1> QED BY <1>1, <1>2, <1>3, <1>4, <1>7, <1>8, WriteKeeps, WriteFailureKeeps

LEMMA ShardKeeps == ASSUME NEW m \in Machines PROVE MigrationInv /\ Shard(m) => MigrationInv'
<1> SUFFICES ASSUME MigrationInv, Shard(m) PROVE MigrationInv'
  OBVIOUS
<1> DEFINE c == [cura EXCEPT !.todo = @ \ {m}]
           e == [disk EXCEPT !.shards[m] = Filled(@)]
<1>1. /\ cura.at = "shards" /\ origin' = origin
      /\ Writes(e, c, Failed("write-failed"))
  BY DEF Shard, At
<1>2. disk.shards \in [Machines -> Copies] /\ Filled(disk.shards[m]) \in Copies \ {"none"}
  BY Types, FilledType DEF MigrationInv, Disks
<1>3. /\ e \in Disks /\ e.cfg = disk.cfg /\ e.bed = disk.bed /\ e.chrome = disk.chrome
      /\ e.record = disk.record /\ e.machines = disk.machines
      /\ e.shards = [disk.shards EXCEPT ![m] = Filled(@)]
      /\ e.oldChrome = disk.oldChrome /\ e.backup = disk.backup
  BY <1>2, Types DEF MigrationInv, Disks
<1>4. /\ c \in Processes /\ c.prefs = cura.prefs /\ c.session = cura.session
      /\ c.at = "shards" /\ c.todo \subseteq c.prefs.blob \ c.prefs.odd
  BY <1>1, Types DEF MigrationInv, Processes, Steps, Migrants
<1> HIDE DEF e, c
<1>5. \A k \in Machines : disk.shards[k] # "none" => e.shards[k] # "none"
  BY <1>2, <1>3
<1>6. origin.cfg.blob \subseteq Machines
  BY Types DEF MigrationInv, Prefs
<1>7. Grows(disk, e)
  BY <1>3, <1>5, <1>6 DEF Grows, Copied
<1>8. Done(e, c)
  BY <1>1, <1>3, <1>4, <1>7
     DEF MigrationInv, Kept, Done, BeforeWrites, Finished, Documented, Grows, BackedUp, BedKept
<1>9. origin.cfg.bed => e.bed # "default"
  BY <1>3 DEF MigrationInv, Kept
<1> QED BY <1>1, <1>3, <1>4, <1>7, <1>8, <1>9, WriteKeeps, WriteFailureKeeps

LEMMA SettingsKeeps == MigrationInv /\ Settings => MigrationInv'
<1> SUFFICES ASSUME MigrationInv, Settings PROVE MigrationInv'
  OBVIOUS
<1> DEFINE machines == [m \in Machines |-> IF m \in Migrants THEN Filled(disk.machines[m])
                                           ELSE disk.machines[m]]
           e == [disk EXCEPT !.exists = TRUE, !.machines = machines]
<1>1. /\ cura.at = "shards" /\ cura.todo = {} /\ origin' = origin
      /\ Writes(e, To("verify"), Failed("write-failed"))
  BY DEF Settings, At
<1>2. disk.machines \in [Machines -> Copies]
  BY Types DEF MigrationInv, Disks
<1>3. machines \in [Machines -> Copies]
  BY <1>2, FilledType
<1>4. \A k \in Machines : disk.machines[k] # "none" => machines[k] # "none"
  BY <1>2, FilledType
<1> HIDE DEF machines
<1>5. /\ e \in Disks /\ e.cfg = disk.cfg /\ e.bed = disk.bed /\ e.chrome = disk.chrome
      /\ e.record = disk.record /\ e.machines = machines /\ e.shards = disk.shards
      /\ e.oldChrome = disk.oldChrome /\ e.backup = disk.backup
  BY <1>3, Types DEF MigrationInv, Disks
<1>6. /\ To("verify") \in Processes /\ To("verify").todo = {} /\ To("verify").at = "verify"
      /\ To("verify").prefs = cura.prefs /\ To("verify").session = cura.session
  BY <1>1, Types, ToType DEF MigrationInv, To, Processes, Steps
<1> HIDE DEF e
<1>7. origin.cfg.blob \subseteq Machines
  BY Types DEF MigrationInv, Prefs
<1>8. Grows(disk, e)
  BY <1>4, <1>5, <1>7 DEF Grows, Copied
<1>9. Done(e, To("verify"))
  BY <1>1, <1>5, <1>6, <1>8
     DEF MigrationInv, Kept, Done, BeforeWrites, Finished, Documented, Grows, BackedUp, BedKept
<1>10. origin.cfg.bed => e.bed # "default"
  BY <1>5 DEF MigrationInv, Kept
<1> QED BY <1>1, <1>5, <1>6, <1>8, <1>9, <1>10, WriteKeeps, WriteFailureKeeps

LEMMA VerifyKeeps == MigrationInv /\ Verify => MigrationInv'
<1> SUFFICES ASSUME MigrationInv, Verify PROVE MigrationInv'
  OBVIOUS
<1>1. cura.at = "verify" /\ cura.todo = {} /\ UNCHANGED <<origin, spent>>
  BY Types DEF MigrationInv, Verify, At
<1>2. CASE ~Verified
  BY <1>1, <1>2, FailureKeeps, Types DEF MigrationInv, Verify, Failures
<1>3. CASE Verified
  <2>1. Documented(disk)
    BY <1>3 DEF MigrationInv, Kept, Safe, Documented, Copied, Verified
  <2>2. BackedUp(disk) /\ BedKept(disk) /\ disk.chrome # "none"
    BY <1>1 DEF MigrationInv, Kept, Done, BeforeWrites
  <2>3. /\ disk' \in Disks /\ disk'.cfg = disk.cfg /\ disk'.bed = disk.bed
        /\ disk'.chrome = disk.chrome /\ disk'.record = disk.record
        /\ disk'.machines = disk.machines /\ disk'.shards = disk.shards
        /\ disk'.backup = disk.backup
    BY <1>3, Types DEF MigrationInv, Verify, Disks
  <2>4. /\ cura' \in Processes /\ cura'.at = "record" /\ cura'.prefs = Cleaned
        /\ cura'.session = cura.session /\ cura'.todo = {}
    BY <1>1, <1>3, Types, CleanedType DEF MigrationInv, Verify, Processes, Steps
  <2>5. TypeOK'
    BY <1>1, <2>3, <2>4, Types, TypeStep DEF MigrationInv
  <2>6. Documented(disk') /\ BackedUp(disk') /\ BedKept(disk') /\ Grows(disk, disk')
    BY <2>1, <2>2, <2>3 DEF Documented, BackedUp, BedKept, Copied, Grows
  <2>7. Done(disk', cura')
    BY <2>2, <2>3, <2>4, <2>6 DEF Done
  <2>8. Kept(disk', cura')
    BY <2>2, <2>3, <2>4, <2>6, <2>7, SafeCleaned, SafeGrows DEF MigrationInv, Kept
  <2> QED BY <1>1, <2>5, <2>8, Frozen DEF MigrationInv
<1> QED BY <1>2, <1>3

LEMMA CommitKeeps == MigrationInv /\ Commit => MigrationInv'
<1> SUFFICES ASSUME MigrationInv, Commit PROVE MigrationInv'
  OBVIOUS
<1> DEFINE e == [disk EXCEPT !.exists = TRUE, !.record = "ok"]
           c(r) == [cura EXCEPT !.at = "flush", !.session = r]
<1>1. cura.at = "record" /\ cura.todo = {} /\ origin' = origin
  BY Types DEF MigrationInv, Commit, At
<1>2. PICK r \in {"ok", cura.session} : Writes(e, c("ok"), c(r))
  BY DEF Commit
<1>3. /\ e \in Disks /\ e.cfg = disk.cfg /\ e.bed = disk.bed /\ e.chrome = disk.chrome
      /\ e.record = "ok" /\ e.machines = disk.machines /\ e.shards = disk.shards
      /\ e.oldChrome = disk.oldChrome /\ e.backup = disk.backup
  BY Types DEF MigrationInv, Disks, Records
<1>4. ASSUME NEW q \in {"ok", cura.session}
      PROVE  /\ c(q) \in Processes /\ c(q).prefs = cura.prefs /\ c(q).at = "flush"
             /\ c(q).todo = {}
  BY <1>1, Types DEF MigrationInv, Processes, Steps, Records
<1> HIDE DEF e, c
<1>5. Grows(disk, e)
  BY <1>3 DEF Grows, Copied
<1>6. ASSUME NEW q \in {"ok", cura.session} PROVE Done(disk, c(q)) /\ Done(e, c(q))
  BY <1>1, <1>3, <1>4
     DEF MigrationInv, Kept, Done, BeforeWrites, Finished, Documented, Copied, BackedUp, BedKept
<1>7. cura' = c(r) /\ UNCHANGED disk /\ spent' \in Spents => MigrationInv'
  <2> SUFFICES ASSUME cura' = c(r), UNCHANGED disk, spent' \in Spents PROVE MigrationInv'
    OBVIOUS
  <2>1. TypeOK'
    BY <1>1, <1>4, Types, TypeStep DEF MigrationInv
  <2>2. Kept(disk', cura')
    BY <1>4, <1>6, KeptGrows, StaysGrown DEF MigrationInv, Kept
  <2> QED BY <1>1, <2>1, <2>2, Frozen DEF MigrationInv
<1>8. origin.cfg.bed => e.bed # "default"
  BY <1>3 DEF MigrationInv, Kept
<1> QED BY <1>1, <1>2, <1>3, <1>4, <1>5, <1>6, <1>7, <1>8, WriteKeeps

-----------------------------------------------------------------------------
(* The preference file is written, with preferences that lose nothing.     *)

LEMMA FileKeeps ==
    ASSUME MigrationInv, NEW p \in Prefs, Safe(disk, p), Damaged(p),
           NEW e, e = [disk EXCEPT !.cfg = p], NEW c, Safe(disk, c.prefs), Damaged(c.prefs),
           c.session = "ok" => cura.session = "ok", c.at \in {"down", "idle"}
    PROVE  e \in Disks /\ Kept(e, c)
<1>1. /\ e \in Disks /\ e.cfg = p /\ e.bed = disk.bed /\ e.chrome = disk.chrome
      /\ e.record = disk.record /\ e.machines = disk.machines /\ e.shards = disk.shards
      /\ e.oldChrome = disk.oldChrome /\ e.backup = disk.backup
  BY Types DEF MigrationInv, Disks
<1>2. Grows(disk, e)
  BY <1>1 DEF Grows, Copied
<1>3. Done(e, c)
  BY <1>1, <1>2, DoneAtRest DEF MigrationInv, BeforeWrites
<1> QED BY <1>1, <1>2, <1>3, SafeGrows DEF MigrationInv, Kept

LEMMA FlushKeeps == MigrationInv /\ Flush => MigrationInv'
<1> SUFFICES ASSUME MigrationInv, Flush PROVE MigrationInv'
  OBVIOUS
<1>1. /\ cura.at = "flush" /\ cura.todo = {} /\ origin' = origin /\ "idle" \in Steps
      /\ Writes(Saved, To("idle"), To("idle"))
  BY Types DEF MigrationInv, Flush, At, Steps
<1>2. /\ To("idle") \in Processes /\ To("idle").todo = {} /\ To("idle").at = "idle"
      /\ To("idle").prefs = cura.prefs /\ To("idle").session = cura.session
  BY <1>1, Types, ToType DEF MigrationInv, To, Processes
<1>3. Done(disk, To("idle"))
  BY <1>2, DoneAtRest, StaysGrown DEF MigrationInv, BeforeWrites
<1>4. Saved \in Disks /\ Kept(Saved, To("idle"))
  BY <1>2, Types, FileKeeps DEF MigrationInv, Kept, Saved
<1>5. CASE disk' = Saved /\ cura' = To("idle") /\ UNCHANGED spent
  <2>1. TypeOK'
    BY <1>1, <1>2, <1>4, <1>5, Types, TypeStep DEF MigrationInv
  <2> QED BY <1>1, <1>4, <1>5, <2>1, Frozen DEF MigrationInv
<1>6. CASE /\ spent.faults < MaxFaults /\ cura' = To("idle")
           /\ Spend("faults") /\ UNCHANGED disk
  BY <1>1, <1>3, <1>6, SpendType, Types, ToKeeps DEF MigrationInv
<1> QED BY <1>1, <1>5, <1>6 DEF Writes

LEMMA SaveKeeps == MigrationInv /\ Save => MigrationInv'
<1> SUFFICES ASSUME MigrationInv, Save PROVE MigrationInv'
  OBVIOUS
<1>1. cura.at = "idle" /\ disk' = Saved /\ UNCHANGED <<origin, cura, spent>>
  BY DEF Save, At
<1>2. Saved \in Disks /\ Kept(Saved, cura)
  BY <1>1, Types, FileKeeps DEF MigrationInv, Kept, Saved
<1>3. TypeOK'
  BY <1>1, <1>2, Types, TypeStep DEF MigrationInv
<1> QED BY <1>1, <1>2, <1>3, Frozen DEF MigrationInv

\* A process that is gone has what is in the file.
LEMMA GoneType ==
    ASSUME NEW d \in Disks
    PROVE  /\ Gone(d) \in Processes /\ Gone(d).todo = {} /\ Gone(d).at = "down"
           /\ Gone(d).prefs = d.cfg /\ Gone(d).session = "none"
BY DEF Gone, Disks, Processes, Steps, Records

LEMMA ExitKeeps == MigrationInv /\ Exit => MigrationInv'
<1> SUFFICES ASSUME MigrationInv, Exit PROVE MigrationInv'
  OBVIOUS
<1>1. disk' = Saved /\ cura' = Gone(Saved) /\ UNCHANGED <<origin, spent>>
  BY DEF Exit
<1>2. Saved \in Disks /\ Saved.cfg = cura.prefs
  BY Types DEF MigrationInv, Saved, Disks
<1>3. Kept(Saved, Gone(Saved))
  BY <1>2, Types, FileKeeps, GoneType DEF MigrationInv, Kept, Saved
<1>4. TypeOK'
  BY <1>1, <1>2, Types, GoneType, TypeStep DEF MigrationInv
<1> QED BY <1>1, <1>3, <1>4, Frozen DEF MigrationInv

LEMMA CrashKeeps == MigrationInv /\ Crash => MigrationInv'
<1> SUFFICES ASSUME MigrationInv, Crash PROVE MigrationInv'
  OBVIOUS
<1>1. cura' = Gone(disk) /\ UNCHANGED <<origin, disk>> /\ spent' \in Spents
  BY Types, SpendType DEF MigrationInv, Crash
<1>2. Safe(disk, disk.cfg) /\ Damaged(disk.cfg)
  BY DEF MigrationInv, Kept
<1>3. Done(disk, Gone(disk))
  BY Types, GoneType, DoneAtRest, StaysGrown DEF MigrationInv, BeforeWrites
<1>4. Kept(disk, Gone(disk))
  BY <1>2, <1>3, Types, GoneType DEF MigrationInv, Kept
<1>5. TypeOK'
  BY <1>1, Types, GoneType, TypeStep DEF MigrationInv
<1> QED BY <1>1, <1>4, <1>5, Frozen DEF MigrationInv

\* The old preference file holds everything.
LEMMA RestoreKeeps == MigrationInv /\ Restore => MigrationInv'
<1> SUFFICES ASSUME MigrationInv, Restore PROVE MigrationInv'
  OBVIOUS
<1> DEFINE e == [disk EXCEPT !.cfg = origin.cfg]
<1>1. disk' = e /\ cura' = Gone(e) /\ origin' = origin /\ spent' \in Spents
  BY Types, SpendType DEF MigrationInv, Restore
<1>2. Safe(disk, origin.cfg) /\ Damaged(origin.cfg)
  BY DEF MigrationInv, Kept, Safe, Damaged
<1>3. e \in Disks /\ e.cfg = origin.cfg
  BY Types DEF MigrationInv, Disks
<1>4. Kept(e, Gone(e))
  BY <1>2, <1>3, Types, FileKeeps, GoneType DEF MigrationInv
<1> HIDE DEF e
<1>5. TypeOK'
  BY <1>1, <1>3, Types, GoneType, TypeStep DEF MigrationInv
<1> QED BY <1>1, <1>4, <1>5, Frozen DEF MigrationInv

-----------------------------------------------------------------------------
(* Around the procedure.                                                   *)

\* Cura starts, or another printer becomes active: the legacy chains run.
LEMMA MigratingKeeps ==
    ASSUME MigrationInv, NEW c \in Processes, c.todo = {}, cura' = Migrating(c),
           UNCHANGED <<origin, disk, spent>>, c.prefs \in {disk.cfg, cura.prefs},
           c.session = "ok" => cura.session = "ok"
    PROVE  MigrationInv'
<1> DEFINE q == Imported(FlatMoved(c.prefs, c.active))
<1>1. c.prefs \in Prefs /\ Safe(disk, c.prefs) /\ Damaged(c.prefs)
  BY Types DEF MigrationInv, Kept
<1>2. q \in Prefs /\ Safe(disk, q) /\ Damaged(q)
  BY <1>1, LegacyChains, Types DEF MigrationInv, Processes
<1> HIDE DEF q
<1>3. /\ cura'.prefs \in {c.prefs, q} /\ cura'.at = "activate" /\ cura'.session = c.session
      /\ cura'.todo = {} /\ cura' \in Processes
  BY <1>1, <1>2 DEF Migrating, Processes, Steps, q
<1>4. Done(disk, cura')
  BY <1>3, DoneAtRest, StaysGrown DEF MigrationInv, BeforeWrites
<1>5. Kept(disk', cura')
  BY <1>1, <1>2, <1>3, <1>4 DEF MigrationInv, Kept
<1>6. TypeOK'
  BY <1>3, Types, TypeStep DEF MigrationInv
<1> QED BY <1>5, <1>6, Frozen DEF MigrationInv

LEMMA BootKeeps ==
    ASSUME NEW a \in Machines \cup {NoMachine} PROVE MigrationInv /\ Boot(a) => MigrationInv'
<1> SUFFICES ASSUME MigrationInv, Boot(a) PROVE MigrationInv'
  OBVIOUS
<1> DEFINE c == [at |-> "activate", prefs |-> disk.cfg, active |-> a, session |-> "none",
                 todo |-> {}]
<1>1. c \in Processes
  BY Types DEF MigrationInv, Processes, Steps, Records
<1>2. cura' = Migrating(c) /\ UNCHANGED <<origin, disk, spent>>
  BY DEF Boot
<1> QED BY <1>1, <1>2, MigratingKeeps

LEMMA SwitchKeeps ==
    ASSUME NEW m \in Machines PROVE MigrationInv /\ Switch(m) => MigrationInv'
<1> SUFFICES ASSUME MigrationInv, Switch(m) PROVE MigrationInv'
  OBVIOUS
<1> DEFINE c == [cura EXCEPT !.active = m]
<1>1. cura.at = "idle" /\ cura' = Migrating(c) /\ UNCHANGED <<origin, disk, spent>>
  BY DEF Switch, At
<1>2. c \in Processes /\ c.todo = {} /\ c.prefs = cura.prefs /\ c.session = cura.session
  BY <1>1, Types DEF MigrationInv, Processes
<1> HIDE DEF c
<1> QED BY <1>1, <1>2, MigratingKeeps

\* What the user sets is a copy, whatever it replaces.
LEMMA EditKeeps == MigrationInv /\ Edit => MigrationInv'
<1> SUFFICES ASSUME MigrationInv, Edit PROVE MigrationInv'
  OBVIOUS
<1>1. cura.at = "idle" /\ UNCHANGED <<origin, cura>> /\ spent' \in Spents
  BY Types, SpendType DEF MigrationInv, Edit, At
<1>2. origin.cfg.blob \subseteq Machines
  BY Types DEF MigrationInv, Prefs
<1> DEFINE Edited == /\ disk' \in Disks /\ Grows(disk, disk')
                     /\ disk'.cfg = disk.cfg /\ disk'.record = disk.record
                     /\ origin.cfg.bed => disk'.bed # "default"
<1>3. Edited
  <2> USE Types DEF MigrationInv, Disks, Copies, Kept
  <2>1. ASSUME NEW m \in Machines, disk' = [disk EXCEPT !.exists = TRUE, !.machines[m] = "live"]
        PROVE  Edited
    BY <1>2, <2>1 DEF Grows, Copied
  <2>2. CASE cura.active # NoMachine /\ disk' = [disk EXCEPT !.shards[cura.active] = "live"]
    BY <1>2, <2>2 DEF Grows, Copied, Processes
  <2>3. CASE disk' = [disk EXCEPT !.chrome = "live"]
    BY <2>3 DEF Grows, Copied
  <2>4. CASE disk' = [disk EXCEPT !.exists = TRUE, !.bed = "live"]
    BY <2>4 DEF Grows, Copied
  <2> QED BY <2>1, <2>2, <2>3, <2>4 DEF Edit
<1>4. Done(disk', cura)
  BY <1>1, <1>3, DoneAtRest DEF MigrationInv, BeforeWrites
<1>5. Kept(disk', cura')
  BY <1>1, <1>3, <1>4, KeptGrows DEF MigrationInv
<1>6. TypeOK'
  BY <1>1, <1>3, Types, TypeStep DEF MigrationInv
<1> QED BY <1>1, <1>5, <1>6, Frozen DEF MigrationInv

LEMMA ToastKeeps == MigrationInv /\ Toast => MigrationInv'
<1> SUFFICES ASSUME MigrationInv, Toast PROVE MigrationInv'
  OBVIOUS
<1> DEFINE e == [disk EXCEPT !.exists = TRUE, !.record = cura.session]
<1>1. /\ cura.at = "idle" /\ cura.todo = {} /\ cura.session \in Failures /\ origin' = origin
      /\ Writes(e, cura, cura)
  BY Types DEF MigrationInv, Toast, At
<1>2. /\ e \in Disks /\ e.cfg = disk.cfg /\ e.bed = disk.bed /\ e.chrome = disk.chrome
      /\ e.record = cura.session /\ e.machines = disk.machines /\ e.shards = disk.shards
      /\ e.oldChrome = disk.oldChrome /\ e.backup = disk.backup
  BY <1>1, Types DEF MigrationInv, Disks, Records
<1> HIDE DEF e
<1>3. Grows(disk, e)
  BY <1>2 DEF Grows, Copied
<1>4. cura.session # "ok"
  BY <1>1 DEF Failures
<1>5. Done(e, cura)
  BY <1>1, <1>2, <1>3, <1>4, DoneAtRest DEF MigrationInv, BeforeWrites
<1>6. cura' = cura /\ UNCHANGED disk /\ spent' \in Spents => MigrationInv'
  BY <1>1, Types, TypeStep, Frozen DEF MigrationInv
<1>7. origin.cfg.bed => e.bed # "default"
  BY <1>2 DEF MigrationInv, Kept
<1> QED BY <1>1, <1>2, <1>3, <1>5, <1>6, <1>7, Types, WriteKeeps DEF MigrationInv

-----------------------------------------------------------------------------
(* The theorems.                                                           *)

\* MigrationInv is inductive.
LEMMA NextKeeps == MigrationInv /\ [Next]_vars => MigrationInv'
<1> SUFFICES ASSUME MigrationInv, [Next]_vars PROVE MigrationInv'
  OBVIOUS
<1>1. CASE UNCHANGED vars
  <2>1. UNCHANGED <<origin, disk, cura, spent>>
    BY <1>1 DEF vars
  <2>2. TypeOK'
    BY <2>1, Types, TypeStep DEF MigrationInv, TypeOK, At, Migrants
  <2> QED BY <2>1, <2>2, Frozen DEF MigrationInv
<1>2. CASE Step
  BY <1>2, ActivateKeeps, DecideKeeps, CarryKeeps, SweepKeeps, BackupKeeps, GlobalKeeps,
     RecoverKeeps, ShardKeeps, SettingsKeeps, VerifyKeeps, CommitKeeps, FlushKeeps DEF Step
<1>3. CASE Edit \/ Toast \/ Save \/ Exit \/ Crash \/ Restore
  BY <1>3, EditKeeps, ToastKeeps, SaveKeeps, ExitKeeps, CrashKeeps, RestoreKeeps
<1>4. CASE \E a \in Machines \cup {NoMachine} : Boot(a)
  BY <1>4, BootKeeps
<1>5. CASE \E m \in Machines : Switch(m)
  BY <1>5, SwitchKeeps
<1> QED BY <1>1, <1>2, <1>3, <1>4, <1>5 DEF Next

LEMMA MigrationInvariant == Spec => []MigrationInv
BY InitialInv, NextKeeps, PTL DEF Spec

\* Every field keeps its type, and printers are left to write only while the attempt
\* that writes them goes on.
THEOREM MigrationTypeCorrect == Spec => []TypeOK
<1>1. MigrationInv => TypeOK
  BY DEF MigrationInv
<1> QED BY <1>1, MigrationInvariant, PTL

\* Whatever install it starts from, and wherever a crash, a failing write or a restored
\* file interrupts it, the migration loses nothing the user had.
THEOREM NothingIsEverLost == Spec => []NothingIsLost
<1>1. MigrationInv => NothingIsLost
  BY DEF MigrationInv, Kept, Safe, Copied, NothingIsLost
<1> QED BY <1>1, MigrationInvariant, PTL

-----------------------------------------------------------------------------
(* No step takes back what the user has set since.                         *)

Overrides(d, e) ==
    /\ \A m \in Machines : /\ d.machines[m] = "live" => e.machines[m] = "live"
                           /\ d.shards[m] = "live" => e.shards[m] = "live"
    /\ d.chrome = "live" => e.chrome = "live"
    /\ d.bed = "live" => e.bed = "live"

LEMMA StepOverrides == TypeOK /\ Step => Overrides(disk, disk')
<1> SUFFICES ASSUME TypeOK, Step PROVE Overrides(disk, disk')
  OBVIOUS
<1>1. disk \in Disks /\ disk.machines \in [Machines -> Copies] /\ disk.shards \in [Machines -> Copies]
  BY Types DEF Disks
<1>2. CASE Activate \/ Decide \/ Sweep \/ Backup \/ Recover \/ Verify \/ Commit \/ Flush
  <2>1. /\ disk'.machines = disk.machines /\ disk'.shards = disk.shards
        /\ disk'.chrome = disk.chrome /\ disk'.bed = disk.bed
    BY <1>1, <1>2 DEF Activate, Decide, Sweep, Backup, Recover, Verify, Commit, Flush, Writes,
                      Saved, Disks
  <2> QED BY <2>1 DEF Overrides
<1>3. CASE Carry
  BY <1>1, <1>3 DEF Carry, Writes, Overrides, Disks
<1>4. CASE Global
  BY <1>1, <1>4 DEF Global, Writes, Overrides, Disks, Filled
<1>5. ASSUME NEW m \in Machines, Shard(m) PROVE Overrides(disk, disk')
  <2>1. disk'.machines = disk.machines /\ disk'.chrome = disk.chrome /\ disk'.bed = disk.bed
    BY <1>1, <1>5 DEF Shard, Writes, Disks
  <2>2. disk'.shards \in {disk.shards, [disk.shards EXCEPT ![m] = Filled(@)]}
    BY <1>1, <1>5 DEF Shard, Writes, Disks
  <2>3. \A k \in Machines : disk.shards[k] = "live" => disk'.shards[k] = "live"
    BY <1>1, <2>2 DEF Filled
  <2> QED BY <2>1, <2>3 DEF Overrides
<1>6. CASE Settings
  <2>1. disk'.shards = disk.shards /\ disk'.chrome = disk.chrome /\ disk'.bed = disk.bed
    BY <1>1, <1>6 DEF Settings, Writes, Disks
  <2>2. disk'.machines \in {disk.machines, [m \in Machines |-> IF m \in Migrants
                                THEN Filled(disk.machines[m]) ELSE disk.machines[m]]}
    BY <1>1, <1>6 DEF Settings, Writes, Disks
  <2>3. \A k \in Machines : disk.machines[k] = "live" => disk'.machines[k] = "live"
    BY <1>1, <2>2 DEF Filled
  <2> QED BY <2>1, <2>3 DEF Overrides
<1> QED BY <1>2, <1>3, <1>4, <1>5, <1>6 DEF Step

LEMMA NextOverrides == TypeOK /\ [Next]_vars => Overrides(disk, disk')
<1> SUFFICES ASSUME TypeOK, [Next]_vars PROVE Overrides(disk, disk')
  OBVIOUS
<1>1. disk \in Disks /\ disk.machines \in [Machines -> Copies] /\ disk.shards \in [Machines -> Copies]
  BY Types DEF Disks
<1>2. CASE Edit
  <2>1. ASSUME NEW m \in Machines, disk' = [disk EXCEPT !.exists = TRUE, !.machines[m] = "live"]
        PROVE  Overrides(disk, disk')
    BY <1>1, <2>1 DEF Overrides, Disks
  <2>2. ASSUME NEW m, disk' = [disk EXCEPT !.shards[m] = "live"] PROVE Overrides(disk, disk')
    BY <1>1, <2>2 DEF Overrides, Disks
  <2>3. CASE disk' = [disk EXCEPT !.chrome = "live"]
    BY <1>1, <2>3 DEF Overrides, Disks
  <2>4. CASE disk' = [disk EXCEPT !.exists = TRUE, !.bed = "live"]
    BY <1>1, <2>4 DEF Overrides, Disks
  <2> QED BY <1>2, <2>1, <2>2, <2>3, <2>4 DEF Edit
<1>3. CASE Toast \/ Save \/ Exit \/ Crash \/ Restore
  BY <1>1, <1>3 DEF Toast, Save, Exit, Crash, Restore, Writes, Saved, Overrides, Disks
<1>4. CASE \/ \E a \in Machines \cup {NoMachine} : Boot(a)
           \/ \E m \in Machines : Switch(m)
  BY <1>4 DEF Boot, Switch, Overrides
<1>5. CASE UNCHANGED vars
  BY <1>5 DEF vars, Overrides
<1> QED BY <1>2, <1>3, <1>4, <1>5, StepOverrides DEF Next

\* A migration that runs again never rolls back what the user has set in the documents.
THEOREM LiveStateAlwaysWins == Spec => LiveStateWins
<1>1. TypeOK /\ [Next]_vars
      => [/\ \A m \in Machines : /\ disk.machines[m] = "live" => disk'.machines[m] = "live"
                                 /\ disk.shards[m] = "live" => disk'.shards[m] = "live"
          /\ disk.chrome = "live" => disk'.chrome = "live"
          /\ disk.bed = "live" => disk'.bed = "live"]_vars
  BY NextOverrides DEF Overrides
<1> QED BY <1>1, MigrationTypeCorrect, PTL DEF Spec, LiveStateWins
===============================================================================
