-------------------------- MODULE LocalDetection_proofs --------------------------
(***************************************************************************)
(* Theorems about LocalDetection, for every number of presses, frames and  *)
(* upsets: the type invariant, and that a removal is done or remembered.   *)
(*                                                                         *)
(* Beside the types the inductive invariant says how the threads date what *)
(* they tell each other (Dated), what a removal has already done at each   *)
(* of its places (Cleared), that a setup keeps the window busy and so      *)
(* keeps every other job out (SettingUp), and what must not be on its way  *)
(* once everything was removed (Gone).                                     *)
(***************************************************************************)
EXTENDS LocalDetection, SequenceTheorems, TLAPS

-----------------------------------------------------------------------------
(* The inductive invariant.                                                *)

\* Of the messages m: none is younger than n; the results of frames are older than n;
\* one ends the wait of a job no older than k.
Within(m, n)  == \A i \in 1 .. Len(m) : m[i].generation <= n
Stale(m, n)   == \A i \in 1 .. Len(m) : m[i].says = "result" => m[i].generation < n
Answers(m, k) == \E i \in 1 .. Len(m) : m[i].done /\ m[i].generation >= k

\* The user had everything removed, and none of the exceptions has happened since.
Asked      == ghost.asked /\ ~ghost.crossed /\ ~ghost.overtaken
Installing == {"install", "consent", "consenting", "fetch", "bench", "benched",
               "marking", "marked", "unmarking", "undo", "leftover"}
\* A setup is requested or under way.
Setting    == shared.setup \/ worker.pc \in Installing

\* Memory and disk agree, and nothing carries a generation that is still to come.
Dated ==
    /\ record = disk.record
    /\ shared.removal <= shared.generation /\ shared.sample <= shared.generation
    /\ worker.gen <= shared.generation /\ 1 <= shared.generation
    /\ Within(mailbox, shared.generation)
    /\ shared.closed => saving.slot = "none"
\* What a removal has done when the worker is at one of its places.
Cleared ==
    /\ worker.pc \in {"entombing", "clear", "unlink", "forget"} => ~worker.model
    /\ worker.pc \in {"unrequest", "resume"} => ~worker.model \/ shared.closed
    /\ worker.pc = "forget" => disk.assets = {} /\ ~disk.evidence
    /\ worker.pc = "condemned" => record.cleanup \/ ghost.crossed \/ ghost.overtaken
\* A setup holds the window busy until its own end is heard, so no removal is accepted
\* next to it and no second setup.
SettingUp ==
    ~ghost.crossed /\ ~ghost.overtaken =>
        /\ Setting /\ ~shared.closed => gui.busy /\ ~Answers(mailbox, 0)
        /\ Setting => saving.slot # "remove"
        /\ worker.pc \in Installing => ~shared.setup
        /\ shared.setup => /\ worker.pc \notin Installing \cup Removing \cup {"condemned"}
                           /\ ~shared.removing /\ ~record.cleanup
\* After the tombstone nothing is on its way that would write again: no setup, no frame
\* whose evidence would be kept, and a model that is still loaded has the removal before it.
Gone ==
    Asked =>
        /\ ~Setting /\ ~record.version /\ ~shared.io
        /\ record.cleanup \/ (disk.assets = {} /\ ~disk.evidence)
        /\ Stale(mailbox, shared.generation)
        /\ worker.pc = "detect" \/ (worker.pc = "infer" /\ worker.model) => worker.gen < shared.generation
        /\ ~shared.closed /\ (worker.model \/ worker.pc \in {"verify", "load"}) =>
              /\ record.cleanup
              /\ \/ worker.pc \in {"condemned", "remove"}
                 \/ shared.removing /\ ~Answers(mailbox, shared.removal)
IInv == Dated /\ Cleared /\ SettingUp /\ Gone

-----------------------------------------------------------------------------
(* Types.                                                                  *)

Spent  == [acts : 0..MaxActs, frames : 0..MaxFrames, upsets : 0..MaxUpsets]

Shared == [generation : Nat, removal : Nat, cancel : BOOLEAN, closed : BOOLEAN,
           removing : BOOLEAN, setup : BOOLEAN, load : BOOLEAN, release : BOOLEAN,
           io : BOOLEAN, sample : Nat]

LEMMA RetiredType == ASSUME NEW s \in Shared PROVE Retired(s) \in Shared
<1>1. s.generation + 1 \in Nat /\ Nobody \in Nat
  BY DEF Shared, Nobody
<1>2. \A a, b \in Nat : [s EXCEPT !.generation = a, !.sample = b] \in Shared
  BY DEF Shared
<1>3. QED
  BY <1>1, <1>2 DEF Retired
LEMMA SharedType == ASSUME TypeOK PROVE shared \in Shared
BY DEF TypeOK, Shared

LEMMA SentType ==
    ASSUME TypeOK, NEW g \in Nat, NEW s \in Says, NEW d \in BOOLEAN, Sends(g, s, d)
    PROVE  /\ mailbox' \in Seq(Updates) /\ Len(mailbox') = Len(mailbox) + 1
           /\ \A i \in 1 .. Len(mailbox) : mailbox'[i] = mailbox[i]
           /\ mailbox'[Len(mailbox) + 1] = [generation |-> g, says |-> s, done |-> d]
<1>1. [generation |-> g, says |-> s, done |-> d] \in Updates
  BY DEF Updates
<1>2. QED
  BY <1>1 DEF TypeOK, Sends

LEMMA TailType ==
    ASSUME TypeOK, mailbox # <<>>, mailbox' = Tail(mailbox)
    PROVE  /\ mailbox' \in Seq(Updates) /\ Len(mailbox') = Len(mailbox) - 1
           /\ Len(mailbox) \in Nat /\ Len(mailbox) > 0
           /\ \A i \in 1 .. Len(mailbox') : mailbox'[i] = mailbox[i + 1]
           /\ Head(mailbox) = mailbox[1] /\ Head(mailbox) \in Updates
BY DEF TypeOK

LEMMA PersistedType ==
    ASSUME TypeOK, NEW base, NEW merged \in Records, Persisted(base, merged)
    PROVE  /\ record' = merged /\ disk'.record = merged
           /\ disk'.assets = disk.assets /\ disk'.evidence = disk.evidence
           /\ record' \in Records
           /\ disk' \in [record : Records, assets : SUBSET (Whole \cup {"torn"}), evidence : BOOLEAN]
           /\ ghost' \in [missed : BOOLEAN, mute : BOOLEAN, overtaken : BOOLEAN,
                          crossed : BOOLEAN, asked : BOOLEAN]
           /\ ghost' = [ghost EXCEPT !.overtaken = ghost.overtaken \/ base # record]
BY DEF TypeOK, Persisted

LEMMA PressType == ASSUME TypeOK, DetectionBounds, Press
                   PROVE  spent' \in Spent
BY DEF TypeOK, DetectionBounds, Press, Spent
LEMMA UpsetType == ASSUME TypeOK, DetectionBounds, Upset
                   PROVE  spent' \in Spent
BY DEF TypeOK, DetectionBounds, Upset, Spent
LEMMA NoUpsetType == ASSUME TypeOK, NoUpset
                   PROVE  spent' \in Spent
BY DEF TypeOK, NoUpset, Spent

LEMMA SetUpType == ASSUME TypeOK, DetectionBounds, SetUp PROVE TypeOK'
BY PressType DEF Spent, TypeOK, SetUp, Gui
LEMMA CancelType == ASSUME TypeOK, DetectionBounds, Cancel PROVE TypeOK'
BY PressType DEF Spent, TypeOK, Cancel, Gui, Nobody
LEMMA SavesType == ASSUME TypeOK, DetectionBounds, Saves PROVE TypeOK'
BY PressType DEF Spent, TypeOK, Saves, Gui, Slots
LEMMA SaveFailsType == ASSUME TypeOK, DetectionBounds, SaveFails PROVE TypeOK'
BY UpsetType DEF Spent, TypeOK, SaveFails, Slots
LEMMA EnablesType ==
    ASSUME TypeOK, DetectionBounds, NEW enabled \in BOOLEAN, Enables(enabled) PROVE TypeOK'
<1>1. [saving.base EXCEPT !.enabled = enabled] \in Records
  BY DEF TypeOK, Records
<1>2. Switched(shared, enabled) \in Shared
  BY RetiredType, SharedType DEF Switched, Shared
<1>3. gui' \in [ready : BOOLEAN, busy : BOOLEAN, checking : BOOLEAN]
  BY DEF TypeOK, Enables
<1>4. saving' \in [slot : Slots, base : Records]
  BY DEF TypeOK, Enables, Slots
<1>5. Persisted(saving.base, [saving.base EXCEPT !.enabled = enabled]) /\ NoUpset
      /\ shared' = Switched(shared, enabled) /\ UNCHANGED <<mailbox, worker>>
  BY DEF Enables
<1>6. record' \in Records /\ ghost' \in [missed : BOOLEAN, mute : BOOLEAN, overtaken : BOOLEAN,
                          crossed : BOOLEAN, asked : BOOLEAN]
      /\ disk' \in [record : Records, assets : SUBSET (Whole \cup {"torn"}), evidence : BOOLEAN]
  BY <1>1, <1>5, PersistedType
<1>7. QED
  BY <1>2, <1>3, <1>4, <1>5, <1>6, NoUpsetType DEF Spent, TypeOK, Shared
LEMMA TombstoneType == ASSUME NEW r \in Records PROVE Tombstone(r) \in Records
BY DEF Tombstone, Records
LEMMA RemovesAssetsType == ASSUME TypeOK, DetectionBounds, RemovesAssets PROVE TypeOK'
<1>1. Tombstone(saving.base) \in Records
  BY TombstoneType DEF TypeOK
<1>2. Removal(shared) \in Shared
  <2>1. Retired(shared) \in Shared /\ shared.generation + 1 \in Nat
    BY RetiredType, SharedType DEF Shared
  <2>2. \A s \in Shared, a \in Nat :
           [s EXCEPT !.removal = a, !.cancel = FALSE, !.removing = TRUE, !.io = FALSE] \in Shared
    BY DEF Shared
  <2>3. QED
    BY <2>1, <2>2 DEF Removal
<1>3. saving' \in [slot : Slots, base : Records]
  BY DEF TypeOK, RemovesAssets, Slots
<1>4. disk' \in [record : Records, assets : SUBSET (Whole \cup {"torn"}), evidence : BOOLEAN]
  BY <1>1 DEF TypeOK, RemovesAssets
<1>5. ghost' \in [missed : BOOLEAN, mute : BOOLEAN, overtaken : BOOLEAN, crossed : BOOLEAN, asked : BOOLEAN]
  BY DEF TypeOK, RemovesAssets
<1>6. shared' = Removal(shared) /\ record' = Tombstone(saving.base) /\ NoUpset
      /\ gui' = [ready |-> FALSE, busy |-> TRUE, checking |-> FALSE] /\ UNCHANGED <<mailbox, worker>>
  BY DEF RemovesAssets
<1>7. QED
  BY <1>1, <1>2, <1>3, <1>4, <1>5, <1>6, NoUpsetType DEF Spent, TypeOK, Shared
LEMMA OffersType == ASSUME TypeOK, DetectionBounds, Offers PROVE TypeOK'
<1>1. saving.base \in Records
  BY DEF TypeOK
<1>2. Persisted(saving.base, saving.base) /\ NoUpset /\ UNCHANGED <<gui, shared, mailbox, worker>>
  BY DEF Offers
<1>3. saving' \in [slot : Slots, base : Records]
  BY DEF TypeOK, Offers, Slots
<1>4. record' \in Records /\ ghost' \in [missed : BOOLEAN, mute : BOOLEAN, overtaken : BOOLEAN,
                          crossed : BOOLEAN, asked : BOOLEAN]
      /\ disk' \in [record : Records, assets : SUBSET (Whole \cup {"torn"}), evidence : BOOLEAN]
  BY <1>1, <1>2, PersistedType
<1>5. QED
  BY <1>2, <1>3, <1>4, NoUpsetType DEF Spent, TypeOK
LEMMA SampleType == ASSUME TypeOK, DetectionBounds, Sample PROVE TypeOK'
<1>1. shared' \in Shared
  BY SharedType DEF Sample, Shared
<1>2. spent' \in Spent
  <2>1. spent.frames + 1 \in 0 .. MaxFrames
    BY DEF TypeOK, DetectionBounds, Sample
  <2>2. spent' = [spent EXCEPT !.frames = spent.frames + 1]
    BY DEF Sample
  <2>3. QED
    BY <2>1, <2>2 DEF TypeOK, Spent
<1>3. QED
  BY <1>1, <1>2 DEF Spent, TypeOK, Sample, Shared
LEMMA ResetType == ASSUME TypeOK, DetectionBounds, Reset PROVE TypeOK'
<1>1. shared' \in Shared
  BY SharedType, RetiredType DEF Reset
<1>2. QED
  BY <1>1, UpsetType DEF Spent, TypeOK, Reset, Shared
LEMMA CloseType == ASSUME TypeOK, DetectionBounds, Close PROVE TypeOK'
<1>1. shared' \in Shared
  <2>1. Retired(shared) \in Shared
    BY SharedType, RetiredType
  <2>2. QED
    BY <2>1 DEF Close, Shared
<1>2. QED
  BY <1>1, PressType DEF Spent, TypeOK, Close, Shared
Views == [ready : BOOLEAN, busy : BOOLEAN, checking : BOOLEAN, removing : BOOLEAN,
          io : BOOLEAN, missed : BOOLEAN]
View == [ready |-> gui.ready, busy |-> gui.busy, checking |-> gui.checking,
         removing |-> shared.removing, io |-> shared.io, missed |-> ghost.missed]
LEMMA ToldType ==
    ASSUME TypeOK, NEW v \in Views, NEW u \in Updates PROVE Told(v, u) \in Views
<1>1. \A a, b, c, d, f \in BOOLEAN :
         [v EXCEPT !.ready = a, !.busy = b, !.checking = c, !.removing = d, !.missed = f] \in Views
  BY DEF Views
<1>2. v.busy \in BOOLEAN /\ v.checking \in BOOLEAN /\ v.removing \in BOOLEAN /\ v.missed \in BOOLEAN
      /\ u.done \in BOOLEAN
  BY DEF Views, Updates
<1>3. QED
  BY <1>1, <1>2 DEF Told
LEMMA HearsType ==
    ASSUME TypeOK, NEW v \in Views, NEW u \in Updates PROVE Hears(v, u) \in Views
BY ToldType DEF Views, Hears
LEMMA DrainType == ASSUME TypeOK, DetectionBounds, Drain PROVE TypeOK'
<1>1. View \in Views
  BY DEF TypeOK, View, Views
<1>2. Hears(View, Head(mailbox)) \in Views
  BY <1>1, HearsType, TailType DEF Drain
<1>3. mailbox' \in Seq(Updates)
  BY TailType DEF Drain
<1>4. QED
  BY <1>2, <1>3 DEF TypeOK, Drain, View, Views, Slots

Worker == [pc : Places, gen : Nat, base : Records, model : BOOLEAN, verified : BOOLEAN,
           startup : {"first", "load", "no"}]
Disk   == [record : Records, assets : SUBSET (Whole \cup {"torn"}), evidence : BOOLEAN]
Ghost  == [missed : BOOLEAN, mute : BOOLEAN, overtaken : BOOLEAN, crossed : BOOLEAN, asked : BOOLEAN]

LEMMA Typing == TypeOK <=>
    /\ record \in Records /\ disk \in Disk /\ shared \in Shared /\ mailbox \in Seq(Updates)
    /\ gui \in [ready : BOOLEAN, busy : BOOLEAN, checking : BOOLEAN]
    /\ saving \in [slot : Slots, base : Records] /\ worker \in Worker /\ ghost \in Ghost
    /\ spent \in Spent
BY DEF TypeOK, Disk, Shared, Worker, Ghost, Spent

LEMMA WorkerType ==
    ASSUME NEW w \in Worker
    PROVE  /\ \A p \in Places : [w EXCEPT !.pc = p] \in Worker
           /\ \A p \in Places, g \in Nat : [w EXCEPT !.pc = p, !.gen = g] \in Worker
           /\ \A p \in Places, g \in Nat : [w EXCEPT !.gen = g, !.pc = p] \in Worker
           /\ \A p \in Places, b \in BOOLEAN : [w EXCEPT !.pc = p, !.model = b] \in Worker
           /\ \A p \in Places, r \in Records : [w EXCEPT !.pc = p, !.base = r] \in Worker
           /\ \A p \in Places, r \in Records : [w EXCEPT !.base = r, !.pc = p] \in Worker
           /\ \A p \in Places, r \in Records, b \in BOOLEAN :
                 /\ [w EXCEPT !.pc = p, !.base = r, !.model = b] \in Worker
                 /\ [w EXCEPT !.pc = p, !.model = b, !.base = r] \in Worker
           /\ \A g \in Nat : [w EXCEPT !.gen = g] \in Worker
           /\ \A g \in Nat, b \in BOOLEAN : [w EXCEPT !.gen = g, !.verified = b] \in Worker
           /\ \A p \in Places : /\ [w EXCEPT !.pc = p, !.startup = "load"] \in Worker
                                /\ [w EXCEPT !.pc = p, !.startup = "no"] \in Worker
BY DEF Worker
LEMMA PlaceNames ==
     /\ "start" \in Places /\ "idle" \in Places /\ "gone" \in Places /\ "infer" \in Places
           /\ "remove" \in Places /\ "install" \in Places /\ "absorb" \in Places
           /\ "detect" \in Places /\ "unrequest" \in Places /\ "resume" \in Places
           /\ "forget" \in Places /\ "consent" \in Places /\ "bench" \in Places
           /\ "benched" \in Places /\ "leftover" \in Places /\ Nobody \in Nat
BY DEF Places, Nobody
LEMMA GoesType ==
    ASSUME TypeOK, NEW p \in Places
    PROVE  (Goes(p) => worker' \in Worker) /\ (Unloads(p) => worker' \in Worker)
<1>1. worker \in Worker
  BY Typing
<1>2. [worker EXCEPT !.pc = p] \in Worker /\ [worker EXCEPT !.pc = p, !.model = FALSE] \in Worker
  BY <1>1, WorkerType
<1>3. QED
  BY <1>2 DEF Goes, Unloads
LEMMA SharedChange ==
    ASSUME NEW s \in Shared
    PROVE  /\ \A g \in Nat : [s EXCEPT !.removal = g] \in Shared /\ [s EXCEPT !.sample = g] \in Shared
           /\ \A b \in BOOLEAN :
                 /\ [s EXCEPT !.setup = b] \in Shared /\ [s EXCEPT !.release = b] \in Shared
                 /\ [s EXCEPT !.io = b] \in Shared /\ [s EXCEPT !.removing = b] \in Shared
           /\ \A b, c \in BOOLEAN : [s EXCEPT !.load = b, !.cancel = c] \in Shared
           /\ \A b \in BOOLEAN, g \in Nat : [s EXCEPT !.setup = b, !.sample = g] \in Shared
           /\ \A b, c \in BOOLEAN : [s EXCEPT !.removing = b, !.io = c] \in Shared
BY DEF Shared
LEMMA DiskChange ==
    ASSUME NEW d \in Disk
    PROVE  /\ \A b \in BOOLEAN : [d EXCEPT !.evidence = b] \in Disk
           /\ \A a \in SUBSET (Whole \cup {"torn"}) : [d EXCEPT !.assets = a] \in Disk
BY DEF Disk
LEMMA GhostChange ==
    ASSUME NEW g \in Ghost, NEW b \in BOOLEAN
    PROVE  /\ [g EXCEPT !.mute = b] \in Ghost /\ [g EXCEPT !.crossed = b] \in Ghost
           /\ [g EXCEPT !.missed = b] \in Ghost /\ [g EXCEPT !.overtaken = b] \in Ghost
BY DEF Ghost
LEMMA Fields ==
    ASSUME TypeOK
    PROVE  /\ shared.generation \in Nat /\ shared.removal \in Nat /\ shared.sample \in Nat
           /\ worker.gen \in Nat /\ worker.pc \in Places
BY DEF TypeOK

LEMMA Answered ==
    ASSUME TypeOK, NEW g \in Nat, NEW s \in Says, NEW d \in BOOLEAN, Sends(g, s, d)
    PROVE  mailbox' \in Seq(Updates)
BY SentType
LEMMA AloneType ==
    ASSUME TypeOK, Alone, worker' \in Worker, mailbox' \in Seq(Updates), spent' \in Spent PROVE TypeOK'
BY Typing DEF Alone, TypeOK, Worker, Spent
LEMMA StartsUpType == ASSUME TypeOK, DetectionBounds, StartsUp PROVE TypeOK'
<1>1. worker' \in Worker
  <2>1. (IF record.cleanup THEN "condemned" ELSE "checks") \in Places
    BY DEF Places
  <2>2. QED
    BY <2>1, Fields, Typing, WorkerType DEF StartsUp
<1>2. ghost' \in Ghost
  BY Typing, GhostChange DEF StartsUp
<1>3. QED
  BY <1>1, <1>2, Typing DEF StartsUp, TypeOK, Worker, Ghost
LEMMA CondemnedType == ASSUME TypeOK, DetectionBounds, Condemned PROVE TypeOK'
<1>1. worker' \in Worker
  BY Typing, Fields, WorkerType DEF Condemned, Goes, Places
<1>2. shared' \in Shared
  BY Typing, Fields, SharedChange DEF Condemned
<1>3. QED
  BY <1>1, <1>2, Typing DEF Condemned, TypeOK, Worker, Ghost, Disk, Shared, Spent
LEMMA ChecksType == ASSUME TypeOK, DetectionBounds, Checks PROVE TypeOK'
<1>1. worker' \in Worker
  BY Typing, Fields, WorkerType DEF Checks, Goes, Places
<1>2. (record.version /\ record.enabled /\ (shared.closed \/ shared.cancel)) \in BOOLEAN
  OBVIOUS
<1>3. ghost' \in Ghost
  BY <1>2, Typing, GhostChange DEF Checks
<1>4. mailbox' \in Seq(Updates)
  BY Answered, Fields, Typing DEF Checks, Says
<1>5. QED
  BY <1>1, <1>2, <1>3, <1>4, Typing DEF Checks, TypeOK, Worker, Ghost, Disk, Shared, Spent
LEMMA VerifiesType == ASSUME TypeOK, DetectionBounds, Verifies PROVE TypeOK'
<1>1. Alone
  BY DEF Verifies
<1>2. worker' \in Worker /\ mailbox' \in Seq(Updates)
  BY Typing, Fields, WorkerType DEF Verifies, Goes, Places
<1>3. spent' \in Spent
  BY Typing DEF Verifies, Spent
<1>4. QED
  BY <1>1, <1>2, <1>3, AloneType, Typing
LEMMA LoadsType == ASSUME TypeOK, DetectionBounds, Loads PROVE TypeOK'
<1>1. Alone
  BY DEF Loads
<1>2. worker' \in Worker /\ mailbox' \in Seq(Updates)
  BY Typing, Fields, WorkerType DEF Loads, Places
<1>3. spent' \in Spent
  BY Typing DEF Loads, Spent
<1>4. QED
  BY <1>1, <1>2, <1>3, AloneType, Typing
LEMMA LoadedType == ASSUME TypeOK, DetectionBounds, Loaded PROVE TypeOK'
<1>1. Alone
  BY DEF Loaded
<1>2. worker' \in Worker
  BY Typing, Fields, PlaceNames, WorkerType, GoesType DEF Loaded
<1>3. mailbox' \in Seq(Updates)
  BY Answered, Fields, Typing DEF Loaded, Says
<1>4. spent' \in Spent
  BY Typing DEF Loaded, Spent
<1>5. QED
  BY <1>1, <1>2, <1>3, <1>4, AloneType, Typing
LEMMA StartupFailsType == ASSUME TypeOK, DetectionBounds, StartupFails PROVE TypeOK'
<1>1. Alone
  BY DEF StartupFails
<1>2. worker' \in Worker
  BY Typing, Fields, WorkerType DEF StartupFails, Unloads, Places
<1>3. mailbox' \in Seq(Updates)
  BY Answered, Fields, Typing DEF StartupFails, Says
<1>4. spent' \in Spent
  BY UpsetType, NoUpsetType DEF StartupFails
<1>5. QED
  BY <1>1, <1>2, <1>3, <1>4, AloneType, Typing
LEMMA AbsorbsType == ASSUME TypeOK, DetectionBounds, Absorbs PROVE TypeOK'
<1>1. worker' \in Worker
  BY Typing, Fields, WorkerType DEF Absorbs, Goes, Places
<1>2. mailbox' \in Seq(Updates)
  BY Answered, Fields, Typing DEF Absorbs, Says
<1>3. shared' \in Shared
  BY Typing, SharedChange DEF Absorbs
<1>4. QED
  BY <1>1, <1>2, <1>3, Typing DEF Absorbs, TypeOK, Worker, Ghost, Disk, Shared, Spent
LEMMA InfersType == ASSUME TypeOK, DetectionBounds, Infers PROVE TypeOK'
<1>1. Alone
  BY DEF Infers
<1>2. worker' \in Worker /\ mailbox' \in Seq(Updates)
  BY Typing, Fields, PlaceNames, WorkerType, GoesType DEF Infers
<1>3. spent' \in Spent
  BY Typing DEF Infers, Spent
<1>4. QED
  BY <1>1, <1>2, <1>3, AloneType, Typing
LEMMA DetectsType == ASSUME TypeOK, DetectionBounds, Detects PROVE TypeOK'
<1>1. Alone
  BY DEF Detects
<1>2. worker' \in Worker
  BY Typing, Fields, WorkerType DEF Detects, Goes, Places
<1>3. mailbox' \in Seq(Updates)
  BY Answered, Fields, Typing DEF Detects, Says
<1>4. spent' \in Spent
  BY Typing DEF Detects, Spent
<1>5. QED
  BY <1>1, <1>2, <1>3, <1>4, AloneType, Typing
LEMMA InferenceFailsType == ASSUME TypeOK, DetectionBounds, InferenceFails PROVE TypeOK'
<1>1. worker' \in Worker
  BY Typing, Fields, PlaceNames, WorkerType, GoesType DEF InferenceFails
<1>2. mailbox' \in Seq(Updates)
  BY Answered, Fields, Typing DEF InferenceFails, Says
<1>3. shared' \in Shared
  BY Typing, PlaceNames, SharedChange DEF InferenceFails
<1>4. spent' \in Spent
  BY UpsetType, NoUpsetType DEF InferenceFails
<1>5. QED
  BY <1>1, <1>2, <1>3, <1>4, Typing DEF InferenceFails, TypeOK, Worker, Ghost, Disk, Shared, Spent
LEMMA FinishesType == ASSUME TypeOK, NEW w \in Worker, Finishes(w) PROVE worker' \in Worker /\ mailbox' \in Seq(Updates)
<1>1. w.gen \in Nat
  BY DEF Worker
<1>2. worker' \in Worker
  <2>1. (IF w.startup = "no" THEN "unrequest" ELSE "resume") \in Places
    BY PlaceNames
  <2>2. QED
    BY <2>1, WorkerType, Typing DEF Finishes
<1>3. QED
  BY <1>1, <1>2, Answered DEF Finishes, Says
LEMMA RemovesType == ASSUME TypeOK, DetectionBounds, Removes PROVE TypeOK'
<1>1. Alone
  BY DEF Removes
<1>2. [worker EXCEPT !.gen = shared.removal] \in Worker
  BY Typing, Fields, WorkerType
<1>3. [[worker EXCEPT !.gen = shared.removal] EXCEPT !.pc = "entombing", !.base = record, !.model = FALSE] \in Worker
  BY <1>2, Typing, WorkerType DEF Places
<1>4. worker' \in Worker /\ mailbox' \in Seq(Updates)
  BY <1>2, <1>3, Typing, FinishesType DEF Removes
<1>5. spent' \in Spent
  BY Typing DEF Removes, Spent
<1>6. QED
  BY <1>1, <1>2, <1>3, <1>4, <1>5, AloneType, Typing
LEMMA EntombsType == ASSUME TypeOK, DetectionBounds, Entombs PROVE TypeOK'
<1>1. worker' \in Worker
  BY Typing, Fields, WorkerType DEF Entombs, Goes, Places
<1>2. Tombstone(worker.base) \in Records
  BY Typing, TombstoneType DEF Worker
<1>3. ghost' \in Ghost /\ disk' \in Disk /\ record' \in Records
  BY <1>2, PersistedType DEF Entombs, Ghost, Disk
<1>4. spent' \in Spent
  BY NoUpsetType DEF Entombs
<1>5. QED
  BY <1>1, <1>2, <1>3, <1>4, Typing DEF Entombs, TypeOK, Worker, Ghost, Disk, Shared, Spent
LEMMA ClearsType == ASSUME TypeOK, DetectionBounds, Clears PROVE TypeOK'
<1>1. worker' \in Worker
  BY Typing, Fields, WorkerType DEF Clears, Goes, Places
<1>2. disk' \in Disk
  BY Typing, DiskChange DEF Clears
<1>3. spent' \in Spent
  BY NoUpsetType DEF Clears
<1>4. QED
  <2>1. UNCHANGED <<record, gui, shared, mailbox, saving, ghost>>
    BY DEF Clears
  <2>2. QED
    BY <1>1, <1>2, <1>3, <2>1 DEF TypeOK, Worker, Spent, Disk
LEMMA UnlinksType == ASSUME TypeOK, DetectionBounds, Unlinks PROVE TypeOK'
<1>1. worker' \in Worker
  <2>1. worker \in Worker /\ record \in Records
    BY Typing
  <2>2. [worker EXCEPT !.base = record, !.pc = "forget"] \in Worker
    BY <2>1, PlaceNames, WorkerType
  <2>3. QED
    BY <2>1, <2>2 DEF Unlinks
<1>2. disk.assets \ Next3(disk.assets) \in SUBSET (Whole \cup {"torn"})
  BY Typing DEF Disk
<1>3. disk' \in Disk
  BY <1>2, Typing, DiskChange DEF Unlinks
<1>4. spent' \in Spent
  BY NoUpsetType DEF Unlinks
<1>5. QED
  BY <1>1, <1>2, <1>3, <1>4, Typing DEF Unlinks, TypeOK, Worker, Ghost, Disk, Shared, Spent
LEMMA ForgetsType == ASSUME TypeOK, DetectionBounds, Forgets PROVE TypeOK'
<1>1. worker.base \in Records /\ [worker.base EXCEPT !.cleanup = FALSE, !.version = FALSE] \in Records
  BY Typing DEF Worker, Records
<1>2. ghost' \in Ghost /\ disk' \in Disk /\ record' \in Records
  BY <1>1, PersistedType DEF Forgets, Ghost, Disk
<1>3. worker' \in Worker /\ mailbox' \in Seq(Updates)
  BY Typing, FinishesType DEF Forgets
<1>4. spent' \in Spent
  BY NoUpsetType DEF Forgets
<1>5. QED
  BY <1>1, <1>2, <1>3, <1>4, Typing DEF Forgets, TypeOK, Worker, Ghost, Disk, Shared, Spent
LEMMA RemovalFailsType == ASSUME TypeOK, DetectionBounds, RemovalFails PROVE TypeOK'
<1>1. worker' \in Worker /\ mailbox' \in Seq(Updates)
  BY Typing, FinishesType DEF RemovalFails
<1>2. disk' \in Disk
  <2>1. {"torn"} \in SUBSET (Whole \cup {"torn"})
    OBVIOUS
  <2>2. QED
    <3>1. disk \in Disk
      BY Typing
    <3>2. [disk EXCEPT !.assets = {"torn"}] \in Disk
      BY <2>1, <3>1, DiskChange
    <3>3. QED
      BY <3>1, <3>2 DEF RemovalFails
<1>3. spent' \in Spent
  BY UpsetType DEF RemovalFails
<1>4. QED
  BY <1>1, <1>2, <1>3, Typing DEF RemovalFails, TypeOK, Worker, Ghost, Disk, Shared, Spent
LEMMA ResumesType == ASSUME TypeOK, DetectionBounds, Resumes PROVE TypeOK'
<1>1. Alone
  BY DEF Resumes
<1>2. worker' \in Worker /\ mailbox' \in Seq(Updates)
  BY Typing, Fields, WorkerType DEF Resumes, Goes, Places
<1>3. spent' \in Spent
  BY Typing DEF Resumes, Spent
<1>4. QED
  BY <1>1, <1>2, <1>3, AloneType, Typing
LEMMA UnrequestsType == ASSUME TypeOK, DetectionBounds, Unrequests PROVE TypeOK'
<1>1. worker' \in Worker
  BY Typing, Fields, WorkerType DEF Unrequests, Goes, Places
<1>2. shared' \in Shared
  BY Typing, SharedChange DEF Unrequests
<1>3. ghost.crossed \/ (shared.removing /\ shared.removal # worker.gen) \in BOOLEAN
  BY Typing DEF Ghost, Shared
<1>4. ghost' \in Ghost
  BY Typing, GhostChange DEF Unrequests
<1>5. QED
  BY <1>1, <1>2, <1>3, <1>4, Typing DEF Unrequests, TypeOK, Worker, Ghost, Disk, Shared, Spent
LEMMA InstallsType == ASSUME TypeOK, DetectionBounds, Installs PROVE TypeOK'
<1>1. Alone
  BY DEF Installs
<1>2. [worker EXCEPT !.gen = shared.generation, !.verified = disk.assets = Whole] \in Worker
  BY Typing, Fields, WorkerType
<1>3. worker' \in Worker
  <2>1. \A p \in Places : [[worker EXCEPT !.gen = shared.generation, !.verified = disk.assets = Whole] EXCEPT !.pc = p] \in Worker
    BY <1>2, Typing, WorkerType, Fields
  <2>2. QED
    BY <2>1, PlaceNames DEF Installs
<1>4. [worker EXCEPT !.gen = shared.generation, !.verified = disk.assets = Whole].gen = shared.generation
  BY Typing DEF Worker
<1>5. mailbox' \in Seq(Updates)
  BY <1>4, Answered, Fields, Typing DEF Installs, Says
<1>6. spent' \in Spent
  BY Typing DEF Installs, Spent
<1>7. QED
  BY <1>1, <1>2, <1>3, <1>4, <1>5, <1>6, AloneType, Typing
LEMMA CancelledType == ASSUME TypeOK, DetectionBounds, Cancelled PROVE TypeOK'
<1>1. Alone
  BY DEF Cancelled
<1>2. worker' \in Worker /\ mailbox' \in Seq(Updates)
  BY Typing, Fields, WorkerType DEF Cancelled, Places
<1>3. spent' \in Spent
  BY Typing DEF Cancelled, Spent
<1>4. QED
  BY <1>1, <1>2, <1>3, AloneType, Typing
LEMMA MergesType == ASSUME TypeOK, DetectionBounds, Merges PROVE TypeOK'
<1>1. Alone
  BY DEF Merges
<1>2. Following[worker.pc] \in Places
  BY DEF Merges, Following, Places
<1>3. worker' = [worker EXCEPT !.pc = Following[worker.pc], !.base = record]
  BY DEF Merges
<1>4. worker' \in Worker /\ mailbox' \in Seq(Updates)
  <2>1. worker' \in Worker
    BY <1>2, <1>3, Typing, WorkerType
  <2>2. QED
    BY <2>1, Typing DEF Merges
<1>5. spent' \in Spent
  BY Typing DEF Merges, Spent
<1>6. QED
  BY <1>1, <1>2, <1>3, <1>4, <1>5, AloneType, Typing
LEMMA ConsentsType == ASSUME TypeOK, DetectionBounds, Consents PROVE TypeOK'
<1>1. [worker.base EXCEPT !.version = FALSE] \in Records
  BY Typing DEF Worker, Records
<1>2. ghost' \in Ghost /\ disk' \in Disk /\ record' \in Records
  BY <1>1, PersistedType DEF Consents, Ghost, Disk
<1>3. worker' \in Worker
  BY Typing, Fields, WorkerType DEF Consents, Goes, Places
<1>4. mailbox' \in Seq(Updates)
  BY Answered, Fields, Typing DEF Consents, Says
<1>5. spent' \in Spent
  BY NoUpsetType DEF Consents
<1>6. QED
  BY <1>1, <1>2, <1>3, <1>4, <1>5, Typing DEF Consents, TypeOK, Worker, Ghost, Disk, Shared, Spent
LEMMA FetchesType == ASSUME TypeOK, DetectionBounds, Fetches PROVE TypeOK'
<1>1. worker' \in Worker
  BY Typing, Fields, PlaceNames, WorkerType, GoesType DEF Fetches
<1>2. \A a \in {"archive", "runtime", "model"} : disk.assets \cup {a} \in SUBSET (Whole \cup {"torn"})
  BY Typing DEF Disk, Whole
<1>3. disk' \in Disk
  <2>1. CASE disk.assets = Whole
    BY <2>1, Typing DEF Fetches
  <2>2. CASE disk.assets # Whole
    <3>1. PICK a \in {"archive", "runtime", "model"} : disk' = [disk EXCEPT !.assets = disk.assets \cup {a}]
      BY <2>2 DEF Fetches
    <3>2. disk \in Disk /\ disk.assets \cup {a} \in SUBSET (Whole \cup {"torn"})
      BY <1>2, Typing
    <3>3. QED
      BY <3>1, <3>2, DiskChange
  <2>3. QED
    BY <2>1, <2>2
<1>4. spent' \in Spent
  BY NoUpsetType DEF Fetches
<1>5. QED
  BY <1>1, <1>2, <1>3, <1>4, Typing DEF Fetches, TypeOK, Worker, Ghost, Disk, Shared, Spent
LEMMA BenchesType == ASSUME TypeOK, DetectionBounds, Benches PROVE TypeOK'
<1>1. Alone
  BY DEF Benches
<1>2. Following["bench"] \in Places
  BY DEF Following, Places
<1>3. worker' = [worker EXCEPT !.pc = Following["bench"], !.model = TRUE]
  BY DEF Benches, At
<1>4. worker' \in Worker /\ mailbox' \in Seq(Updates)
  <2>1. worker' \in Worker
    BY <1>2, <1>3, Typing, WorkerType, Fields
  <2>2. QED
    BY <2>1, Typing DEF Benches
<1>5. spent' \in Spent
  BY Typing DEF Benches, Spent
<1>6. QED
  BY <1>1, <1>2, <1>3, <1>4, <1>5, AloneType, Typing
LEMMA MarksType ==
    ASSUME TypeOK, DetectionBounds, NEW pc, NEW version \in BOOLEAN, NEW then \in Places,
           Marks(pc, version, then)
    PROVE  TypeOK'
<1>1. [worker.base EXCEPT !.version = version] \in Records
  BY Typing DEF Worker, Records
<1>2. ghost' \in Ghost /\ disk' \in Disk /\ record' \in Records
  BY <1>1, PersistedType DEF Marks, Ghost, Disk
<1>3. worker' \in Worker
  BY Typing, Fields, WorkerType DEF Marks, Goes
<1>4. spent' \in Spent
  BY NoUpsetType DEF Marks
<1>5. QED
  BY <1>1, <1>2, <1>3, <1>4, Typing DEF Marks, TypeOK, Worker, Ghost, Disk, Shared, Spent
LEMMA SetUpEndsType == ASSUME TypeOK, DetectionBounds, SetUpEnds PROVE TypeOK'
<1>1. record.enabled \in BOOLEAN
  BY Typing DEF Records
<1>2. worker' \in Worker
  BY <1>1, Typing, WorkerType DEF SetUpEnds, Places
<1>3. mailbox' \in Seq(Updates)
  BY Answered, Fields, Typing DEF SetUpEnds, Says
<1>4. ghost' \in Ghost
  BY Typing, GhostChange DEF SetUpEnds
<1>5. QED
  BY <1>1, <1>2, <1>3, <1>4, Typing DEF SetUpEnds, TypeOK, Worker, Ghost, Disk, Shared, Spent
LEMMA InstallFailsType == ASSUME TypeOK, DetectionBounds, InstallFails PROVE TypeOK'
<1>1. Alone
  BY DEF InstallFails
<1>2. worker' \in Worker /\ mailbox' \in Seq(Updates)
  BY Typing, Fields, WorkerType DEF InstallFails, Goes, Places
<1>3. spent' \in Spent
  BY UpsetType, NoUpsetType DEF InstallFails
<1>4. QED
  BY <1>1, <1>2, <1>3, AloneType, Typing
LEMMA UndoesType == ASSUME TypeOK, DetectionBounds, Undoes PROVE TypeOK'
<1>1. worker' \in Worker
  <2>1. worker \in Worker /\ record \in Records
    BY Typing
  <2>2. [worker EXCEPT !.pc = "leftover", !.model = FALSE, !.base = record] \in Worker
    BY <2>1, PlaceNames, WorkerType
  <2>3. Unloads("idle") => worker' \in Worker
    BY PlaceNames, GoesType
  <2>4. QED
    BY <2>2, <2>3 DEF Undoes
<1>2. mailbox' \in Seq(Updates)
  BY Answered, Fields, Typing DEF Undoes, Says
<1>3. {} \in SUBSET (Whole \cup {"torn"}) /\ {"torn"} \in SUBSET (Whole \cup {"torn"}) /\ \A a : disk.assets \cap a \in SUBSET (Whole \cup {"torn"}) /\ disk.assets \ a \in SUBSET (Whole \cup {"torn"})
  BY Typing DEF Disk
<1>4. disk' \in Disk
  <2>1. \A a \in SUBSET (Whole \cup {"torn"}) : [disk EXCEPT !.assets = a] \in Disk
    BY Typing, DiskChange
  <2>2. QED
    <3>1. CASE ~worker.verified /\ worker'.pc = "leftover"
      <4>1. PICK rest \in {disk.assets, disk.assets \ {"model"}, disk.assets \cap {"runtime", "torn"},
                          IF "runtime" \in disk.assets THEN {"torn"} ELSE {}} :
                disk' = [disk EXCEPT !.assets = rest] \/ disk' = [disk EXCEPT !.assets = {}]
        BY <3>1 DEF Undoes
      <4>2. disk.assets \in SUBSET (Whole \cup {"torn"})
        BY Typing DEF Disk
      <4>3. rest \in SUBSET (Whole \cup {"torn"})
        BY <1>3, <4>2
      <4>4. QED
        BY <1>3, <2>1, <4>1, <4>3
    <3>2. CASE disk' = disk \/ disk' = [disk EXCEPT !.assets = {}]
      BY <1>3, <2>1, <3>2, Typing
    <3>3. QED
      BY <1>1, <3>1, <3>2, Typing DEF Undoes, Worker
<1>5. spent' \in Spent
  BY UpsetType, NoUpsetType DEF Undoes
<1>6. QED
  BY <1>1, <1>2, <1>3, <1>4, <1>5, Typing DEF Undoes, TypeOK, Worker, Ghost, Disk, Shared, Spent
LEMMA LeavesType == ASSUME TypeOK, DetectionBounds, Leaves PROVE TypeOK'
<1>1. Tombstone(worker.base) \in Records
  BY Typing, TombstoneType DEF Worker
<1>2. ghost' \in Ghost /\ disk' \in Disk /\ record' \in Records
  BY <1>1, PersistedType, Typing DEF Leaves, Ghost, Disk
<1>3. worker' \in Worker
  BY Typing, Fields, WorkerType DEF Leaves, Goes, Places
<1>4. mailbox' \in Seq(Updates)
  BY Answered, Fields, Typing DEF Leaves, Says
<1>5. spent' \in Spent
  BY UpsetType, NoUpsetType DEF Leaves
<1>6. QED
  BY <1>1, <1>2, <1>3, <1>4, <1>5, Typing DEF Leaves, TypeOK, Worker, Ghost, Disk, Shared, Spent
LEMMA TakesType == ASSUME TypeOK, DetectionBounds, Takes PROVE TypeOK'
<1>1. worker' \in Worker
  <2>1. worker \in Worker /\ shared.sample \in Nat
    BY Typing, Fields
  <2>2. /\ [worker EXCEPT !.pc = "start", !.startup = "load"] \in Worker
        /\ [worker EXCEPT !.pc = "remove", !.startup = "no"] \in Worker
        /\ [worker EXCEPT !.pc = "infer", !.gen = shared.sample] \in Worker
    BY <2>1, PlaceNames, WorkerType
  <2>3. /\ Goes("gone") => worker' \in Worker
        /\ Goes("install") => worker' \in Worker
        /\ Unloads("idle") => worker' \in Worker
    BY PlaceNames, GoesType
  <2>4. QED
    BY <2>1, <2>2, <2>3 DEF Takes
<1>2. mailbox' \in Seq(Updates)
  BY Answered, Fields, Typing DEF Takes, Says
<1>3. shared' \in Shared
  <2>1. shared \in Shared /\ Nobody \in Nat
    BY Typing, PlaceNames
  <2>2. /\ [shared EXCEPT !.release = FALSE] \in Shared
        /\ [shared EXCEPT !.load = FALSE, !.cancel = FALSE] \in Shared
        /\ [shared EXCEPT !.sample = Nobody] \in Shared
        /\ [shared EXCEPT !.setup = FALSE, !.sample = Nobody] \in Shared
        /\ [shared EXCEPT !.io = FALSE] \in Shared
    BY <2>1, SharedChange
  <2>3. QED
    BY <2>1, <2>2 DEF Takes
<1>4. disk' \in Disk
  BY Typing, DiskChange DEF Takes
<1>5. spent' \in Spent
  BY Typing DEF Takes, Spent
<1>6. QED
  BY <1>1, <1>2, <1>3, <1>4, <1>5, Typing DEF Takes, TypeOK, Worker, Ghost, Disk, Shared, Spent
LEMMA CrashType == ASSUME TypeOK, DetectionBounds, Crash PROVE TypeOK'
<1>1. disk.record \in Records
  BY Typing DEF Disk
<1>2. worker' \in Worker
  BY <1>1 DEF Crash, AtStart, Worker, Places
<1>3. shared' \in Shared
  BY DEF Crash, Fresh, Shared, Nobody
<1>4. ghost' \in Ghost
  BY Typing DEF Crash, Ghost
<1>5. saving' \in [slot : Slots, base : Records]
  BY <1>1 DEF Crash, NotSaving, Slots
<1>6. QED
  BY <1>1, <1>2, <1>3, <1>4, <1>5, UpsetType, Typing DEF Crash, TypeOK, Worker, Ghost, Disk, Shared, Spent, Checking

-----------------------------------------------------------------------------
(* What a message more, or one less, does to the mailbox.                  *)

LEMMA Mailed ==
    ASSUME TypeOK, NEW g \in Nat, NEW w \in Says, NEW d \in BOOLEAN, Sends(g, w, d)
    PROVE  /\ \A n \in Nat : Within(mailbox, n) /\ g <= n => Within(mailbox', n)
           /\ \A n \in Nat : Stale(mailbox, n) /\ (w # "result" \/ g < n) => Stale(mailbox', n)
           /\ \A k \in Nat : Answers(mailbox', k) <=> Answers(mailbox, k) \/ (d /\ g >= k)
<1>. DEFINE u == [generation |-> g, says |-> w, done |-> d]
<1>1. /\ mailbox \in Seq(Updates) /\ Len(mailbox) \in Nat /\ Len(mailbox') = Len(mailbox) + 1
      /\ \A i \in 1 .. Len(mailbox) : mailbox'[i] = mailbox[i]
      /\ mailbox'[Len(mailbox) + 1] = u
  BY SentType, Typing
<1>2. u.generation = g /\ u.says = w /\ u.done = d
  OBVIOUS
<1>. HIDE DEF u
<1>3. 1 .. Len(mailbox') = 1 .. Len(mailbox) \cup {Len(mailbox) + 1}
  BY <1>1
<1>4. QED
  BY <1>1, <1>2, <1>3 DEF Within, Stale, Answers

LEMMA MailedNow ==
    ASSUME TypeOK, NEW w \in Says, NEW d \in BOOLEAN, Sends(shared.generation, w, d)
    PROVE  /\ Within(mailbox, shared.generation) => Within(mailbox', shared.generation)
           /\ Stale(mailbox, shared.generation) /\ w # "result" => Stale(mailbox', shared.generation)
           /\ \A k \in Nat : Answers(mailbox', k) => Answers(mailbox, k) \/ d
           /\ \A k \in Nat : Answers(mailbox, k) => Answers(mailbox', k)
<1>1. shared.generation \in Nat /\ shared.generation <= shared.generation
  BY Fields
<1>2. QED
  BY <1>1, Mailed

LEMMA Aged ==
    ASSUME TypeOK, NEW n \in Nat, Within(mailbox, n)
    PROVE  Within(mailbox, n + 1) /\ Stale(mailbox, n + 1) /\ ~Answers(mailbox, n + 1)
<1>1. \A i \in 1 .. Len(mailbox) : mailbox[i] \in Updates
  BY Typing
<1>2. \A i \in 1 .. Len(mailbox) : mailbox[i].generation \in Nat
  BY <1>1 DEF Updates
<1>3. QED
  BY <1>2 DEF Within, Stale, Answers

LEMMA Dropped ==
    ASSUME TypeOK, mailbox # <<>>, mailbox' = Tail(mailbox)
    PROVE  /\ \A n \in Nat : Within(mailbox, n) => Within(mailbox', n) /\ Head(mailbox).generation <= n
           /\ \A n \in Nat : Stale(mailbox, n) =>
                 Stale(mailbox', n) /\ (Head(mailbox).says = "result" => Head(mailbox).generation < n)
           /\ \A k \in Nat : Answers(mailbox', k) => Answers(mailbox, k)
           /\ \A k \in Nat : ~Answers(mailbox, k) => ~Head(mailbox).done \/ Head(mailbox).generation < k
<1>1. /\ Len(mailbox') = Len(mailbox) - 1 /\ Len(mailbox) \in Nat /\ Len(mailbox) > 0
      /\ \A i \in 1 .. Len(mailbox') : mailbox'[i] = mailbox[i + 1]
      /\ Head(mailbox) = mailbox[1] /\ mailbox[1].generation \in Nat
  BY TailType DEF Updates
<1>2. 1 \in 1 .. Len(mailbox) /\ \A i \in 1 .. Len(mailbox') : i + 1 \in 1 .. Len(mailbox)
  BY <1>1
<1>3. QED
  BY <1>1, <1>2 DEF Within, Stale, Answers

-----------------------------------------------------------------------------
(* Every action keeps the invariant.                                       *)

LEMMA SetUpKeeps == ASSUME TypeOK, TypeOK', IInv, SetUp PROVE IInv'
<1>1. shared \in Shared /\ worker \in Worker /\ disk \in Disk /\ ghost \in Ghost /\ record \in Records
  BY Typing
<1>2. /\ shared'.setup /\ gui'.busy /\ ghost'.asked = FALSE /\ ghost'.overtaken = ghost.overtaken
      /\ ghost'.crossed = (\/ ghost.crossed \/ worker.pc \in Removing
                           \/ \E i \in DOMAIN mailbox : mailbox[i].done)
      /\ shared'.closed = shared.closed /\ shared'.removing = shared.removing
      /\ shared'.generation = shared.generation /\ shared'.removal = shared.removal
      /\ shared'.sample = shared.sample
      /\ UNCHANGED <<record, disk, mailbox, saving, worker>>
  BY <1>1 DEF SetUp, Shared, Ghost
<1>3. /\ ~shared.closed /\ saving.slot = "none" /\ ~gui.busy /\ ~record.cleanup /\ ~shared.removing
  BY DEF SetUp, Gui
<1>4. Dated'
  BY <1>2 DEF IInv, Dated
<1>5. Cleared'
  BY <1>2 DEF IInv, Cleared, Removing
<1>6. SettingUp'
  <2>1. SUFFICES ASSUME ~ghost'.crossed, ~ghost'.overtaken PROVE SettingUp'
    BY DEF SettingUp
  <2>2. worker.pc \notin Removing /\ ~ghost.crossed /\ ~ghost.overtaken
    BY <1>2, <2>1
  <2>3. ~Answers(mailbox, 0)
    BY <1>2, <2>1, Typing DEF Answers
  <2>4. worker.pc \notin Installing
    BY <1>3, <2>2 DEF IInv, SettingUp, Setting
  <2>5. worker.pc # "condemned"
    BY <1>3, <2>2 DEF IInv, Cleared
  <2>6. QED
    BY <1>2, <1>3, <2>2, <2>3, <2>4, <2>5 DEF SettingUp, Setting, Removing, Installing
<1>7. Gone'
  BY <1>2 DEF Gone, Asked
<1>8. QED
  BY <1>4, <1>5, <1>6, <1>7 DEF IInv
LEMMA CancelKeeps == ASSUME TypeOK, TypeOK', IInv, Cancel PROVE IInv'
<1>1. shared \in Shared /\ worker \in Worker /\ disk \in Disk /\ ghost \in Ghost /\ record \in Records
  BY Typing
<1>2. Dated'
  BY <1>1, Fields DEF IInv, Dated, Cancel, Gui, Nobody, Shared, Worker, Disk, Records
<1>3. Cleared'
  BY <1>1, Fields DEF IInv, Cleared, Removing, Cancel, Gui, Nobody, Shared, Worker, Disk, Ghost, Records
<1>4. SettingUp'
  BY <1>1, Fields DEF IInv, SettingUp, Setting, Installing, Removing, Cancel, Gui, Nobody, Shared, Worker, Disk, Ghost, Records
<1>5. Gone'
  BY <1>1, Fields DEF IInv, Dated, Cleared, SettingUp, Gone, Asked, Setting, Installing, Removing, Cancel, Gui, Nobody, Shared, Worker, Disk, Ghost, Records
<1>6. QED
  BY <1>2, <1>3, <1>4, <1>5 DEF IInv
LEMMA SavesKeeps == ASSUME TypeOK, TypeOK', IInv, Saves PROVE IInv'
<1>1. shared \in Shared /\ worker \in Worker /\ disk \in Disk /\ ghost \in Ghost /\ record \in Records
  BY Typing
<1>2. Dated'
  BY <1>1, Fields DEF IInv, Dated, Saves, Gui, MaySave, Shared, Worker, Disk, Records
<1>3. Cleared'
  BY <1>1, Fields DEF IInv, Cleared, Removing, Saves, Gui, MaySave, Shared, Worker, Disk, Ghost, Records
<1>4. SettingUp'
  BY <1>1, Fields DEF IInv, SettingUp, Setting, Installing, Removing, Saves, Gui, MaySave, Shared, Worker, Disk, Ghost, Records
<1>5. Gone'
  BY <1>1, Fields DEF IInv, Dated, Cleared, SettingUp, Gone, Asked, Setting, Installing, Removing, Saves, Gui, MaySave, Shared, Worker, Disk, Ghost, Records
<1>6. QED
  BY <1>2, <1>3, <1>4, <1>5 DEF IInv
LEMMA SaveFailsKeeps == ASSUME TypeOK, TypeOK', IInv, SaveFails PROVE IInv'
<1>1. shared \in Shared /\ worker \in Worker /\ disk \in Disk /\ ghost \in Ghost /\ record \in Records
  BY Typing
<1>2. Dated'
  BY <1>1, Fields DEF IInv, Dated, SaveFails, Shared, Worker, Disk, Records
<1>3. Cleared'
  BY <1>1, Fields DEF IInv, Cleared, Removing, SaveFails, Shared, Worker, Disk, Ghost, Records
<1>4. SettingUp'
  BY <1>1, Fields DEF IInv, SettingUp, Setting, Installing, Removing, SaveFails, Shared, Worker, Disk, Ghost, Records
<1>5. Gone'
  BY <1>1, Fields DEF IInv, Dated, Cleared, SettingUp, Gone, Asked, Setting, Installing, Removing, SaveFails, Shared, Worker, Disk, Ghost, Records
<1>6. QED
  BY <1>2, <1>3, <1>4, <1>5 DEF IInv
LEMMA EnablesKeeps ==
    ASSUME TypeOK, TypeOK', IInv, NEW enabled \in BOOLEAN, Enables(enabled) PROVE IInv'
<1>1. shared \in Shared /\ worker \in Worker /\ disk \in Disk /\ ghost \in Ghost /\ record \in Records
  BY Typing
<1>2. /\ shared'.generation = shared.generation + 1 /\ shared'.sample = 0
      /\ shared'.removal = shared.removal /\ shared'.closed = shared.closed
      /\ shared'.removing = shared.removing /\ shared'.setup = shared.setup /\ shared'.io = shared.io
  BY <1>1 DEF Enables, Switched, Retired, Nobody, Shared
<1>3. /\ ghost'.crossed = ghost.crossed /\ ghost'.asked = ghost.asked
      /\ ghost'.overtaken = (ghost.overtaken \/ saving.base # record)
      /\ disk'.assets = disk.assets /\ disk'.evidence = disk.evidence
      /\ record' = [saving.base EXCEPT !.enabled = enabled] /\ disk'.record = record'
  BY <1>1 DEF Enables, Persisted, Ghost, Disk
<1>4. ~ghost'.overtaken => /\ ~ghost.overtaken
                           /\ record'.cleanup = record.cleanup /\ record'.version = record.version
  BY <1>1, <1>3 DEF Records
<1>5. UNCHANGED <<mailbox, worker>> /\ gui'.busy = gui.busy /\ saving'.slot = "none"
  BY Typing DEF Enables
<1>6. Within(mailbox, shared.generation + 1) /\ Stale(mailbox, shared.generation + 1)
  BY Aged, Fields DEF IInv, Dated
<1>7. Dated'
  BY <1>2, <1>3, <1>5, <1>6, Fields DEF IInv, Dated
<1>8. Cleared'
  BY <1>2, <1>3, <1>4, <1>5 DEF IInv, Cleared
<1>9. SettingUp'
  BY <1>2, <1>3, <1>4, <1>5 DEF IInv, SettingUp, Setting
<1>10. Gone'
  <2>1. SUFFICES ASSUME Asked' PROVE Gone'
    BY DEF Gone
  <2>2. Asked /\ record'.cleanup = record.cleanup /\ record'.version = record.version
    BY <1>3, <1>4, <2>1 DEF Asked
  <2>3. Gone /\ Dated
    BY DEF IInv
  <2>4. QED
    BY <1>2, <1>3, <1>5, <1>6, <2>2, <2>3, Fields DEF Dated, Gone, Setting
<1>11. QED
  BY <1>7, <1>8, <1>9, <1>10 DEF IInv
LEMMA RemovesAssetsKeeps == ASSUME TypeOK, TypeOK', IInv, RemovesAssets PROVE IInv'
<1>1. shared \in Shared /\ worker \in Worker /\ disk \in Disk /\ ghost \in Ghost /\ record \in Records
  BY Typing
<1>2. /\ shared'.generation = shared.generation + 1 /\ shared'.sample = 0
      /\ shared'.removal = shared.generation + 1 /\ shared'.closed = shared.closed
      /\ shared'.removing /\ shared'.setup = shared.setup /\ ~shared'.io
  BY <1>1 DEF RemovesAssets, Removal, Retired, Nobody, Shared
<1>3. /\ ghost'.crossed = ghost.crossed /\ ghost'.asked
      /\ (~ghost'.overtaken => ~ghost.overtaken)
      /\ disk'.record = record' /\ record'.cleanup /\ ~record'.version
      /\ disk'.assets = disk.assets /\ disk'.evidence = disk.evidence
  BY <1>1, Typing DEF RemovesAssets, Tombstone, Ghost, Disk, Records
<1>4. UNCHANGED <<mailbox, worker>> /\ gui'.busy /\ saving'.slot = "none" /\ saving.slot = "remove"
  BY Typing DEF RemovesAssets
<1>5. /\ Within(mailbox, shared.generation + 1) /\ Stale(mailbox, shared.generation + 1)
      /\ ~Answers(mailbox, shared.generation + 1)
  BY Aged, Fields DEF IInv, Dated
<1>6. Dated'
  BY <1>2, <1>3, <1>4, <1>5, Fields DEF IInv, Dated
<1>7. Cleared'
  BY <1>2, <1>3, <1>4 DEF IInv, Cleared
<1>8. ~ghost'.crossed /\ ~ghost'.overtaken => ~Setting'
  BY <1>2, <1>3, <1>4 DEF IInv, SettingUp, Setting
<1>9. SettingUp'
  BY <1>8 DEF SettingUp, Setting
<1>10. Gone'
  BY <1>2, <1>3, <1>4, <1>5, <1>8, Fields DEF IInv, Dated, Gone, Asked
<1>11. QED
  BY <1>6, <1>7, <1>9, <1>10 DEF IInv
LEMMA OffersKeeps == ASSUME TypeOK, TypeOK', IInv, Offers PROVE IInv'
<1>1. shared \in Shared /\ worker \in Worker /\ disk \in Disk /\ ghost \in Ghost /\ record \in Records
  BY Typing
<1>2. Dated'
  BY <1>1, Fields DEF IInv, Dated, Offers, Persisted, Shared, Worker, Disk, Records
<1>3. Cleared'
  BY <1>1, Fields DEF IInv, Cleared, Removing, Offers, Persisted, Shared, Worker, Disk, Ghost, Records
<1>4. SettingUp'
  BY <1>1, Fields DEF IInv, SettingUp, Setting, Installing, Removing, Offers, Persisted, Shared, Worker, Disk, Ghost, Records
<1>5. Gone'
  BY <1>1, Fields DEF IInv, Dated, Cleared, SettingUp, Gone, Asked, Setting, Installing, Removing, Offers, Persisted, Shared, Worker, Disk, Ghost, Records
<1>6. QED
  BY <1>2, <1>3, <1>4, <1>5 DEF IInv
LEMMA SampleKeeps == ASSUME TypeOK, TypeOK', IInv, Sample PROVE IInv'
<1>1. shared \in Shared /\ worker \in Worker /\ disk \in Disk /\ ghost \in Ghost /\ record \in Records
  BY Typing
<1>2. Dated'
  BY <1>1, Fields DEF IInv, Dated, Sample, Gui, Shared, Worker, Disk, Records
<1>3. Cleared'
  BY <1>1, Fields DEF IInv, Cleared, Removing, Sample, Gui, Shared, Worker, Disk, Ghost, Records
<1>4. SettingUp'
  BY <1>1, Fields DEF IInv, SettingUp, Setting, Installing, Removing, Sample, Gui, Shared, Worker, Disk, Ghost, Records
<1>5. Gone'
  BY <1>1, Fields DEF IInv, Dated, Cleared, SettingUp, Gone, Asked, Setting, Installing, Removing, Sample, Gui, Shared, Worker, Disk, Ghost, Records
<1>6. QED
  BY <1>2, <1>3, <1>4, <1>5 DEF IInv
LEMMA RetiredShared ==
    ASSUME TypeOK
    PROVE  /\ Retired(shared).generation = shared.generation + 1 /\ Retired(shared).sample = 0
           /\ Retired(shared).removal = shared.removal /\ Retired(shared).closed = shared.closed
           /\ Retired(shared).removing = shared.removing /\ Retired(shared).setup = shared.setup
           /\ Retired(shared).io = shared.io /\ Retired(shared) \in Shared
<1>1. shared \in Shared
  BY Typing
<1>2. QED
  BY <1>1, RetiredType DEF Retired, Nobody, Shared
LEMMA ResetKeeps == ASSUME TypeOK, TypeOK', IInv, Reset PROVE IInv'
<1>1. shared' = Retired(shared) /\ UNCHANGED <<record, disk, gui, mailbox, saving, worker, ghost>>
  BY DEF Reset
<1>2. Within(mailbox, shared.generation + 1) /\ Stale(mailbox, shared.generation + 1)
  BY Aged, Fields DEF IInv, Dated
<1>3. Dated'
  BY <1>1, <1>2, RetiredShared, Fields DEF IInv, Dated
<1>4. Cleared'
  BY <1>1, RetiredShared DEF IInv, Cleared
<1>5. SettingUp'
  BY <1>1, RetiredShared DEF IInv, SettingUp, Setting
<1>6. Gone'
  BY <1>1, <1>2, RetiredShared, Fields DEF IInv, Dated, Gone, Asked, Setting
<1>7. QED
  BY <1>3, <1>4, <1>5, <1>6 DEF IInv
LEMMA CloseKeeps == ASSUME TypeOK, TypeOK', IInv, Close PROVE IInv'
<1>1. /\ shared'.closed
      /\ shared'.generation = shared.generation + 1 /\ shared'.sample = 0
      /\ shared'.removal = shared.removal /\ shared'.removing = shared.removing
      /\ shared'.setup = shared.setup /\ shared'.io = shared.io
  BY RetiredShared DEF Close, Shared
<1>2. UNCHANGED <<record, disk, mailbox, saving, worker, ghost>> /\ saving.slot = "none"
  BY DEF Close, Gui
<1>3. Within(mailbox, shared.generation + 1) /\ Stale(mailbox, shared.generation + 1)
  BY Aged, Fields DEF IInv, Dated
<1>4. Dated'
  BY <1>1, <1>2, <1>3, Fields DEF IInv, Dated
<1>5. Cleared'
  BY <1>1, <1>2 DEF IInv, Cleared
<1>6. SettingUp'
  BY <1>1, <1>2 DEF IInv, SettingUp, Setting
<1>7. Gone'
  BY <1>1, <1>2, <1>3, Fields DEF IInv, Dated, Gone, Asked, Setting
<1>8. QED
  BY <1>4, <1>5, <1>6, <1>7 DEF IInv
LEMMA StartsUpKeeps == ASSUME TypeOK, TypeOK', IInv, StartsUp PROVE IInv'
<1>1. shared \in Shared /\ worker \in Worker /\ disk \in Disk /\ ghost \in Ghost /\ record \in Records
  BY Typing
<1>2. Dated'
  BY <1>1, Fields DEF IInv, Dated, StartsUp, At, Shared, Worker, Disk, Records
<1>3. Cleared'
  BY <1>1, Fields DEF IInv, Cleared, Removing, StartsUp, At, Shared, Worker, Disk, Ghost, Records
<1>4. SettingUp'
  BY <1>1, Fields DEF IInv, SettingUp, Setting, Installing, Removing, StartsUp, At, Shared, Worker, Disk, Ghost, Records
<1>5. Gone'
  BY <1>1, Fields DEF IInv, Dated, Cleared, SettingUp, Gone, Asked, Setting, Installing, Removing, StartsUp, At, Shared, Worker, Disk, Ghost, Records
<1>6. QED
  BY <1>2, <1>3, <1>4, <1>5 DEF IInv
LEMMA CondemnedKeeps == ASSUME TypeOK, TypeOK', IInv, Condemned PROVE IInv'
<1>1. shared \in Shared /\ worker \in Worker /\ disk \in Disk /\ ghost \in Ghost /\ record \in Records
  BY Typing
<1>2. Dated'
  BY <1>1, Fields DEF IInv, Dated, Condemned, Goes, At, Shared, Worker, Disk, Records
<1>3. Cleared'
  BY <1>1, Fields DEF IInv, Cleared, Removing, Condemned, Goes, At, Shared, Worker, Disk, Ghost, Records
<1>4. SettingUp'
  BY <1>1, Fields DEF IInv, SettingUp, Setting, Installing, Removing, Condemned, Goes, At, Shared, Worker, Disk, Ghost, Records
<1>5. Gone'
  BY <1>1, Fields DEF IInv, Dated, Cleared, SettingUp, Gone, Asked, Setting, Installing, Removing, Condemned, Goes, At, Shared, Worker, Disk, Ghost, Records
<1>6. QED
  BY <1>2, <1>3, <1>4, <1>5 DEF IInv
LEMMA ChecksKeeps == ASSUME TypeOK, TypeOK', IInv, Checks PROVE IInv'
<1>1. shared \in Shared /\ worker \in Worker /\ disk \in Disk /\ ghost \in Ghost /\ record \in Records
  BY Typing
<1>2. Dated'
  BY Mailed, <1>1, Fields DEF IInv, Dated, Checks, Goes, At, Shared, Worker, Disk, Records, Says
<1>3. Cleared'
  BY Mailed, <1>1, Fields DEF IInv, Cleared, Removing, Checks, Goes, At, Shared, Worker, Disk, Ghost, Records, Says
<1>4. SettingUp'
  BY Mailed, <1>1, Fields DEF IInv, SettingUp, Setting, Installing, Removing, Checks, Goes, At, Shared, Worker, Disk, Ghost, Records, Says
<1>5. Gone'
  BY Mailed, <1>1, Fields DEF IInv, Dated, Cleared, SettingUp, Gone, Asked, Setting, Installing, Removing, Checks, Goes, At, Shared, Worker, Disk, Ghost, Records, Says
<1>6. QED
  BY <1>2, <1>3, <1>4, <1>5 DEF IInv
LEMMA VerifiesKeeps == ASSUME TypeOK, TypeOK', IInv, Verifies PROVE IInv'
<1>1. shared \in Shared /\ worker \in Worker /\ disk \in Disk /\ ghost \in Ghost /\ record \in Records
  BY Typing
<1>2. Dated'
  BY <1>1, Fields DEF IInv, Dated, Verifies, Goes, Alone, At, Shared, Worker, Disk, Records
<1>3. Cleared'
  BY <1>1, Fields DEF IInv, Cleared, Removing, Verifies, Goes, Alone, At, Shared, Worker, Disk, Ghost, Records
<1>4. SettingUp'
  BY <1>1, Fields DEF IInv, SettingUp, Setting, Installing, Removing, Verifies, Goes, Alone, At, Shared, Worker, Disk, Ghost, Records
<1>5. Gone'
  BY <1>1, Fields DEF IInv, Dated, Cleared, SettingUp, Gone, Asked, Setting, Installing, Removing, Verifies, Goes, Alone, At, Shared, Worker, Disk, Ghost, Records
<1>6. QED
  BY <1>2, <1>3, <1>4, <1>5 DEF IInv
LEMMA LoadsKeeps == ASSUME TypeOK, TypeOK', IInv, Loads PROVE IInv'
<1>1. shared \in Shared /\ worker \in Worker /\ disk \in Disk /\ ghost \in Ghost /\ record \in Records
  BY Typing
<1>2. Dated'
  BY <1>1, Fields DEF IInv, Dated, Loads, Alone, At, Shared, Worker, Disk, Records
<1>3. Cleared'
  BY <1>1, Fields DEF IInv, Cleared, Removing, Loads, Alone, At, Shared, Worker, Disk, Ghost, Records
<1>4. SettingUp'
  BY <1>1, Fields DEF IInv, SettingUp, Setting, Installing, Removing, Loads, Alone, At, Shared, Worker, Disk, Ghost, Records
<1>5. Gone'
  BY <1>1, Fields DEF IInv, Dated, Cleared, SettingUp, Gone, Asked, Setting, Installing, Removing, Loads, Alone, At, Shared, Worker, Disk, Ghost, Records
<1>6. QED
  BY <1>2, <1>3, <1>4, <1>5 DEF IInv
LEMMA LoadedKeeps == ASSUME TypeOK, TypeOK', IInv, Loaded PROVE IInv'
<1>1. shared \in Shared /\ worker \in Worker /\ disk \in Disk /\ ghost \in Ghost /\ record \in Records
  BY Typing
<1>2. UNCHANGED <<record, disk, gui, shared, saving, ghost>> /\ Sends(shared.generation, "ready", FALSE)
  BY DEF Loaded, Alone
<1>3. /\ worker.pc = "loaded" /\ worker'.pc \in {"idle", "absorb"} /\ worker'.gen = worker.gen
      /\ worker'.model => worker.model
  BY <1>1 DEF Loaded, At, Goes, Unloads, Worker
<1>4. /\ Within(mailbox, shared.generation) => Within(mailbox', shared.generation)
      /\ Stale(mailbox, shared.generation) => Stale(mailbox', shared.generation)
      /\ \A k \in Nat : Answers(mailbox', k) <=> Answers(mailbox, k)
  BY <1>2, MailedNow DEF Says
<1>5. Dated'
  BY <1>2, <1>3, <1>4 DEF IInv, Dated
<1>6. Cleared'
  BY <1>3 DEF Cleared
<1>7. SettingUp'
  BY <1>2, <1>3, <1>4 DEF IInv, SettingUp, Setting, Installing, Removing
<1>8. Gone'
  BY <1>2, <1>3, <1>4, Fields DEF IInv, Gone, Asked, Setting, Installing
<1>9. QED
  BY <1>5, <1>6, <1>7, <1>8 DEF IInv
LEMMA StartupFailsKeeps == ASSUME TypeOK, TypeOK', IInv, StartupFails PROVE IInv'
<1>1. shared \in Shared /\ worker \in Worker /\ disk \in Disk /\ ghost \in Ghost /\ record \in Records
  BY Typing
<1>2. Dated'
  BY Mailed, <1>1, Fields DEF IInv, Dated, StartupFails, Unloads, Alone, At, Shared, Worker, Disk, Records, Says
<1>3. Cleared'
  BY Mailed, <1>1, Fields DEF IInv, Cleared, Removing, StartupFails, Unloads, Alone, At, Shared, Worker, Disk, Ghost, Records, Says
<1>4. SettingUp'
  BY Mailed, <1>1, Fields DEF IInv, SettingUp, Setting, Installing, Removing, StartupFails, Unloads, Alone, At, Shared, Worker, Disk, Ghost, Records, Says
<1>5. Gone'
  BY Mailed, <1>1, Fields DEF IInv, Dated, Cleared, SettingUp, Gone, Asked, Setting, Installing, Removing, StartupFails, Unloads, Alone, At, Shared, Worker, Disk, Ghost, Records, Says
<1>6. QED
  BY <1>2, <1>3, <1>4, <1>5 DEF IInv
LEMMA AbsorbsKeeps == ASSUME TypeOK, TypeOK', IInv, Absorbs PROVE IInv'
<1>1. shared \in Shared /\ worker \in Worker /\ disk \in Disk /\ ghost \in Ghost /\ record \in Records
  BY Typing
<1>2. Dated'
  <2>1. /\ shared'.generation = shared.generation /\ shared'.removal = shared.removal
        /\ shared'.sample = shared.sample /\ shared'.closed = shared.closed
        /\ worker'.gen = worker.gen /\ UNCHANGED <<record, disk, saving>>
    BY <1>1 DEF Absorbs, Goes, Shared, Worker
  <2>2. mailbox' = mailbox \/ Sends(shared.generation, "absorbed", TRUE)
    BY DEF Absorbs
  <2>3. Within(mailbox, shared.generation) => Within(mailbox', shared.generation)
    BY <2>2, MailedNow DEF Says
  <2>4. QED
    BY <2>1, <2>3 DEF IInv, Dated
<1>3. Cleared'
  BY Mailed, <1>1, Fields DEF IInv, Cleared, Removing, Absorbs, Goes, Alone, At, Shared, Worker, Disk, Ghost, Records, Says
<1>4. SettingUp'
  BY Mailed, <1>1, Fields DEF IInv, SettingUp, Setting, Installing, Removing, Absorbs, Goes, Alone, At, Shared, Worker, Disk, Ghost, Records, Says
<1>5. Gone'
  BY Mailed, <1>1, Fields DEF IInv, Dated, Cleared, SettingUp, Gone, Asked, Setting, Installing, Removing, Absorbs, Goes, Alone, At, Shared, Worker, Disk, Ghost, Records, Says
<1>6. QED
  BY <1>2, <1>3, <1>4, <1>5 DEF IInv
LEMMA TakesKeeps == ASSUME TypeOK, TypeOK', IInv, Takes PROVE IInv'
<1>1. shared \in Shared /\ worker \in Worker /\ disk \in Disk /\ ghost \in Ghost /\ record \in Records
  BY Typing
<1>2. worker.pc = "idle" /\ UNCHANGED <<record, gui, saving, ghost>>
  BY DEF Takes, At
<1>3. Dated /\ Cleared /\ SettingUp /\ Gone
  BY DEF IInv
<1>4. CASE UNCHANGED <<shared, mailbox, disk>> /\ Goes("gone")
  <2>1. worker'.pc = "gone" /\ worker'.gen = worker.gen /\ worker'.model = worker.model
    BY <1>1, <1>4 DEF Goes, Worker
  <2>2. Dated' /\ Cleared' /\ SettingUp'
    BY <1>2, <1>3, <1>4, <2>1 DEF Dated, Cleared, SettingUp, Setting, Installing, Removing
  <2>3. Gone'
    BY <1>2, <1>3, <1>4, <2>1 DEF Gone, Asked, Setting, Installing
  <2>4. QED
    BY <2>2, <2>3 DEF IInv
<1>5. CASE /\ shared' = [shared EXCEPT !.release = FALSE] /\ UNCHANGED disk
           /\ Unloads("idle") /\ Sends(shared.generation, "released", FALSE)
  <2>1. worker'.pc = "idle" /\ worker'.gen = worker.gen /\ ~worker'.model
    BY <1>1, <1>5 DEF Unloads, Worker
  <2>2. /\ shared'.generation = shared.generation /\ shared'.removal = shared.removal
        /\ shared'.sample = shared.sample /\ shared'.closed = shared.closed
        /\ shared'.removing = shared.removing /\ shared'.setup = shared.setup /\ shared'.io = shared.io
    BY <1>1, <1>5 DEF Shared
  <2>3. /\ Within(mailbox, shared.generation) => Within(mailbox', shared.generation)
        /\ Stale(mailbox, shared.generation) => Stale(mailbox', shared.generation)
        /\ \A k \in Nat : Answers(mailbox', k) <=> Answers(mailbox, k)
    BY <1>5, MailedNow DEF Says
  <2>4. Dated' /\ Cleared'
    BY <1>2, <1>3, <1>5, <2>1, <2>2, <2>3 DEF Dated, Cleared
  <2>5. SettingUp'
    BY <1>2, <1>3, <2>1, <2>2, <2>3 DEF SettingUp, Setting, Installing, Removing
  <2>6. Gone'
    BY <1>2, <1>3, <1>5, <2>1, <2>2, <2>3, Fields DEF Gone, Asked, Setting, Installing
  <2>7. QED
    BY <2>4, <2>5, <2>6 DEF IInv
<1>6. CASE /\ shared' = [shared EXCEPT !.load = FALSE, !.cancel = FALSE] /\ UNCHANGED <<mailbox, disk>>
           /\ worker' = [worker EXCEPT !.pc = "start", !.startup = "load"]
  <2>1. worker'.pc = "start" /\ worker'.gen = worker.gen /\ worker'.model = worker.model
    BY <1>1, <1>6 DEF Worker
  <2>2. /\ shared'.generation = shared.generation /\ shared'.removal = shared.removal
        /\ shared'.sample = shared.sample /\ shared'.closed = shared.closed
        /\ shared'.removing = shared.removing /\ shared'.setup = shared.setup /\ shared'.io = shared.io
    BY <1>1, <1>6 DEF Shared
  <2>3. Dated' /\ Cleared'
    BY <1>2, <1>3, <1>6, <2>1, <2>2 DEF Dated, Cleared
  <2>4. SettingUp'
    BY <1>2, <1>3, <1>6, <2>1, <2>2 DEF SettingUp, Setting, Installing, Removing
  <2>5. Gone'
    BY <1>2, <1>3, <1>6, <2>1, <2>2 DEF Gone, Asked, Setting, Installing
  <2>6. QED
    BY <2>3, <2>4, <2>5 DEF IInv
<1>7. CASE /\ Turn = "remove" /\ shared' = [shared EXCEPT !.sample = Nobody] /\ UNCHANGED <<mailbox, disk>>
           /\ worker' = [worker EXCEPT !.pc = "remove", !.startup = "no"]
  <2>1. worker'.pc = "remove" /\ worker'.gen = worker.gen /\ worker'.model = worker.model
    BY <1>1, <1>7 DEF Worker
  <2>2. /\ shared'.generation = shared.generation /\ shared'.removal = shared.removal
        /\ shared'.sample = 0 /\ shared'.closed = shared.closed
        /\ shared'.removing = shared.removing /\ shared'.setup = shared.setup /\ shared'.io = shared.io
    BY <1>1, <1>7 DEF Shared, Nobody
  <2>3. shared.removing
    BY <1>7 DEF Turn
  <2>4. Dated' /\ Cleared'
    BY <1>2, <1>3, <1>7, <2>1, <2>2, Fields DEF Dated, Cleared
  <2>5. SettingUp'
    BY <1>2, <1>3, <1>7, <2>1, <2>2, <2>3 DEF SettingUp, Setting, Installing, Removing
  <2>6. Gone'
    BY <1>2, <1>3, <1>7, <2>1, <2>2 DEF Gone, Asked, Setting, Installing
  <2>7. QED
    BY <2>4, <2>5, <2>6 DEF IInv
<1>8. CASE /\ Turn = "setup" /\ shared' = [shared EXCEPT !.setup = FALSE, !.sample = Nobody]
           /\ Goes("install") /\ UNCHANGED <<mailbox, disk>>
  <2>1. worker'.pc = "install" /\ worker'.gen = worker.gen /\ worker'.model = worker.model
    BY <1>1, <1>8 DEF Goes, Worker
  <2>2. /\ shared'.generation = shared.generation /\ shared'.removal = shared.removal
        /\ shared'.sample = 0 /\ shared'.closed = shared.closed
        /\ shared'.removing = shared.removing /\ ~shared'.setup /\ shared'.io = shared.io
    BY <1>1, <1>8 DEF Shared, Nobody
  <2>3. shared.setup
    BY <1>8 DEF Turn
  <2>4. Dated' /\ Cleared'
    BY <1>2, <1>3, <1>8, <2>1, <2>2, Fields DEF Dated, Cleared
  <2>5. SettingUp'
    BY <1>2, <1>3, <1>8, <2>1, <2>2, <2>3 DEF SettingUp, Setting, Installing, Removing
  <2>6. Gone'
    BY <1>2, <1>3, <2>3 DEF Gone, Asked, Setting
  <2>7. QED
    BY <2>4, <2>5, <2>6 DEF IInv
<1>9. CASE /\ Turn = "io" /\ shared' = [shared EXCEPT !.io = FALSE]
           /\ disk' = [disk EXCEPT !.evidence = TRUE] /\ UNCHANGED <<mailbox, worker>>
  <2>1. /\ shared'.generation = shared.generation /\ shared'.removal = shared.removal
        /\ shared'.sample = shared.sample /\ shared'.closed = shared.closed
        /\ shared'.removing = shared.removing /\ shared'.setup = shared.setup
        /\ disk'.record = disk.record
    BY <1>1, <1>9 DEF Shared, Disk
  <2>2. shared.io
    BY <1>9 DEF Turn
  <2>3. Dated' /\ Cleared'
    BY <1>2, <1>3, <1>9, <2>1 DEF Dated, Cleared
  <2>4. SettingUp'
    BY <1>2, <1>3, <1>9, <2>1 DEF SettingUp, Setting
  <2>5. Gone'
    BY <1>2, <1>3, <2>2 DEF Gone, Asked
  <2>6. QED
    BY <2>3, <2>4, <2>5 DEF IInv
<1>10. CASE /\ Turn = "sample" /\ shared' = [shared EXCEPT !.sample = Nobody] /\ UNCHANGED <<mailbox, disk>>
            /\ worker' = [worker EXCEPT !.pc = "infer", !.gen = shared.sample]
  <2>1. worker'.pc = "infer" /\ worker'.gen = shared.sample /\ worker'.model = worker.model
    BY <1>1, <1>10 DEF Worker
  <2>2. /\ shared'.generation = shared.generation /\ shared'.removal = shared.removal
        /\ shared'.sample = 0 /\ shared'.closed = shared.closed
        /\ shared'.removing = shared.removing /\ shared'.setup = shared.setup /\ shared'.io = shared.io
    BY <1>1, <1>10 DEF Shared, Nobody
  <2>3. ~shared.removing /\ ~shared.closed
    BY <1>10 DEF Turn
  <2>4. Dated' /\ Cleared'
    BY <1>2, <1>3, <1>10, <2>1, <2>2, Fields DEF Dated, Cleared
  <2>5. SettingUp'
    BY <1>2, <1>3, <1>10, <2>1, <2>2 DEF SettingUp, Setting, Installing, Removing
  <2>6. Asked => ~worker.model
    BY <1>2, <1>3, <2>3 DEF Gone
  <2>7. Gone'
    BY <1>2, <1>3, <1>10, <2>1, <2>2, <2>6 DEF Gone, Asked, Setting, Installing
  <2>8. QED
    BY <2>4, <2>5, <2>7 DEF IInv
<1>11. QED
  BY <1>4, <1>5, <1>6, <1>7, <1>8, <1>9, <1>10 DEF Takes
LEMMA InfersKeeps == ASSUME TypeOK, TypeOK', IInv, Infers PROVE IInv'
<1>1. shared \in Shared /\ worker \in Worker /\ disk \in Disk /\ ghost \in Ghost /\ record \in Records
  BY Typing
<1>2. Dated'
  BY <1>1, Fields DEF IInv, Dated, Infers, Goes, Alone, At, Shared, Worker, Disk, Records
<1>3. Cleared'
  BY <1>1, Fields DEF IInv, Cleared, Removing, Infers, Goes, Alone, At, Shared, Worker, Disk, Ghost, Records
<1>4. SettingUp'
  BY <1>1, Fields DEF IInv, SettingUp, Setting, Installing, Removing, Infers, Goes, Alone, At, Shared, Worker, Disk, Ghost, Records
<1>5. Gone'
  BY <1>1, Fields DEF IInv, Dated, Cleared, SettingUp, Gone, Asked, Setting, Installing, Removing, Infers, Goes, Alone, At, Shared, Worker, Disk, Ghost, Records
<1>6. QED
  BY <1>2, <1>3, <1>4, <1>5 DEF IInv
LEMMA DetectsKeeps == ASSUME TypeOK, TypeOK', IInv, Detects PROVE IInv'
<1>1. shared \in Shared /\ worker \in Worker /\ disk \in Disk /\ ghost \in Ghost /\ record \in Records
  BY Typing
<1>2. Dated'
  BY Mailed, <1>1, Fields DEF IInv, Dated, Detects, Goes, Alone, At, Shared, Worker, Disk, Records, Says
<1>3. Cleared'
  BY Mailed, <1>1, Fields DEF IInv, Cleared, Removing, Detects, Goes, Alone, At, Shared, Worker, Disk, Ghost, Records, Says
<1>4. SettingUp'
  BY Mailed, <1>1, Fields DEF IInv, SettingUp, Setting, Installing, Removing, Detects, Goes, Alone, At, Shared, Worker, Disk, Ghost, Records, Says
<1>5. Gone'
  BY Mailed, <1>1, Fields DEF IInv, Dated, Cleared, SettingUp, Gone, Asked, Setting, Installing, Removing, Detects, Goes, Alone, At, Shared, Worker, Disk, Ghost, Records, Says
<1>6. QED
  BY <1>2, <1>3, <1>4, <1>5 DEF IInv
LEMMA InferenceFailsKeeps == ASSUME TypeOK, TypeOK', IInv, InferenceFails PROVE IInv'
<1>1. shared \in Shared /\ worker \in Worker /\ disk \in Disk /\ ghost \in Ghost /\ record \in Records
  BY Typing
<1>2. /\ worker.pc = "detect" /\ worker'.pc = "idle" /\ worker'.gen = worker.gen
      /\ worker'.model => worker.model
      /\ UNCHANGED <<record, disk, gui, saving, ghost>>
  BY <1>1 DEF InferenceFails, At, Goes, Unloads, Worker
<1>3. /\ shared'.generation = shared.generation /\ shared'.removal = shared.removal
      /\ shared'.sample \in {0, shared.sample} /\ shared'.closed = shared.closed
      /\ shared'.removing = shared.removing /\ shared'.setup = shared.setup /\ shared'.io = shared.io
  BY <1>1 DEF InferenceFails, Shared, Nobody
<1>4. mailbox' = mailbox \/ Sends(worker.gen, "failed", FALSE)
  BY DEF InferenceFails
<1>5. /\ worker.gen <= shared.generation /\ Within(mailbox, shared.generation) => Within(mailbox', shared.generation)
      /\ Stale(mailbox, shared.generation) => Stale(mailbox', shared.generation)
      /\ \A k \in Nat : Answers(mailbox', k) <=> Answers(mailbox, k)
  BY <1>4, Mailed, Fields DEF Says
<1>6. Dated'
  BY <1>2, <1>3, <1>5, Fields DEF IInv, Dated
<1>7. Cleared'
  BY <1>2 DEF Cleared
<1>8. SettingUp'
  BY <1>2, <1>3, <1>5 DEF IInv, SettingUp, Setting, Installing, Removing
<1>9. Gone'
  BY <1>2, <1>3, <1>5, Fields DEF IInv, Gone, Asked, Setting, Installing
<1>10. QED
  BY <1>6, <1>7, <1>8, <1>9 DEF IInv
LEMMA RemovesKeeps == ASSUME TypeOK, TypeOK', IInv, Removes PROVE IInv'
<1>1. shared \in Shared /\ worker \in Worker /\ disk \in Disk /\ ghost \in Ghost /\ record \in Records
  BY Typing
<1>2. worker.pc = "remove" /\ UNCHANGED <<record, disk, gui, shared, saving, ghost>>
  BY DEF Removes, At, Alone
<1>3. Dated /\ Cleared /\ SettingUp /\ Gone
  BY DEF IInv
<1>. DEFINE w == [worker EXCEPT !.gen = shared.removal]
<1>4. w \in Worker /\ w.gen = shared.removal /\ w.model = worker.model
  <2>1. w \in Worker
    BY <1>1, Fields, WorkerType
  <2>2. QED
    BY <1>1, <2>1 DEF Worker
<1>5. CASE shared.closed
  <2>1. Finishes(w)
    BY <1>5 DEF Removes
  <2>. HIDE DEF w
  <2>2. worker'.pc \in {"unrequest", "resume"} /\ worker'.gen = shared.removal /\ worker'.model = worker.model
    BY <1>4, <2>1 DEF Finishes, Worker
  <2>3. Sends(shared.removal, "failed", TRUE)
    BY <1>4, <2>1 DEF Finishes
  <2>4. /\ shared.removal <= shared.generation /\ Within(mailbox, shared.generation) =>
              Within(mailbox', shared.generation)
        /\ Stale(mailbox, shared.generation) => Stale(mailbox', shared.generation)
    BY <2>3, Mailed, Fields DEF Says
  <2>5. Dated' /\ Cleared'
    BY <1>2, <1>3, <1>5, <2>2, <2>4 DEF Dated, Cleared
  <2>6. SettingUp'
    BY <1>2, <1>3, <1>5, <2>2 DEF SettingUp, Setting, Installing, Removing
  <2>7. Gone'
    BY <1>2, <1>3, <1>5, <2>2, <2>4 DEF Gone, Asked, Setting, Installing
  <2>8. QED
    BY <2>5, <2>6, <2>7 DEF IInv
<1>6. CASE ~shared.closed
  <2>1. mailbox' = mailbox /\ worker' = [w EXCEPT !.pc = "entombing", !.base = record, !.model = FALSE]
    BY <1>6 DEF Removes
  <2>. HIDE DEF w
  <2>2. worker'.pc = "entombing" /\ worker'.gen = shared.removal /\ ~worker'.model
    BY <1>4, <2>1 DEF Worker
  <2>3. Dated' /\ Cleared'
    BY <1>2, <1>3, <2>1, <2>2 DEF Dated, Cleared
  <2>4. SettingUp'
    BY <1>2, <1>3, <2>1, <2>2 DEF SettingUp, Setting, Installing, Removing
  <2>5. Gone'
    BY <1>2, <1>3, <2>1, <2>2 DEF Gone, Asked, Setting, Installing
  <2>6. QED
    BY <2>3, <2>4, <2>5 DEF IInv
<1>7. QED
  BY <1>5, <1>6
LEMMA EntombsKeeps == ASSUME TypeOK, TypeOK', IInv, Entombs PROVE IInv'
<1>1. shared \in Shared /\ worker \in Worker /\ disk \in Disk /\ ghost \in Ghost /\ record \in Records
  BY Typing
<1>2. Dated'
  BY <1>1, Fields DEF IInv, Dated, Entombs, At, Goes, Persisted, Tombstone, Shared, Worker, Disk, Records
<1>3. Cleared'
  BY <1>1, Fields DEF IInv, Cleared, Removing, Entombs, At, Goes, Persisted, Tombstone, Shared, Worker, Disk, Ghost, Records
<1>4. SettingUp'
  BY <1>1, Fields DEF IInv, SettingUp, Setting, Installing, Removing, Entombs, At, Goes, Persisted, Tombstone, Shared, Worker, Disk, Ghost, Records
<1>5. Gone'
  BY <1>1, Fields DEF IInv, Dated, Cleared, SettingUp, Gone, Asked, Setting, Installing, Removing, Entombs, At, Goes, Persisted, Tombstone, Shared, Worker, Disk, Ghost, Records
<1>6. QED
  BY <1>2, <1>3, <1>4, <1>5 DEF IInv
LEMMA ClearsKeeps == ASSUME TypeOK, TypeOK', IInv, Clears PROVE IInv'
<1>1. shared \in Shared /\ worker \in Worker /\ disk \in Disk /\ ghost \in Ghost /\ record \in Records
  BY Typing
<1>2. Dated'
  BY <1>1, Fields DEF IInv, Dated, Clears, At, Goes, Shared, Worker, Disk, Records
<1>3. Cleared'
  BY <1>1, Fields DEF IInv, Cleared, Removing, Clears, At, Goes, Shared, Worker, Disk, Ghost, Records
<1>4. SettingUp'
  BY <1>1, Fields DEF IInv, SettingUp, Setting, Installing, Removing, Clears, At, Goes, Shared, Worker, Disk, Ghost, Records
<1>5. Gone'
  BY <1>1, Fields DEF IInv, Dated, Cleared, SettingUp, Gone, Asked, Setting, Installing, Removing, Clears, At, Goes, Shared, Worker, Disk, Ghost, Records
<1>6. QED
  BY <1>2, <1>3, <1>4, <1>5 DEF IInv
LEMMA UnlinksKeeps == ASSUME TypeOK, TypeOK', IInv, Unlinks PROVE IInv'
<1>1. shared \in Shared /\ worker \in Worker /\ disk \in Disk /\ ghost \in Ghost /\ record \in Records
  BY Typing
<1>2. worker.pc = "unlink" /\ UNCHANGED <<record, gui, shared, mailbox, saving, ghost>>
  BY DEF Unlinks, At
<1>3. /\ worker'.pc \in {"unlink", "forget"} /\ worker'.gen = worker.gen /\ worker'.model = worker.model
      /\ disk'.record = disk.record
      /\ worker'.pc = "forget" => disk'.assets = {} /\ ~disk'.evidence
      /\ disk.assets = {} /\ ~disk.evidence => disk'.assets = {} /\ ~disk'.evidence
  BY <1>1, <1>2 DEF Unlinks, Worker, Disk
<1>4. Dated'
  BY <1>2, <1>3 DEF IInv, Dated
<1>5. Cleared'
  BY <1>2, <1>3 DEF IInv, Cleared
<1>6. SettingUp'
  BY <1>2, <1>3 DEF IInv, SettingUp, Setting, Installing, Removing
<1>7. Gone'
  BY <1>2, <1>3 DEF IInv, Cleared, Gone, Asked, Setting, Installing
<1>8. QED
  BY <1>4, <1>5, <1>6, <1>7 DEF IInv
LEMMA ForgetsKeeps == ASSUME TypeOK, TypeOK', IInv, Forgets PROVE IInv'
<1>1. shared \in Shared /\ worker \in Worker /\ disk \in Disk /\ ghost \in Ghost /\ record \in Records
  BY Typing
<1>2. Dated'
  BY Mailed, <1>1, Fields DEF IInv, Dated, Forgets, At, Persisted, Finishes, Shared, Worker, Disk, Records, Says
<1>3. Cleared'
  BY Mailed, <1>1, Fields DEF IInv, Cleared, Removing, Forgets, At, Persisted, Finishes, Shared, Worker, Disk, Ghost, Records, Says
<1>4. SettingUp'
  BY Mailed, <1>1, Fields DEF IInv, SettingUp, Setting, Installing, Removing, Forgets, At, Persisted, Finishes, Shared, Worker, Disk, Ghost, Records, Says
<1>5. Gone'
  BY Mailed, <1>1, Fields DEF IInv, Dated, Cleared, SettingUp, Gone, Asked, Setting, Installing, Removing, Forgets, At, Persisted, Finishes, Shared, Worker, Disk, Ghost, Records, Says
<1>6. QED
  BY <1>2, <1>3, <1>4, <1>5 DEF IInv
LEMMA RemovalFailsKeeps == ASSUME TypeOK, TypeOK', IInv, RemovalFails PROVE IInv'
<1>1. shared \in Shared /\ worker \in Worker /\ disk \in Disk /\ ghost \in Ghost /\ record \in Records
  BY Typing
<1>2. Dated'
  BY Mailed, <1>1, Fields DEF IInv, Dated, RemovalFails, At, Finishes, Shared, Worker, Disk, Records, Says
<1>3. Cleared'
  BY Mailed, <1>1, Fields DEF IInv, Cleared, Removing, RemovalFails, At, Finishes, Shared, Worker, Disk, Ghost, Records, Says
<1>4. SettingUp'
  BY Mailed, <1>1, Fields DEF IInv, SettingUp, Setting, Installing, Removing, RemovalFails, At, Finishes, Shared, Worker, Disk, Ghost, Records, Says
<1>5. Gone'
  BY Mailed, <1>1, Fields DEF IInv, Dated, Cleared, SettingUp, Gone, Asked, Setting, Installing, Removing, RemovalFails, At, Finishes, Shared, Worker, Disk, Ghost, Records, Says
<1>6. QED
  BY <1>2, <1>3, <1>4, <1>5 DEF IInv
LEMMA ResumesKeeps == ASSUME TypeOK, TypeOK', IInv, Resumes PROVE IInv'
<1>1. shared \in Shared /\ worker \in Worker /\ disk \in Disk /\ ghost \in Ghost /\ record \in Records
  BY Typing
<1>2. Dated'
  BY <1>1, Fields DEF IInv, Dated, Resumes, At, Goes, Alone, Shared, Worker, Disk, Records
<1>3. Cleared'
  BY <1>1, Fields DEF IInv, Cleared, Removing, Resumes, At, Goes, Alone, Shared, Worker, Disk, Ghost, Records
<1>4. SettingUp'
  BY <1>1, Fields DEF IInv, SettingUp, Setting, Installing, Removing, Resumes, At, Goes, Alone, Shared, Worker, Disk, Ghost, Records
<1>5. Gone'
  BY <1>1, Fields DEF IInv, Dated, Cleared, SettingUp, Gone, Asked, Setting, Installing, Removing, Resumes, At, Goes, Alone, Shared, Worker, Disk, Ghost, Records
<1>6. QED
  BY <1>2, <1>3, <1>4, <1>5 DEF IInv
LEMMA UnrequestsKeeps == ASSUME TypeOK, TypeOK', IInv, Unrequests PROVE IInv'
<1>1. shared \in Shared /\ worker \in Worker /\ disk \in Disk /\ ghost \in Ghost /\ record \in Records
  BY Typing
<1>2. Dated'
  BY <1>1, Fields DEF IInv, Dated, Unrequests, At, Goes, Shared, Worker, Disk, Records
<1>3. Cleared'
  BY <1>1, Fields DEF IInv, Cleared, Removing, Unrequests, At, Goes, Shared, Worker, Disk, Ghost, Records
<1>4. SettingUp'
  BY <1>1, Fields DEF IInv, SettingUp, Setting, Installing, Removing, Unrequests, At, Goes, Shared, Worker, Disk, Ghost, Records
<1>5. Gone'
  BY <1>1, Fields DEF IInv, Dated, Cleared, SettingUp, Gone, Asked, Setting, Installing, Removing, Unrequests, At, Goes, Shared, Worker, Disk, Ghost, Records
<1>6. QED
  BY <1>2, <1>3, <1>4, <1>5 DEF IInv
LEMMA InstallsKeeps == ASSUME TypeOK, TypeOK', IInv, Installs PROVE IInv'
<1>1. shared \in Shared /\ worker \in Worker /\ disk \in Disk /\ ghost \in Ghost /\ record \in Records
  BY Typing
<1>2. worker.pc = "install" /\ UNCHANGED <<record, disk, gui, shared, saving, ghost>>
  BY DEF Installs, At, Alone
<1>3. Dated /\ Cleared /\ SettingUp /\ Gone
  BY DEF IInv
<1>. DEFINE w == [worker EXCEPT !.gen = shared.generation, !.verified = disk.assets = Whole]
<1>4. w \in Worker /\ w.gen = shared.generation /\ w.model = worker.model
  <2>1. w \in Worker
    BY <1>1, Fields, WorkerType
  <2>2. QED
    BY <1>1, <2>1 DEF Worker
<1>5. CASE shared.closed \/ shared.cancel
  <2>1. Sends(w.gen, "working", TRUE) /\ worker' = [w EXCEPT !.pc = "idle"]
    BY <1>5 DEF Installs
  <2>. HIDE DEF w
  <2>2. worker'.pc = "idle" /\ worker'.gen = shared.generation /\ worker'.model = worker.model
    BY <1>4, <2>1 DEF Worker
  <2>3. Within(mailbox, shared.generation) => Within(mailbox', shared.generation)
    BY <1>4, <2>1, MailedNow DEF Says
  <2>4. Dated' /\ Cleared'
    BY <1>2, <1>3, <2>2, <2>3, Fields DEF Dated, Cleared
  <2>5. SettingUp'
    BY <1>2, <1>3, <2>2 DEF SettingUp, Setting, Installing
  <2>6. Gone'
    BY <1>2, <1>3 DEF Gone, Asked, Setting, Installing
  <2>7. QED
    BY <2>4, <2>5, <2>6 DEF IInv
<1>6. CASE ~(shared.closed \/ shared.cancel)
  <2>1. mailbox' = mailbox /\ worker' = [w EXCEPT !.pc = "consent"]
    BY <1>6 DEF Installs
  <2>. HIDE DEF w
  <2>2. worker'.pc = "consent" /\ worker'.gen = shared.generation /\ worker'.model = worker.model
    BY <1>4, <2>1 DEF Worker
  <2>3. Dated' /\ Cleared'
    BY <1>2, <1>3, <2>1, <2>2, Fields DEF Dated, Cleared
  <2>4. SettingUp'
    BY <1>2, <1>3, <2>1, <2>2 DEF SettingUp, Setting, Installing
  <2>5. Gone'
    BY <1>2, <1>3 DEF Gone, Asked, Setting, Installing
  <2>6. QED
    BY <2>3, <2>4, <2>5 DEF IInv
<1>7. QED
  BY <1>5, <1>6
LEMMA CancelledKeeps == ASSUME TypeOK, TypeOK', IInv, Cancelled PROVE IInv'
<1>1. shared \in Shared /\ worker \in Worker /\ disk \in Disk /\ ghost \in Ghost /\ record \in Records
  BY Typing
<1>2. Dated'
  BY <1>1, Fields DEF IInv, Dated, Cancelled, At, Alone, Following, Shared, Worker, Disk, Records
<1>3. Cleared'
  BY <1>1, Fields DEF IInv, Cleared, Removing, Cancelled, At, Alone, Following, Shared, Worker, Disk, Ghost, Records
<1>4. SettingUp'
  BY <1>1, Fields DEF IInv, SettingUp, Setting, Installing, Removing, Cancelled, At, Alone, Following, Shared, Worker, Disk, Ghost, Records
<1>5. Gone'
  BY <1>1, Fields DEF IInv, Dated, Cleared, SettingUp, Gone, Asked, Setting, Installing, Removing, Cancelled, At, Alone, Following, Shared, Worker, Disk, Ghost, Records
<1>6. QED
  BY <1>2, <1>3, <1>4, <1>5 DEF IInv
LEMMA MergesKeeps == ASSUME TypeOK, TypeOK', IInv, Merges PROVE IInv'
<1>1. shared \in Shared /\ worker \in Worker /\ disk \in Disk /\ ghost \in Ghost /\ record \in Records
  BY Typing
<1>2. Dated'
  BY <1>1, Fields DEF IInv, Dated, Merges, Alone, Following, Shared, Worker, Disk, Records
<1>3. Cleared'
  BY <1>1, Fields DEF IInv, Cleared, Removing, Merges, Alone, Following, Shared, Worker, Disk, Ghost, Records
<1>4. SettingUp'
  BY <1>1, Fields DEF IInv, SettingUp, Setting, Installing, Removing, Merges, Alone, Following, Shared, Worker, Disk, Ghost, Records
<1>5. Gone'
  BY <1>1, Fields DEF IInv, Dated, Cleared, SettingUp, Gone, Asked, Setting, Installing, Removing, Merges, Alone, Following, Shared, Worker, Disk, Ghost, Records
<1>6. QED
  BY <1>2, <1>3, <1>4, <1>5 DEF IInv
LEMMA ConsentsKeeps == ASSUME TypeOK, TypeOK', IInv, Consents PROVE IInv'
<1>1. shared \in Shared /\ worker \in Worker /\ disk \in Disk /\ ghost \in Ghost /\ record \in Records
  BY Typing
<1>2. Dated'
  BY Mailed, <1>1, Fields DEF IInv, Dated, Consents, At, Persisted, Goes, Shared, Worker, Disk, Records, Says
<1>3. Cleared'
  BY Mailed, <1>1, Fields DEF IInv, Cleared, Removing, Consents, At, Persisted, Goes, Shared, Worker, Disk, Ghost, Records, Says
<1>4. SettingUp'
  BY Mailed, <1>1, Fields DEF IInv, SettingUp, Setting, Installing, Removing, Consents, At, Persisted, Goes, Shared, Worker, Disk, Ghost, Records, Says
<1>5. Gone'
  BY Mailed, <1>1, Fields DEF IInv, Dated, Cleared, SettingUp, Gone, Asked, Setting, Installing, Removing, Consents, At, Persisted, Goes, Shared, Worker, Disk, Ghost, Records, Says
<1>6. QED
  BY <1>2, <1>3, <1>4, <1>5 DEF IInv
LEMMA FetchesKeeps == ASSUME TypeOK, TypeOK', IInv, Fetches PROVE IInv'
<1>1. shared \in Shared /\ worker \in Worker /\ disk \in Disk /\ ghost \in Ghost /\ record \in Records
  BY Typing
<1>2. Dated'
  BY <1>1, Fields DEF IInv, Dated, Fetches, At, Goes, Shared, Worker, Disk, Records
<1>3. Cleared'
  BY <1>1, Fields DEF IInv, Cleared, Removing, Fetches, At, Goes, Shared, Worker, Disk, Ghost, Records
<1>4. SettingUp'
  BY <1>1, Fields DEF IInv, SettingUp, Setting, Installing, Removing, Fetches, At, Goes, Shared, Worker, Disk, Ghost, Records
<1>5. Gone'
  BY <1>1, Fields DEF IInv, Dated, Cleared, SettingUp, Gone, Asked, Setting, Installing, Removing, Fetches, At, Goes, Shared, Worker, Disk, Ghost, Records
<1>6. QED
  BY <1>2, <1>3, <1>4, <1>5 DEF IInv
LEMMA BenchesKeeps == ASSUME TypeOK, TypeOK', IInv, Benches PROVE IInv'
<1>1. shared \in Shared /\ worker \in Worker /\ disk \in Disk /\ ghost \in Ghost /\ record \in Records
  BY Typing
<1>2. Dated'
  BY <1>1, Fields DEF IInv, Dated, Benches, At, Alone, Following, Shared, Worker, Disk, Records
<1>3. Cleared'
  BY <1>1, Fields DEF IInv, Cleared, Removing, Benches, At, Alone, Following, Shared, Worker, Disk, Ghost, Records
<1>4. SettingUp'
  BY <1>1, Fields DEF IInv, SettingUp, Setting, Installing, Removing, Benches, At, Alone, Following, Shared, Worker, Disk, Ghost, Records
<1>5. Gone'
  BY <1>1, Fields DEF IInv, Dated, Cleared, SettingUp, Gone, Asked, Setting, Installing, Removing, Benches, At, Alone, Following, Shared, Worker, Disk, Ghost, Records
<1>6. QED
  BY <1>2, <1>3, <1>4, <1>5 DEF IInv
LEMMA MarksKeeps ==
    ASSUME TypeOK, TypeOK', IInv, NEW pc, NEW version \in BOOLEAN, NEW then, Marks(pc, version, then),
           \/ pc = "marking" /\ version /\ then = "marked"
           \/ pc = "unmarking" /\ ~version /\ then = "undo"
    PROVE  IInv'
<1>1. shared \in Shared /\ worker \in Worker /\ disk \in Disk /\ ghost \in Ghost /\ record \in Records
  BY Typing
<1>2. Dated'
  BY <1>1, Fields DEF IInv, Dated, Marks, At, Persisted, Goes, Shared, Worker, Disk, Records
<1>3. Cleared'
  BY <1>1, Fields DEF IInv, Cleared, Removing, Marks, At, Persisted, Goes, Shared, Worker, Disk, Ghost, Records
<1>4. SettingUp'
  BY <1>1, Fields DEF IInv, SettingUp, Setting, Installing, Removing, Marks, At, Persisted, Goes, Shared, Worker, Disk, Ghost, Records
<1>5. Gone'
  BY <1>1, Fields DEF IInv, Dated, Cleared, SettingUp, Gone, Asked, Setting, Installing, Removing, Marks, At, Persisted, Goes, Shared, Worker, Disk, Ghost, Records
<1>6. QED
  BY <1>2, <1>3, <1>4, <1>5 DEF IInv
LEMMA SetUpEndsKeeps == ASSUME TypeOK, TypeOK', IInv, SetUpEnds PROVE IInv'
<1>1. shared \in Shared /\ worker \in Worker /\ disk \in Disk /\ ghost \in Ghost /\ record \in Records
  BY Typing
<1>2. Dated'
  BY Mailed, <1>1, Fields DEF IInv, Dated, SetUpEnds, At, Goes, Shared, Worker, Disk, Records, Says
<1>3. Cleared'
  BY Mailed, <1>1, Fields DEF IInv, Cleared, Removing, SetUpEnds, At, Goes, Shared, Worker, Disk, Ghost, Records, Says
<1>4. SettingUp'
  BY Mailed, <1>1, Fields DEF IInv, SettingUp, Setting, Installing, Removing, SetUpEnds, At, Goes, Shared, Worker, Disk, Ghost, Records, Says
<1>5. Gone'
  BY Mailed, <1>1, Fields DEF IInv, Dated, Cleared, SettingUp, Gone, Asked, Setting, Installing, Removing, SetUpEnds, At, Goes, Shared, Worker, Disk, Ghost, Records, Says
<1>6. QED
  BY <1>2, <1>3, <1>4, <1>5 DEF IInv
LEMMA InstallFailsKeeps == ASSUME TypeOK, TypeOK', IInv, InstallFails PROVE IInv'
<1>1. shared \in Shared /\ worker \in Worker /\ disk \in Disk /\ ghost \in Ghost /\ record \in Records
  BY Typing
<1>2. Dated'
  BY <1>1, Fields DEF IInv, Dated, InstallFails, At, Goes, Alone, Shared, Worker, Disk, Records
<1>3. Cleared'
  BY <1>1, Fields DEF IInv, Cleared, Removing, InstallFails, At, Goes, Alone, Shared, Worker, Disk, Ghost, Records
<1>4. SettingUp'
  BY <1>1, Fields DEF IInv, SettingUp, Setting, Installing, Removing, InstallFails, At, Goes, Alone, Shared, Worker, Disk, Ghost, Records
<1>5. Gone'
  BY <1>1, Fields DEF IInv, Dated, Cleared, SettingUp, Gone, Asked, Setting, Installing, Removing, InstallFails, At, Goes, Alone, Shared, Worker, Disk, Ghost, Records
<1>6. QED
  BY <1>2, <1>3, <1>4, <1>5 DEF IInv
LEMMA UndoesKeeps == ASSUME TypeOK, TypeOK', IInv, Undoes PROVE IInv'
<1>1. shared \in Shared /\ worker \in Worker /\ disk \in Disk /\ ghost \in Ghost /\ record \in Records
  BY Typing
<1>2. /\ worker.pc = "undo" /\ worker'.gen = worker.gen /\ ~worker'.model /\ disk'.record = disk.record
      /\ UNCHANGED <<record, gui, shared, saving, ghost>>
  BY <1>1 DEF Undoes, At, Unloads, Worker, Disk
<1>3. \/ worker'.pc = "idle" /\ Sends(worker.gen, "failed", TRUE)
      \/ worker'.pc = "leftover" /\ mailbox' = mailbox
  BY <1>1 DEF Undoes, Unloads, Worker
<1>4. worker.gen <= shared.generation /\ Within(mailbox, shared.generation) => Within(mailbox', shared.generation)
  BY <1>3, Mailed, Fields DEF Says
<1>5. Dated'
  BY <1>2, <1>4 DEF IInv, Dated
<1>6. Cleared'
  BY <1>3 DEF Cleared
<1>7. SettingUp'
  BY <1>2, <1>3 DEF IInv, SettingUp, Setting, Installing, Removing
<1>8. Gone'
  BY <1>2 DEF IInv, Gone, Asked, Setting, Installing
<1>9. QED
  BY <1>5, <1>6, <1>7, <1>8 DEF IInv
LEMMA LeavesKeeps == ASSUME TypeOK, TypeOK', IInv, Leaves PROVE IInv'
<1>1. shared \in Shared /\ worker \in Worker /\ disk \in Disk /\ ghost \in Ghost /\ record \in Records
  BY Typing
<1>2. Dated'
  BY Mailed, <1>1, Fields DEF IInv, Dated, Leaves, At, Goes, Persisted, Tombstone, Shared, Worker, Disk, Records, Says
<1>3. Cleared'
  BY Mailed, <1>1, Fields DEF IInv, Cleared, Removing, Leaves, At, Goes, Persisted, Tombstone, Shared, Worker, Disk, Ghost, Records, Says
<1>4. SettingUp'
  BY Mailed, <1>1, Fields DEF IInv, SettingUp, Setting, Installing, Removing, Leaves, At, Goes, Persisted, Tombstone, Shared, Worker, Disk, Ghost, Records, Says
<1>5. Gone'
  BY Mailed, <1>1, Fields DEF IInv, Dated, Cleared, SettingUp, Gone, Asked, Setting, Installing, Removing, Leaves, At, Goes, Persisted, Tombstone, Shared, Worker, Disk, Ghost, Records, Says
<1>6. QED
  BY <1>2, <1>3, <1>4, <1>5 DEF IInv
LEMMA CrashKeeps == ASSUME TypeOK, TypeOK', IInv, Crash PROVE IInv'
<1>1. /\ record' = disk.record /\ UNCHANGED disk /\ mailbox' = <<>>
      /\ shared'.generation = 1 /\ shared'.removal = 0 /\ shared'.sample = 0
      /\ ~shared'.closed /\ ~shared'.removing /\ ~shared'.setup /\ ~shared'.io
      /\ worker'.pc = "start" /\ worker'.gen = 0 /\ ~worker'.model
  BY DEF Crash, Fresh, AtStart, Nobody
<1>2. /\ ~ghost'.crossed /\ ~ghost'.overtaken
      /\ ghost'.asked => ghost.asked /\ ~ghost.overtaken /\ ~ghost.crossed
  BY DEF Crash
<1>3. Dated'
  BY <1>1 DEF Dated, Within
<1>4. Cleared'
  BY <1>1 DEF Cleared
<1>5. SettingUp'
  BY <1>1 DEF SettingUp, Setting, Installing
<1>6. Gone'
  BY <1>1, <1>2 DEF IInv, Dated, Gone, Asked, Setting, Installing, Stale
<1>7. QED
  BY <1>3, <1>4, <1>5, <1>6 DEF IInv

LEMMA ToldOnly ==
    ASSUME NEW v \in Views, NEW u \in Updates
    PROVE  /\ Told(v, u).busy <=> v.busy /\ ~u.done
           /\ Told(v, u).removing <=> v.removing /\ ~(u.generation = shared.removal)
           /\ Told(v, u).io <=> v.io
BY DEF Told, Views, Updates
LEMMA HearsOnly ==
    ASSUME TypeOK, NEW v \in Views, NEW u \in Updates
    PROVE  /\ v.busy /\ ~u.done => Hears(v, u).busy
           /\ Hears(v, u).removing => v.removing
           /\ v.removing /\ (~u.done \/ u.generation < shared.removal) => Hears(v, u).removing
           /\ Hears(v, u).io => v.io \/ (u.says = "result" /\ u.generation = shared.generation)
<1>1. shared.removal \in Nat /\ u.generation \in Nat /\ shared.generation \in Nat
  BY Fields DEF Updates
<1>2. CASE u.says = "result"
  BY <1>2 DEF Hears, Views
<1>3. CASE u.says # "result" /\ Outlived(u)
  BY <1>3 DEF Hears
<1>4. CASE u.says # "result" /\ ~Outlived(u) /\ Retires(v, u)
  BY <1>4 DEF Hears, Views
<1>5. CASE u.says # "result" /\ ~Outlived(u) /\ ~Retires(v, u) /\ Unfinished(v, u)
  BY <1>5 DEF Hears
<1>6. CASE u.says # "result" /\ ~Outlived(u) /\ ~Retires(v, u) /\ ~Unfinished(v, u)
  <2>1. Hears(v, u) = Told(v, u)
    BY <1>6 DEF Hears
  <2>2. u.generation >= shared.removal /\ ~(v.removing /\ u.generation = shared.removal /\ ~u.done)
    BY <1>1, <1>6 DEF Outlived, Unfinished
  <2>3. QED
    BY <1>1, <2>1, <2>2, ToldOnly
<1>7. QED
  BY <1>2, <1>3, <1>4, <1>5, <1>6

LEMMA DrainKeeps == ASSUME TypeOK, TypeOK', IInv, Drain PROVE IInv'
<1>. DEFINE u == Head(mailbox)
            h == Hears(View, u)
<1>1. mailbox # <<>> /\ mailbox' = Tail(mailbox) /\ u \in Updates /\ View \in Views
  BY TailType, Typing DEF Drain, View, Views, TypeOK
<1>2. /\ UNCHANGED <<record, disk, worker>> /\ ~shared.closed /\ saving'.slot \in {"none", "drain"}
      /\ gui'.busy = h.busy
  BY Typing DEF Drain, View
<1>3. /\ shared'.removing = h.removing /\ shared'.io = h.io
      /\ shared'.generation = shared.generation /\ shared'.removal = shared.removal
      /\ shared'.sample = shared.sample /\ shared'.closed = shared.closed
      /\ shared'.setup = shared.setup
  BY Typing DEF Drain, View, Shared
<1>4. ghost'.crossed = ghost.crossed /\ ghost'.overtaken = ghost.overtaken /\ ghost'.asked = ghost.asked
  BY Typing DEF Drain, Ghost
<1>5. View.busy = gui.busy /\ View.removing = shared.removing /\ View.io = shared.io
  BY DEF View
<1>6. /\ gui.busy /\ ~u.done => gui'.busy
      /\ shared'.removing => shared.removing
      /\ shared.removing /\ (~u.done \/ u.generation < shared.removal) => shared'.removing
      /\ shared'.io => shared.io \/ (u.says = "result" /\ u.generation = shared.generation)
  BY <1>1, <1>2, <1>3, <1>5, HearsOnly
<1>7. Dated /\ Cleared /\ SettingUp /\ Gone
  BY DEF IInv
<1>8. u.generation \in Nat
  BY <1>1 DEF Updates
<1>. HIDE DEF u, h
<1>9. Dated'
  BY <1>1, <1>2, <1>3, <1>7, Dropped, Fields DEF Dated
<1>10. Cleared'
  BY <1>2, <1>3, <1>4, <1>7 DEF Cleared
<1>11. SettingUp'
  <2>1. ~Answers(mailbox, 0) => ~u.done /\ ~Answers(mailbox', 0)
    BY <1>1, <1>8, Dropped DEF u
  <2>2. QED
    BY <1>2, <1>3, <1>4, <1>6, <1>7, <2>1 DEF SettingUp, Setting
<1>12. Gone'
  <2>1. ~Answers(mailbox, shared.removal) =>
           /\ ~u.done \/ u.generation < shared.removal
           /\ ~Answers(mailbox', shared.removal)
    BY <1>1, Dropped, Fields DEF u
  <2>2. Stale(mailbox, shared.generation) =>
           /\ Stale(mailbox', shared.generation)
           /\ ~(u.says = "result" /\ u.generation = shared.generation)
    BY <1>1, <1>8, Dropped, Fields DEF u
  <2>3. QED
    BY <1>2, <1>3, <1>4, <1>6, <1>7, <2>1, <2>2 DEF Gone, Asked, Setting
<1>13. QED
  BY <1>9, <1>10, <1>11, <1>12 DEF IInv

-----------------------------------------------------------------------------
(* The theorems.                                                           *)

LEMMA InitKeeps == ASSUME Init, DetectionBounds PROVE TypeOK /\ IInv
<1>1. PICK life \in Lives :
        LET r == [version |-> life \in {"used", "off"}, cleanup |-> life = "removed",
                  enabled |-> life # "off"]
        IN  /\ Starts(r)
            /\ disk = [record |-> r, evidence |-> r.version,
                       assets |-> IF r.version THEN Whole
                                  ELSE IF r.cleanup THEN {"runtime"} ELSE {}]
            /\ ghost = [missed |-> FALSE, mute |-> FALSE, overtaken |-> FALSE, crossed |-> FALSE,
                        asked |-> r.cleanup]
  BY DEF Init
<1>. DEFINE r == [version |-> life \in {"used", "off"}, cleanup |-> life = "removed",
                  enabled |-> life # "off"]
<1>2. r \in Records /\ record = r /\ ~(r.version /\ r.cleanup)
  <2>1. \A a, b, c \in BOOLEAN : [version |-> a, cleanup |-> b, enabled |-> c] \in Records
    BY DEF Records
  <2>2. r \in Records
    <3>1. (life \in {"used", "off"}) \in BOOLEAN /\ (life = "removed") \in BOOLEAN /\ (life # "off") \in BOOLEAN
      OBVIOUS
    <3>2. QED
      BY <2>1, <3>1, Zenon
  <2>3. r.version => life \in {"used", "off"}
    OBVIOUS
  <2>4. r.cleanup => life = "removed"
    OBVIOUS
  <2>5. QED
    BY <1>1, <2>2, <2>3, <2>4 DEF Starts
<1>3. /\ disk \in Disk /\ disk.record = r /\ ghost \in Ghost /\ ghost.asked = r.cleanup
      /\ ~r.version /\ ~r.cleanup => disk.assets = {} /\ ~disk.evidence
  BY <1>1, <1>2 DEF Disk, Ghost, Whole
<1>. HIDE DEF r
<1>4. Starts(r)
  BY <1>1 DEF r
<1>5. shared \in Shared /\ worker \in Worker /\ mailbox = <<>>
  BY <1>2, <1>4, PlaceNames DEF Starts, Fresh, AtStart, Shared, Worker
<1>6. /\ gui \in [ready : BOOLEAN, busy : BOOLEAN, checking : BOOLEAN]
      /\ saving \in [slot : Slots, base : Records] /\ spent \in Spent
  BY <1>2, <1>4 DEF Init, DetectionBounds, Starts, Checking, NotSaving, Slots, Spent
<1>7. TypeOK
  BY <1>2, <1>3, <1>5, <1>6, Typing
<1>8. /\ shared.generation = 1 /\ shared.removal = 0 /\ shared.sample = 0
      /\ ~shared.closed /\ ~shared.removing /\ ~shared.setup /\ ~shared.io
      /\ worker.pc = "start" /\ worker.gen = 0 /\ ~worker.model
  BY <1>4 DEF Starts, Fresh, AtStart, Nobody
<1>9. IInv
  BY <1>2, <1>3, <1>5, <1>8
     DEF IInv, Dated, Cleared, SettingUp, Gone, Asked, Setting, Installing, Within, Stale
<1>10. QED
  BY <1>7, <1>9

LEMMA NextType == ASSUME TypeOK, DetectionBounds, [Next]_vars PROVE TypeOK'
<1>1. CASE UNCHANGED vars
  BY <1>1 DEF vars, TypeOK
<1>2. CASE SetUp \/ Cancel \/ Saves \/ SaveFails \/ SavesEnd \/ Sample \/ Reset \/ Close \/ Drain \/ Crash
  BY <1>2, SetUpType, CancelType, SavesType, SaveFailsType, EnablesType, RemovesAssetsType, OffersType,
     SampleType, ResetType, CloseType, DrainType, CrashType DEF SavesEnd
<1>3. CASE Work
  <2>1. Marks("marking", TRUE, "marked") \/ Marks("unmarking", FALSE, "undo") => TypeOK'
    BY MarksType DEF Places
  <2>2. QED
    BY <1>3, <2>1, StartsUpType, CondemnedType, ChecksType, VerifiesType, LoadsType, LoadedType,
       StartupFailsType, AbsorbsType, TakesType, InfersType, DetectsType, InferenceFailsType,
       RemovesType, EntombsType, ClearsType, UnlinksType, ForgetsType, RemovalFailsType, ResumesType,
       UnrequestsType, InstallsType, CancelledType, MergesType, ConsentsType, FetchesType, BenchesType,
       SetUpEndsType, InstallFailsType, UndoesType, LeavesType DEF Work
<1>4. QED
  BY <1>1, <1>2, <1>3 DEF Next

LEMMA NextKeeps == ASSUME TypeOK, TypeOK', IInv, [Next]_vars PROVE IInv'
<1>1. CASE UNCHANGED vars
  BY <1>1 DEF vars, IInv, Dated, Cleared, SettingUp, Gone, Asked, Setting
<1>2. CASE SetUp \/ Cancel \/ Saves \/ SaveFails \/ SavesEnd \/ Sample \/ Reset \/ Close \/ Drain \/ Crash
  BY <1>2, SetUpKeeps, CancelKeeps, SavesKeeps, SaveFailsKeeps, EnablesKeeps, RemovesAssetsKeeps,
     OffersKeeps, SampleKeeps, ResetKeeps, CloseKeeps, DrainKeeps, CrashKeeps DEF SavesEnd
<1>3. CASE Work
  <2>1. Marks("marking", TRUE, "marked") \/ Marks("unmarking", FALSE, "undo") => IInv'
    BY MarksKeeps
  <2>2. QED
    BY <1>3, <2>1, StartsUpKeeps, CondemnedKeeps, ChecksKeeps, VerifiesKeeps, LoadsKeeps, LoadedKeeps,
       StartupFailsKeeps, AbsorbsKeeps, TakesKeeps, InfersKeeps, DetectsKeeps, InferenceFailsKeeps,
       RemovesKeeps, EntombsKeeps, ClearsKeeps, UnlinksKeeps, ForgetsKeeps, RemovalFailsKeeps,
       ResumesKeeps, UnrequestsKeeps, InstallsKeeps, CancelledKeeps, MergesKeeps, ConsentsKeeps,
       FetchesKeeps, BenchesKeeps, SetUpEndsKeeps, InstallFailsKeeps, UndoesKeeps, LeavesKeeps DEF Work
<1>4. QED
  BY <1>1, <1>2, <1>3 DEF Next

\* Every field keeps its type: in particular the mailbox holds messages only, and the
\* worker is at one of its places with a generation that was given out.
THEOREM DetectionTypeCorrect == Spec => []TypeOK
<1>1. Init => TypeOK
  BY InitKeeps, DetectionBounds
<1>2. TypeOK /\ [Next]_vars => TypeOK'
  BY NextType, DetectionBounds
<1>3. QED
  BY <1>1, <1>2, PTL DEF Spec

LEMMA Inductive == Spec => []IInv
<1>1. Init => IInv
  BY InitKeeps, DetectionBounds
<1>2. TypeOK /\ TypeOK' /\ IInv /\ [Next]_vars => IInv'
  BY NextKeeps
<1>3. QED
  BY <1>1, <1>2, DetectionTypeCorrect, PTL DEF Spec

\* What remove_assets() promised: files and evidence are gone, or the tombstone on the disk
\* makes the next start go on, whatever fails and wherever the process ends.
THEOREM RemovalStaysKept == Spec => []RemovalIsKept
<1>1. IInv => RemovalIsKept
  BY DEF IInv, Dated, Gone, Asked, RemovalIsKept
<1>2. QED
  BY <1>1, Inductive, PTL

-----------------------------------------------------------------------
(* What the messages under way still have to say.                          *)

Word(u)  == u.says \in {"ready", "failed"}
Said(m)  == {m[i] : i \in 1 .. Len(m)}
\* Of the messages m: one ends the wait of exactly the job k; those that end a wait are no
\* younger than n; one is a word, one says ready.
Closes(m, k)     == \E u \in Said(m) : u.done /\ u.generation = k
EndsWithin(m, n) == \A u \in Said(m) : u.done => u.generation <= n
HasWord(m)       == \E u \in Said(m) : Word(u)
SaysReady(m)     == \E u \in Said(m) : u.says = "ready"
\* A job no older than k ends in failure; one ends otherwise.
Fails(m, k)      == \E u \in Said(m) : u.done /\ u.generation >= k /\ u.says = "failed"
Succeeds(m, k)   == \E u \in Said(m) : u.done /\ u.generation >= k /\ u.says # "failed"
\* A word is older than k and will not be heard.
Outdated(m, k)   == \E u \in Said(m) : Word(u) /\ u.generation < k
\* A setup was absorbed, and every such message is no older than k.
Absorbed(m)         == \E u \in Said(m) : u.says = "absorbed"
AbsorbedSince(m, k) == \A u \in Said(m) : u.says = "absorbed" => u.done /\ u.generation >= k
\* A message that is heard for sure and ends the checking; or only while nothing is busy.
Clearing(m, k)   == \E u \in Said(m) :
                       u.says \in {"ready", "failed", "released"} /\ u.generation >= k
Missing(m, k)    == \E u \in Said(m) : u.says = "uninstalled" /\ u.generation >= k
Civil(m)         == \A u \in Said(m) :
                       u.done => u.says \in {"failed", "absorbed", "working", "ready"}
\* Behind the end of a job that is no older than k none says ready; no word is older than
\* an end before it; after the failure of a job no older than k none says ready; no two
\* messages end a job.
ReadyFirst(m, k) == \A i, j \in 1 .. Len(m) :
                       i < j /\ m[i].done /\ m[i].generation >= k => m[j].says # "ready"
WordsFollow(m)   == \A i, j \in 1 .. Len(m) :
                       i < j /\ m[i].done /\ Word(m[j]) => m[j].generation >= m[i].generation
FailsLast(m, k)  == \E i \in 1 .. Len(m) :
                       /\ m[i].done /\ m[i].generation >= k /\ m[i].says = "failed"
                       /\ \A j \in 1 .. Len(m) : j > i => m[j].says # "ready"
Lone(m)          == \A i, j \in 1 .. Len(m) : m[i].done /\ m[j].done => i = j
\* After one that says ready none says failed; none says failed at all: what the window
\* will say when it has heard all of m.
EndsReady(m)     == \E i \in 1 .. Len(m) : /\ m[i].says = "ready"
                                           /\ \A j \in 1 .. Len(m) : j > i => m[j].says # "failed"
NeverFails(m)    == \A u \in Said(m) : u.says # "failed"

\* A message is sent: the messages m become p.
Posting(m, p, g, w, d) ==
    /\ \A k \in Nat :
         /\ Answers(p, k) <=> Answers(m, k) \/ (d /\ g >= k)
         /\ Closes(p, k) <=> Closes(m, k) \/ (d /\ g = k)
         /\ EndsWithin(p, k) <=> EndsWithin(m, k) /\ (d => g <= k)
         /\ ReadyFirst(p, k) <=>
               ReadyFirst(m, k) /\ (w = "ready" => ~Answers(m, k))
         /\ Fails(p, k) <=> Fails(m, k) \/ (d /\ g >= k /\ w = "failed")
         /\ Succeeds(p, k) <=> Succeeds(m, k) \/ (d /\ g >= k /\ w # "failed")
         /\ Outdated(p, k) <=> Outdated(m, k) \/ (w \in {"ready", "failed"} /\ g < k)
         /\ AbsorbedSince(p, k) <=>
               AbsorbedSince(m, k) /\ (w = "absorbed" => d /\ g >= k)
         /\ Clearing(p, k) <=>
               Clearing(m, k) \/ (w \in {"ready", "failed", "released"} /\ g >= k)
         /\ Missing(p, k) <=> Missing(m, k) \/ (w = "uninstalled" /\ g >= k)
         /\ FailsLast(p, k) <=> \/ FailsLast(m, k) /\ w # "ready"
                                \/ d /\ g >= k /\ w = "failed"
    /\ HasWord(p) <=> HasWord(m) \/ w \in {"ready", "failed"}
    /\ SaysReady(p) <=> SaysReady(m) \/ w = "ready"
    /\ WordsFollow(p) <=>
          WordsFollow(m) /\ (w \in {"ready", "failed"} => EndsWithin(m, g))
    /\ Lone(m) /\ ~d => Lone(p)
    /\ ~Answers(m, 0) => Lone(p)
    /\ Absorbed(p) <=> Absorbed(m) \/ w = "absorbed"
    /\ Civil(p) <=>
          Civil(m) /\ (d => w \in {"failed", "absorbed", "working", "ready"})
    /\ EndsReady(p) <=> w = "ready" \/ (w # "failed" /\ EndsReady(m))
    /\ NeverFails(p) <=> w # "failed" /\ NeverFails(m)
LEMMA Posted ==
    ASSUME TypeOK, NEW g \in Nat, NEW w \in Says, NEW d \in BOOLEAN, Sends(g, w, d)
    PROVE  Posting(mailbox, mailbox', g, w, d)
<1>. DEFINE n == Len(mailbox)
            u == [generation |-> g, says |-> w, done |-> d]
<1>1. /\ n \in Nat /\ Len(mailbox') = n + 1 /\ mailbox'[n + 1] = u
      /\ \A i \in 1 .. n : mailbox'[i] = mailbox[i] /\ mailbox[i] \in Updates
  BY SentType, Typing
<1>2. u.generation = g /\ u.says = w /\ u.done = d
  OBVIOUS
<1>3. \A i \in 1 .. n : mailbox[i].generation \in Nat
  BY <1>1 DEF Updates
<1>. HIDE DEF u
<1>4. 1 .. (n + 1) = 1 .. n \cup {n + 1} /\ \A i \in 1 .. n : i < n + 1 /\ i # n + 1 /\ ~(n + 1 < i)
  BY <1>1
<1>. DEFINE m == mailbox
            p == mailbox'
<1>5. /\ Len(p) = n + 1 /\ p[n + 1] = u /\ Len(m) = n
      /\ \A i \in 1 .. n : p[i] = m[i] /\ m[i].generation \in Nat
  BY <1>1, <1>3
<1>. HIDE DEF n, m, p
<1>6. Said(p) = Said(m) \cup {u}
  BY <1>4, <1>5 DEF Said
<1>7. \A k \in Nat : Answers(p, k) <=> Answers(m, k) \/ (d /\ g >= k)
  BY <1>2, <1>4, <1>5 DEF Answers
<1>8. \A k \in Nat :
                /\ Closes(p, k) <=> Closes(m, k) \/ (d /\ g = k)
                /\ EndsWithin(p, k) <=> EndsWithin(m, k) /\ (d => g <= k)
                /\ Fails(p, k) <=> Fails(m, k) \/ (d /\ g >= k /\ w = "failed")
                /\ Succeeds(p, k) <=> Succeeds(m, k) \/ (d /\ g >= k /\ w # "failed")
                /\ Outdated(p, k) <=> Outdated(m, k) \/ (w \in {"ready", "failed"} /\ g < k)
                /\ AbsorbedSince(p, k) <=> AbsorbedSince(m, k) /\ (w = "absorbed" => d /\ g >= k)
                /\ Clearing(p, k) <=> Clearing(m, k) \/ (w \in {"ready", "failed", "released"} /\ g >= k)
                /\ Missing(p, k) <=> Missing(m, k) \/ (w = "uninstalled" /\ g >= k)
  BY <1>2, <1>6 DEF Closes, EndsWithin, Fails, Succeeds, Outdated, AbsorbedSince, Clearing, Missing, Word
<1>9. /\ HasWord(p) <=> HasWord(m) \/ w \in {"ready", "failed"}
      /\ SaysReady(p) <=> SaysReady(m) \/ w = "ready"
      /\ Absorbed(p) <=> Absorbed(m) \/ w = "absorbed"
      /\ Civil(p) <=> Civil(m) /\ (d => w \in {"failed", "absorbed", "working", "ready"})
  BY <1>2, <1>6 DEF HasWord, SaysReady, Absorbed, Civil, Word
<1>10. \A k \in Nat : ReadyFirst(p, k) <=> ReadyFirst(m, k) /\ (w = "ready" => ~Answers(m, k))
  BY <1>2, <1>4, <1>5 DEF ReadyFirst, Answers
<1>11. \A k \in Nat : FailsLast(p, k) <=> \/ FailsLast(m, k) /\ w # "ready"
                                          \/ d /\ g >= k /\ w = "failed"
  BY <1>2, <1>4, <1>5 DEF FailsLast
<1>12. WordsFollow(p) <=> WordsFollow(m) /\ (w \in {"ready", "failed"} => EndsWithin(m, g))
  <2>1. EndsWithin(m, g) <=> \A i \in 1 .. n : m[i].done => m[i].generation <= g
    BY <1>5 DEF EndsWithin, Said
  <2>2. WordsFollow(p) => WordsFollow(m)
    BY <1>4, <1>5 DEF WordsFollow
  <2>3. WordsFollow(p) /\ w \in {"ready", "failed"} => EndsWithin(m, g)
    BY <1>2, <1>4, <1>5, <2>1 DEF WordsFollow, Word
  <2>4. WordsFollow(m) /\ (w \in {"ready", "failed"} => EndsWithin(m, g)) => WordsFollow(p)
    BY <1>2, <1>4, <1>5, <2>1 DEF WordsFollow, Word
  <2>5. QED
    BY <2>2, <2>3, <2>4
<1>13. (Lone(m) /\ ~d => Lone(p)) /\ (~Answers(m, 0) => Lone(p))
  BY <1>2, <1>4, <1>5 DEF Lone, Answers
<1>14. /\ EndsReady(p) <=> w = "ready" \/ (w # "failed" /\ EndsReady(m))
       /\ NeverFails(p) <=> w # "failed" /\ NeverFails(m)
  <2>1. EndsReady(p) <=> w = "ready" \/ (w # "failed" /\ EndsReady(m))
    BY <1>2, <1>4, <1>5 DEF EndsReady
  <2>2. NeverFails(p) <=> w # "failed" /\ NeverFails(m)
    BY <1>2, <1>6 DEF NeverFails
  <2>3. QED
    BY <2>1, <2>2
<1>15. QED
  BY <1>7, <1>8, <1>9, <1>10, <1>11, <1>12, <1>13, <1>14 DEF m, p, Posting

\* The first message u is heard.
Dropping(m, p, u) ==
    /\ u \in Updates
    /\ \A k \in Nat :
         /\ Answers(m, k) <=> (u.done /\ u.generation >= k) \/ Answers(p, k)
         /\ Closes(m, k) <=> (u.done /\ u.generation = k) \/ Closes(p, k)
         /\ EndsWithin(m, k) <=> (u.done => u.generation <= k) /\ EndsWithin(p, k)
         /\ ReadyFirst(m, k) =>
               ReadyFirst(p, k) /\ (u.done /\ u.generation >= k => ~SaysReady(p))
         /\ Fails(m, k) <=>
               (u.done /\ u.generation >= k /\ u.says = "failed") \/ Fails(p, k)
         /\ Succeeds(m, k) <=>
               (u.done /\ u.generation >= k /\ u.says # "failed") \/ Succeeds(p, k)
         /\ Outdated(m, k) <=> (Word(u) /\ u.generation < k) \/ Outdated(p, k)
         /\ AbsorbedSince(m, k) <=>
               (u.says = "absorbed" => u.done /\ u.generation >= k) /\ AbsorbedSince(p, k)
         /\ Clearing(m, k) <=>
               (u.says \in {"ready", "failed", "released"} /\ u.generation >= k) \/ Clearing(p, k)
         /\ Missing(m, k) <=> (u.says = "uninstalled" /\ u.generation >= k) \/ Missing(p, k)
         /\ FailsLast(m, k) <=>
               \/ u.done /\ u.generation >= k /\ u.says = "failed" /\ ~SaysReady(p)
               \/ FailsLast(p, k)
    /\ HasWord(m) <=> Word(u) \/ HasWord(p)
    /\ SaysReady(m) <=> u.says = "ready" \/ SaysReady(p)
    /\ WordsFollow(m) => WordsFollow(p)
    /\ WordsFollow(m) /\ u.done => \A k \in Nat : k <= u.generation => ~Outdated(p, k)
    /\ Lone(m) => Lone(p)
    /\ Lone(m) /\ u.done => \A k \in Nat : ~Answers(p, k)
    /\ Absorbed(m) <=> u.says = "absorbed" \/ Absorbed(p)
    /\ Civil(m) <=> Civil(p) /\ (u.done => u.says \in {"failed", "absorbed", "working", "ready"})
    /\ EndsReady(m) <=> EndsReady(p) \/ (u.says = "ready" /\ NeverFails(p))
    /\ NeverFails(m) <=> u.says # "failed" /\ NeverFails(p)
LEMMA Taken ==
    ASSUME TypeOK, mailbox # <<>>, mailbox' = Tail(mailbox),
           NEW u, u = Head(mailbox)
    PROVE  Dropping(mailbox, mailbox', u)
<1>. DEFINE m == mailbox
            p == mailbox'
            n == Len(p)
<1>1. /\ n \in Nat /\ Len(m) = n + 1 /\ m[1] = u /\ u \in Updates
      /\ \A i \in 1 .. n : p[i] = m[i + 1] /\ m[i + 1] \in Updates
  <2>1. \A i \in 1 .. Len(mailbox) : mailbox[i] \in Updates
    BY Typing
  <2>2. n \in Nat /\ Len(m) = n + 1 /\ m[1] = u /\ \A i \in 1 .. n : p[i] = m[i + 1]
    BY TailType
  <2>3. 1 \in 1 .. Len(m) /\ \A i \in 1 .. n : i + 1 \in 1 .. Len(m)
    BY <2>2
  <2>4. QED
    BY <2>1, <2>2, <2>3
<1>2. u.generation \in Nat /\ \A i \in 1 .. n : p[i].generation \in Nat
  BY <1>1 DEF Updates
<1>. HIDE DEF m, p, n
<1>3. /\ \A j \in 1 .. Len(m) : j = 1 \/ (j - 1 \in 1 .. n /\ m[j] = p[j - 1])
      /\ 1 \in 1 .. Len(m) /\ Len(p) = n
      /\ \A i \in 1 .. n : p[i] = m[i + 1] /\ i + 1 \in 1 .. Len(m) /\ 1 < i + 1 /\ i + 1 # 1
      /\ \A i, j \in 1 .. Len(m) : (i < j => j # 1) /\ (i # 1 /\ j # 1 => (i < j <=> i - 1 < j - 1) /\ (i - 1 = j - 1 => i = j))
      /\ \A i, j \in 1 .. n : (i < j <=> i + 1 < j + 1) /\ (i + 1 = j + 1 => i = j)
  <2>1. \A j \in 1 .. Len(m) : j = 1 \/ (j - 1 \in 1 .. n /\ (j - 1) + 1 = j)
    BY <1>1 DEF n
  <2>2. \A j \in 1 .. Len(m) : j = 1 \/ (j - 1 \in 1 .. n /\ m[j] = p[j - 1])
    BY <1>1, <2>1
  <2>3. QED
    BY <1>1, <2>2 DEF n
<1>4. Said(m) = Said(p) \cup {u}
  BY <1>1, <1>3 DEF Said
<1>5. \A k \in Nat : Answers(m, k) <=> (u.done /\ u.generation >= k) \/ Answers(p, k)
  <2>1. \A k \in Nat : Answers(m, k) <=> \E x \in Said(m) : x.done /\ x.generation >= k
    BY DEF Answers, Said
  <2>2. \A k \in Nat : Answers(p, k) <=> \E x \in Said(p) : x.done /\ x.generation >= k
    BY DEF Answers, Said
  <2>3. QED
    BY <1>4, <2>1, <2>2
<1>6. \A k \in Nat :
                /\ Closes(m, k) <=> (u.done /\ u.generation = k) \/ Closes(p, k)
                /\ EndsWithin(m, k) <=> (u.done => u.generation <= k) /\ EndsWithin(p, k)
                /\ Fails(m, k) <=> (u.done /\ u.generation >= k /\ u.says = "failed") \/ Fails(p, k)
                /\ Succeeds(m, k) <=> (u.done /\ u.generation >= k /\ u.says # "failed") \/ Succeeds(p, k)
                /\ Outdated(m, k) <=> (Word(u) /\ u.generation < k) \/ Outdated(p, k)
                /\ AbsorbedSince(m, k) <=>
                      (u.says = "absorbed" => u.done /\ u.generation >= k) /\ AbsorbedSince(p, k)
                /\ Clearing(m, k) <=>
                      (u.says \in {"ready", "failed", "released"} /\ u.generation >= k) \/ Clearing(p, k)
                /\ Missing(m, k) <=> (u.says = "uninstalled" /\ u.generation >= k) \/ Missing(p, k)
  BY <1>4 DEF Closes, EndsWithin, Fails, Succeeds, Outdated, AbsorbedSince, Clearing, Missing
<1>7. /\ HasWord(m) <=> Word(u) \/ HasWord(p)
      /\ SaysReady(m) <=> u.says = "ready" \/ SaysReady(p)
      /\ Absorbed(m) <=> u.says = "absorbed" \/ Absorbed(p)
      /\ Civil(m) <=> Civil(p) /\ (u.done => u.says \in {"failed", "absorbed", "working", "ready"})
  BY <1>4 DEF HasWord, SaysReady, Absorbed, Civil
<1>8. SaysReady(p) <=> \E i \in 1 .. n : p[i].says = "ready"
  BY <1>3 DEF SaysReady, Said
<1>16. \A i \in 1 .. n : /\ p[i] = m[i + 1]
                         /\ \A j \in 1 .. n : j > i => p[j] = m[j + 1] /\ j + 1 \in 1 .. Len(m) /\ j + 1 > i + 1
                         /\ \A j \in 1 .. Len(m) : j > i + 1 => j - 1 \in 1 .. n /\ j - 1 > i /\ p[j - 1] = m[j]
  <2>1. \A i \in 1 .. n : \A j \in 1 .. n + 1 : j > i + 1 => j - 1 \in 1 .. n /\ j - 1 > i /\ j # 1
    BY <1>1
  <2>2. QED
    BY <1>1, <1>3, <2>1
<1>9. \A k \in Nat : ReadyFirst(m, k) =>
          ReadyFirst(p, k) /\ (u.done /\ u.generation >= k => ~SaysReady(p))
  BY <1>1, <1>3, <1>8 DEF ReadyFirst
<1>10. \A k \in Nat : FailsLast(m, k) <=>
          \/ u.done /\ u.generation >= k /\ u.says = "failed" /\ ~SaysReady(p)
          \/ FailsLast(p, k)
  <2>. TAKE k \in Nat
  <2>. DEFINE Final(v, i) == /\ v[i].done /\ v[i].generation >= k /\ v[i].says = "failed"
                             /\ \A j \in 1 .. Len(v) : j > i => v[j].says # "ready"
  <2>1. ASSUME NEW i \in 1 .. n PROVE Final(p, i) <=> Final(m, i + 1)
    <3>1. p[i] = m[i + 1] /\ i + 1 \in 1 .. Len(m)
      BY <1>16, <1>3
    <3>2. (\A j \in 1 .. n : j > i => p[j].says # "ready")
          => \A j \in 1 .. Len(m) : j > i + 1 => m[j].says # "ready"
      <4>1. \A j \in 1 .. Len(m) : j > i + 1 => j - 1 \in 1 .. n /\ j - 1 > i /\ p[j - 1] = m[j]
        BY <1>16
      <4>2. QED
        BY <4>1
    <3>3. (\A j \in 1 .. Len(m) : j > i + 1 => m[j].says # "ready")
          => \A j \in 1 .. n : j > i => p[j].says # "ready"
      BY <1>16
    <3>4. QED
      BY <1>3, <3>1, <3>2, <3>3
  <2>2. Final(m, 1) <=> u.done /\ u.generation >= k /\ u.says = "failed" /\ ~SaysReady(p)
    BY <1>1, <1>3, <1>8
  <2>. HIDE DEF Final
  <2>3. (\E i \in 1 .. Len(m) : Final(m, i)) <=> Final(m, 1) \/ \E i \in 1 .. n : Final(p, i)
    <3>1. \A i \in 1 .. Len(m) : Final(m, i) => i = 1 \/ (i - 1 \in 1 .. n /\ Final(p, i - 1))
      BY <1>1, <1>3, <2>1
    <3>2. QED
      BY <1>3, <2>1, <3>1
  <2>4. FailsLast(m, k) <=> \E i \in 1 .. Len(m) : Final(m, i)
    BY DEF FailsLast, Final
  <2>5. FailsLast(p, k) <=> \E i \in 1 .. n : Final(p, i)
    BY <1>3 DEF FailsLast, Final
  <2>6. QED
    BY <2>2, <2>3, <2>4, <2>5
<1>11. WordsFollow(m) => WordsFollow(p)
  BY <1>1, <1>3 DEF WordsFollow
<1>12. WordsFollow(m) /\ u.done => \A k \in Nat : k <= u.generation => ~Outdated(p, k)
  <2>1. \A x \in Said(p) : \E i \in 1 .. n : x = p[i]
    BY <1>3 DEF Said
  <2>2. WordsFollow(m) /\ u.done => \A i \in 1 .. n : Word(p[i]) => p[i].generation >= u.generation
    BY <1>1, <1>3 DEF WordsFollow
  <2>3. QED
    BY <1>2, <2>1, <2>2 DEF Outdated
<1>13. (Lone(m) => Lone(p)) /\ (Lone(m) /\ u.done => \A k \in Nat : ~Answers(p, k))
  BY <1>1, <1>3 DEF Lone, Answers
<1>14. /\ EndsReady(m) <=> EndsReady(p) \/ (u.says = "ready" /\ NeverFails(p))
       /\ NeverFails(m) <=> u.says # "failed" /\ NeverFails(p)
  <2>. DEFINE Final(v, i) == v[i].says = "ready" /\ \A j \in 1 .. Len(v) : j > i => v[j].says # "failed"
  <2>1. ASSUME NEW i \in 1 .. n PROVE Final(p, i) <=> Final(m, i + 1)
    <3>1. p[i] = m[i + 1] /\ i + 1 \in 1 .. Len(m)
      BY <1>16, <1>3
    <3>2. (\A j \in 1 .. n : j > i => p[j].says # "failed")
          => \A j \in 1 .. Len(m) : j > i + 1 => m[j].says # "failed"
      <4>1. \A j \in 1 .. Len(m) : j > i + 1 => j - 1 \in 1 .. n /\ j - 1 > i /\ p[j - 1] = m[j]
        BY <1>16
      <4>2. QED
        BY <4>1
    <3>3. (\A j \in 1 .. Len(m) : j > i + 1 => m[j].says # "failed")
          => \A j \in 1 .. n : j > i => p[j].says # "failed"
      BY <1>16
    <3>4. QED
      BY <1>3, <3>1, <3>2, <3>3
  <2>2. NeverFails(m) <=> u.says # "failed" /\ NeverFails(p)
    BY <1>4 DEF NeverFails
  <2>3. NeverFails(p) <=> \A i \in 1 .. n : p[i].says # "failed"
    BY <1>3 DEF NeverFails, Said
  <2>4. Final(m, 1) <=> u.says = "ready" /\ NeverFails(p)
    <3>1. NeverFails(p) => \A j \in 1 .. Len(m) : j > 1 => m[j].says # "failed"
      BY <1>1, <1>3, <2>3
    <3>2. (\A j \in 1 .. Len(m) : j > 1 => m[j].says # "failed") => NeverFails(p)
      BY <1>1, <1>3, <2>3
    <3>3. QED
      BY <1>1, <3>1, <3>2
  <2>. HIDE DEF Final
  <2>5. (\E i \in 1 .. Len(m) : Final(m, i)) <=> Final(m, 1) \/ \E i \in 1 .. n : Final(p, i)
    <3>1. \A i \in 1 .. Len(m) : Final(m, i) => i = 1 \/ (i - 1 \in 1 .. n /\ Final(p, i - 1))
      BY <1>1, <1>3, <2>1
    <3>2. QED
      BY <1>3, <2>1, <3>1
  <2>6. EndsReady(m) <=> \E i \in 1 .. Len(m) : Final(m, i)
    BY DEF EndsReady, Final
  <2>7. EndsReady(p) <=> \E i \in 1 .. n : Final(p, i)
    BY <1>3 DEF EndsReady, Final
  <2>8. QED
    BY <2>2, <2>4, <2>5, <2>6, <2>7
<1>15. QED
  BY <1>1, <1>5, <1>6, <1>7, <1>9, <1>10, <1>11, <1>12, <1>13, <1>14 DEF m, p, Dropping

\* How these are related.
Relations(m) ==
    /\ \A k \in Nat :
         /\ Closes(m, k) => Answers(m, k)
         /\ FailsLast(m, k) => Fails(m, k) /\ ~EndsReady(m) /\ ~NeverFails(m)
         /\ Fails(m, k) => Answers(m, k) /\ Clearing(m, k)
         /\ Fails(m, k) /\ ReadyFirst(m, k) => FailsLast(m, k)
         /\ Answers(m, k) => Fails(m, k) \/ Succeeds(m, k)
         /\ Succeeds(m, k) => Answers(m, k) /\ Answers(m, 0)
         /\ Answers(m, k) => Answers(m, 0)
         /\ ~Answers(m, k) => ReadyFirst(m, k)
         /\ ~SaysReady(m) => ReadyFirst(m, k)
         /\ Within(m, k) => EndsWithin(m, k)
         /\ Absorbed(m) /\ AbsorbedSince(m, k) => Succeeds(m, k)
         /\ ~Absorbed(m) => AbsorbedSince(m, k)
    /\ \A k, n \in Nat : k <= n =>
         /\ ReadyFirst(m, k) => ReadyFirst(m, n)
         /\ Succeeds(m, n) => Succeeds(m, k)
         /\ EndsWithin(m, k) => EndsWithin(m, n)
         /\ Outdated(m, k) => Outdated(m, n)
    /\ \A k, n \in Nat : k < n => /\ Within(m, k) => ~Answers(m, n)
                                  /\ EndsWithin(m, k) => ~Answers(m, n)
    /\ EndsReady(m) => SaysReady(m)
    /\ SaysReady(m) => HasWord(m)
    /\ HasWord(m) => EndsReady(m) \/ ~NeverFails(m)
    /\ m = <<>> =>
         /\ ~HasWord(m) /\ ~SaysReady(m) /\ ~Absorbed(m) /\ Civil(m)
         /\ Lone(m) /\ WordsFollow(m)
         /\ ~EndsReady(m) /\ NeverFails(m)
         /\ \A k \in Nat : /\ ~Answers(m, k) /\ ~Outdated(m, k) /\ ~Clearing(m, k)
                           /\ ~Missing(m, k) /\ EndsWithin(m, k)
LEMMA Related == ASSUME NEW m \in Seq(Updates) PROVE Relations(m)
<1>1. Len(m) \in Nat /\ \A i \in 1 .. Len(m) : m[i].generation \in Nat
  <2>1. \A i \in 1 .. Len(m) : m[i] \in Updates
    OBVIOUS
  <2>2. QED
    BY <2>1 DEF Updates
<1>2. \A k \in Nat :
                /\ Closes(m, k) => Answers(m, k)
                /\ FailsLast(m, k) => Fails(m, k)
                /\ Fails(m, k) => Answers(m, k) /\ Clearing(m, k)
                /\ Answers(m, k) => Fails(m, k) \/ Succeeds(m, k)
                /\ Succeeds(m, k) => Answers(m, k) /\ Answers(m, 0)
                /\ Answers(m, k) => Answers(m, 0)
                /\ Within(m, k) => EndsWithin(m, k)
                /\ Absorbed(m) /\ AbsorbedSince(m, k) => Succeeds(m, k)
                /\ ~Absorbed(m) => AbsorbedSince(m, k)
  BY <1>1 DEF Closes, Answers, FailsLast, Fails, Clearing, Succeeds, Within, EndsWithin, Absorbed, AbsorbedSince, Said
<1>3. \A k \in Nat :
                /\ Fails(m, k) /\ ReadyFirst(m, k) => FailsLast(m, k)
                /\ ~Answers(m, k) => ReadyFirst(m, k)
                /\ ~SaysReady(m) => ReadyFirst(m, k)
  BY <1>1 DEF Fails, ReadyFirst, FailsLast, Answers, SaysReady, Said
<1>4. \A k \in Nat : FailsLast(m, k) => ~EndsReady(m) /\ ~NeverFails(m)
  <2>1. \A i, j \in 1 .. Len(m) : i = j \/ i < j \/ j < i
    BY <1>1
  <2>2. QED
    BY <1>1, <2>1 DEF FailsLast, EndsReady, NeverFails, Said
<1>5. \A k, n \in Nat : k <= n =>
                /\ ReadyFirst(m, k) => ReadyFirst(m, n)
                /\ Succeeds(m, n) => Succeeds(m, k)
                /\ EndsWithin(m, k) => EndsWithin(m, n)
                /\ Outdated(m, k) => Outdated(m, n)
  BY <1>1 DEF ReadyFirst, Succeeds, EndsWithin, Outdated, Said
<1>6. \A k, n \in Nat : k < n => /\ Within(m, k) => ~Answers(m, n)
                                 /\ EndsWithin(m, k) => ~Answers(m, n)
  BY <1>1 DEF Within, Answers, EndsWithin, Said
<1>7. (EndsReady(m) => SaysReady(m)) /\ (SaysReady(m) => HasWord(m))
  BY <1>1 DEF EndsReady, SaysReady, HasWord, Word, Said
<1>8. HasWord(m) => EndsReady(m) \/ ~NeverFails(m)
  BY <1>1 DEF HasWord, EndsReady, NeverFails, Word, Said
<1>9. m = <<>> =>
                /\ ~HasWord(m) /\ ~SaysReady(m) /\ ~Absorbed(m) /\ Civil(m)
                /\ Lone(m) /\ WordsFollow(m)
                /\ ~EndsReady(m) /\ NeverFails(m)
                /\ \A k \in Nat : /\ ~Answers(m, k) /\ ~Outdated(m, k) /\ ~Clearing(m, k)
                                  /\ ~Missing(m, k) /\ EndsWithin(m, k)
  BY DEF HasWord, SaysReady, Absorbed, Civil, Lone, WordsFollow, EndsReady, NeverFails, Answers, Outdated, Clearing, Missing, EndsWithin, Said
<1>10. QED
  BY <1>2, <1>3, <1>4, <1>5, <1>6, <1>7, <1>8, <1>9 DEF Relations
-----------------------------------------------------------------------------
(* What the window shows.                                                  *)

Erasing   == Removing \ {"remove"}
Ending    == Removing \cup {"condemned"}
StartUp   == {"checks", "verify", "load"}
Consented == {"fetch", "bench", "benched", "marking", "marked", "unmarking", "undo", "leftover"}
\* None of the exceptions of ShowsTheTruth that concern the whole window.
Live  == ~ghost.crossed /\ ~shared.closed
Sharp == Live /\ ~ghost.overtaken
\* No save has overtaken another one and none that is under way will; and what is removed
\* stays removed whatever is saved.
SavingNow == saving.slot \notin {"none", "drain"}
Virgin    == ~ghost.overtaken /\ (SavingNow => saving.base = record)
Locked    == record.cleanup /\ (SavingNow => saving.base.cleanup)

\* The window is busy only while somebody is going to end that: a setup, a removal, or a
\* message under way that will be heard.
Occupied ==
    /\ Civil(mailbox)
    /\ Live /\ gui.busy =>
        /\ \/ Setting \/ shared.removing \/ Answers(mailbox, shared.removal)
           \/ worker.pc \in Ending
        /\ worker.pc \in (Installing \ {"install"}) \cup Erasing =>
              \/ worker.gen >= shared.removal \/ shared.removing
              \/ Answers(mailbox, shared.removal) \/ shared.setup
        /\ worker.pc = "unrequest" /\ shared.removing /\ shared.removal = worker.gen =>
              Answers(mailbox, shared.removal) \/ shared.setup
\* A job older than the last removal that was asked for: that one has not ended.
Behind ==
    worker.pc \in Erasing \cup {"unrequest", "resume"} \cup StartUp /\ worker.gen < shared.removal =>
        shared.removing /\ ~Closes(mailbox, shared.removal)
\* The first start goes on with what it found on the disk: no save has changed that, or
\* there is nothing left to load.
AtFirst ==
    worker.startup = "first" =>
        /\ worker.pc \in {"start", "load", "loaded", "absorb"} => Virgin
        /\ worker.pc \in {"checks", "verify"} => Virgin \/ disk.assets = {}
        /\ worker.pc \in {"condemned", "remove", "entombing", "clear", "unlink"} => Locked
        /\ worker.pc = "resume" => disk.assets = {} \/ Locked
\* What is pressed while the window says that it is checking is pressed for nothing, unless
\* detection is to be switched as well.
Pressed ==
    /\ worker.pc = "absorb" => worker.startup = "first"
    /\ worker.startup = "first" /\ shared.setup /\ gui.checking
       /\ worker.pc \in Ending \cup StartUp \cup {"start", "resume", "loaded", "absorb"} =>
          shared.load \/ shared.release
    /\ gui.checking /\ shared.cancel
       /\ (\/ worker.pc \in {"start", "condemned", "checks", "resume"}
           \/ worker.pc \in Removing /\ worker.startup # "no") =>
          shared.load \/ shared.release
\* While the window says that it is checking, something is going to be reported.
Reported ==
    gui.checking /\ ~ghost.missed =>
        /\ worker.pc \in {"unrequest", "resume"} /\ worker.gen >= shared.removal =>
              shared.load \/ shared.release \/ Fails(mailbox, shared.removal)
        /\ Live /\ ~gui.busy =>
              \/ shared.load \/ shared.release \/ shared.removing
              \/ worker.pc \in {"start", "loaded"} \cup StartUp \cup Ending
              \/ Clearing(mailbox, shared.removal) \/ Missing(mailbox, shared.removal)
        /\ Live /\ Absorbed(mailbox) =>
              \/ shared.load \/ shared.release
              \/ worker.pc \in {"start", "loaded"} \cup StartUp \/ Clearing(mailbox, shared.removal)
\* A setup is absorbed by a model that was loaded from the record as it is.
AbsorbedOnce ==
    Live /\ Absorbed(mailbox) =>
        Virgin /\ AbsorbedSince(mailbox, shared.removal) /\ record.version
\* A setup has no removal next to it, and has written what it says.
InstallsAlone ==
    Sharp => /\ worker.pc \in Installing => ~shared.removing /\ ~record.cleanup
             /\ worker.pc = "marked" => record.version
\* A removal that was asked for has the tombstone, and the window shows that.
Condemning ==
    Sharp => /\ shared.removing => ~record.version /\ gui.busy
             /\ worker.pc \in Ending /\ record.version => record.cleanup
\* A tombstone that does not take the version back is of a setup that failed; nothing
\* looks ready then.
Buried ==
    Sharp /\ record.version /\ record.cleanup =>
        /\ ~gui.ready /\ ~SaysReady(mailbox)
        /\ worker.pc \notin StartUp \cup {"loaded"}
\* No end of a job is younger than the job that is under way, and the end of the last
\* removal is sent before it is forgotten that it was asked for.
InOrder ==
    Sharp => /\ shared.removing \/ worker.pc = "remove" => EndsWithin(mailbox, shared.removal)
             /\ worker.pc \in Erasing \cup StartUp \cup {"resume", "condemned"}
                              \cup (Installing \ {"install"}) =>
                   EndsWithin(mailbox, worker.gen)
             /\ WordsFollow(mailbox)
             /\ worker.pc = "unrequest" /\ shared.removing /\ shared.removal = worker.gen =>
                   Closes(mailbox, shared.removal)
\* A job that ended without a failure is the only one, until that is heard.
OneSuccess ==
    Sharp /\ Succeeds(mailbox, shared.removal) =>
        /\ gui.busy /\ ~shared.removing /\ saving.slot # "remove" /\ ~record.cleanup
        /\ worker.pc \notin Ending /\ ~Setting /\ Lone(mailbox)
\* Nothing is ready after a removal.
EndsUnready ==
    Sharp => /\ ~record.version => ReadyFirst(mailbox, shared.removal)
             /\ worker.pc = "condemned" => /\ ReadyFirst(mailbox, worker.gen)
                                           /\ ~Succeeds(mailbox, worker.gen)
\* A model that is loaded although nothing is installed goes away with the removal or the
\* setup that is under way; one that is loaded although detection is off with a release.
ModelGoes ==
    /\ worker.pc \in {"loaded", "absorb"} => worker.model
    /\ worker.pc = "leftover" => ~worker.model
    /\ Sharp /\ ~record.version /\ (worker.model \/ worker.pc \in {"verify", "load"}) =>
          \/ worker.pc \in Consented \cup {"condemned", "remove"}
          \/ shared.removing /\ ~Answers(mailbox, shared.removal)
    /\ Sharp /\ ~record.enabled /\ (worker.model \/ worker.pc \in {"verify", "load"}) =>
          shared.release \/ worker.pc \in {"benched", "marking", "marked", "unmarking", "undo"}
    /\ Sharp /\ shared.release => ~record.enabled
\* What looks ready although nothing is installed is going to be corrected.
ReadyGoes ==
    Sharp /\ ~record.version /\ (gui.ready \/ SaysReady(mailbox)) =>
        /\ gui.busy
        /\ \/ worker.pc \in Consented \cup Ending \/ shared.removing
           \/ FailsLast(mailbox, shared.removal)
\* A word that will not be heard is followed by the end of the removal that is why.
WordsDated ==
    /\ worker.pc \in Erasing => worker.gen <= shared.removal
    /\ Sharp /\ worker.pc \in Erasing \cup StartUp \cup {"resume"} /\ record.version =>
          worker.gen >= shared.removal
    /\ Sharp /\ Outdated(mailbox, shared.removal) =>
          /\ shared.removing \/ worker.pc \in Ending \/ FailsLast(mailbox, shared.removal)
          /\ ~record.version \/ record.cleanup
\* When the worker has nothing to say about it, the last word that is under way, or the
\* last one that was heard, is true of the model.
Resting == {"idle", "absorb", "infer", "detect", "install", "consent", "consenting", "fetch",
            "unrequest", "resume"}
LastWord == EndsReady(mailbox) \/ (gui.ready /\ NeverFails(mailbox))
WordIsTrue ==
    Sharp /\ ~ghost.mute /\ ~shared.load /\ ~shared.release
        /\ (shared.removing => Closes(mailbox, shared.removal))
        /\ worker.pc \in Resting /\ (HasWord(mailbox) \/ ~ghost.missed) =>
        (worker.model <=> LastWord /\ record.enabled)

WInv ==
    /\ Occupied /\ Behind /\ AtFirst /\ Pressed /\ Reported /\ AbsorbedOnce /\ InstallsAlone
    /\ Condemning /\ Buried /\ InOrder /\ OneSuccess /\ EndsUnready /\ ModelGoes /\ ReadyGoes
    /\ WordsDated /\ WordIsTrue


\* How a message u is heard: not at all, or it only shows that a reset made it stale, or the
\* window shows it.
Ignored(u) ==
    /\ \/ u.says = "result" \/ u.generation < shared.removal \/ (gui.busy /\ u.says = "uninstalled")
       \/ shared.removing /\ u.generation = shared.removal /\ ~u.done
    /\ gui'.ready = gui.ready /\ gui'.busy = gui.busy /\ gui'.checking = gui.checking
    /\ shared'.removing = shared.removing /\ ghost'.missed = ghost.missed
Dismissed(u) ==
    /\ u.says # "result" /\ u.generation >= shared.removal /\ ~gui.busy /\ u.generation # shared.generation
    /\ gui'.ready = gui.ready /\ gui'.busy = gui.busy /\ gui'.checking = gui.checking
    /\ shared'.removing = shared.removing /\ (ghost'.missed <=> ghost.missed \/ u.says # "working")
Shown(u) ==
    /\ u.says # "result" /\ u.generation >= shared.removal
    /\ gui.busy \/ u.generation = shared.generation
    /\ ~(gui.busy /\ u.says = "uninstalled")
    /\ ~(shared.removing /\ u.generation = shared.removal /\ ~u.done)
    /\ gui'.ready <=> u.says = "ready" \/ (gui.ready /\ u.says # "failed")
    /\ gui'.busy <=> gui.busy /\ ~u.done
    /\ gui'.checking <=> gui.checking /\ u.says = "absorbed"
    /\ shared'.removing <=> shared.removing /\ u.generation # shared.removal
    /\ ghost'.missed <=> ghost.missed /\ ~Word(u)
LEMMA Heard ==
    ASSUME TypeOK, Drain, NEW u, u = Head(mailbox)
    PROVE  Ignored(u) \/ Dismissed(u) \/ Shown(u)
<1>. DEFINE h == Hears(View, u)
<1>1. u \in Updates /\ View \in Views /\ shared \in Shared /\ ghost \in Ghost
  BY TailType, Typing DEF Drain, View, Views, TypeOK
<1>2. /\ gui'.ready = h.ready /\ gui'.busy = h.busy /\ gui'.checking = h.checking
      /\ shared'.removing = h.removing /\ ghost'.missed = h.missed
  BY <1>1 DEF Drain, View, Shared, Ghost
<1>3. /\ View.ready = gui.ready /\ View.busy = gui.busy /\ View.checking = gui.checking
      /\ View.removing = shared.removing /\ View.missed = ghost.missed
  BY DEF View
<1>4. u.generation \in Nat /\ shared.removal \in Nat
  BY <1>1, Fields DEF Updates
<1>5. CASE u.says = "result" \/ Outlived(u) \/ (~Retires(View, u) /\ Unfinished(View, u))
  <2>1. /\ h.ready = View.ready /\ h.busy = View.busy /\ h.checking = View.checking
        /\ h.removing = View.removing /\ h.missed = View.missed
    BY <1>1, <1>5 DEF Hears, Views
  <2>2. QED
    BY <1>2, <1>3, <1>5, <2>1 DEF Ignored, Outlived, Unfinished
<1>6. CASE u.says # "result" /\ ~Outlived(u) /\ Retires(View, u)
  <2>1. /\ h.ready = View.ready /\ h.busy = View.busy /\ h.checking = View.checking
        /\ h.removing = View.removing /\ (h.missed <=> View.missed \/ u.says # "working")
    BY <1>1, <1>6 DEF Hears, Views
  <2>2. QED
    BY <1>2, <1>3, <1>4, <1>6, <2>1 DEF Dismissed, Outlived, Retires
<1>7. CASE u.says # "result" /\ ~Outlived(u) /\ ~Retires(View, u) /\ ~Unfinished(View, u)
  <2>1. h = Told(View, u)
    BY <1>7 DEF Hears
  <2>2. /\ h.ready <=> u.says = "ready" \/ (View.ready /\ u.says # "failed")
        /\ h.busy <=> View.busy /\ ~u.done
        /\ h.checking <=> View.checking /\ u.says = "absorbed"
        /\ h.removing <=> View.removing /\ u.generation # shared.removal
        /\ h.missed <=> View.missed /\ ~Word(u)
    BY <1>1, <2>1 DEF Told, Views, Word
  <2>3. QED
    BY <1>2, <1>3, <1>4, <1>7, <2>2 DEF Shown, Outlived, Retires, Unfinished
<1>8. QED
  BY <1>5, <1>6, <1>7
\* One lemma for each action: what it changes of what WInv speaks about, the message it
\* sends, and then the conjuncts of WInv, together where each follows from the old ones
\* alone.
LEMMA SetUpShows ==
    ASSUME TypeOK, TypeOK', IInv, IInv', WInv, SetUp PROVE WInv'
<1>1. shared \in Shared /\ worker \in Worker /\ disk \in Disk /\ ghost \in Ghost /\ record \in Records
  BY Typing
<1>2. /\ UNCHANGED <<record, disk, mailbox, saving, worker>>
      /\ saving.slot = "none" /\ ~shared.closed /\ ~shared.removing /\ ~record.cleanup /\ ~gui.busy /\ ~gui.ready
      /\ shared'.removal = shared.removal /\ ~shared'.cancel /\ shared'.closed = shared.closed
      /\ shared'.removing = shared.removing /\ shared'.setup /\ shared'.load = shared.load
      /\ shared'.release = shared.release
      /\ gui'.ready = gui.ready /\ gui'.busy /\ ~gui'.checking /\ ghost'.missed = ghost.missed
      /\ ghost'.mute = ghost.mute /\ ghost'.overtaken = ghost.overtaken
      /\ ghost'.crossed <=> \/ ghost.crossed \/ worker.pc \in Removing
                            \/ \E i \in DOMAIN mailbox : mailbox[i].done
  BY <1>1, Typing DEF SetUp, Gui, Shared, Ghost
<1>3. ~ghost'.crossed => /\ ~ghost.crossed /\ worker.pc \notin Removing
                         /\ \A k \in Nat : ~Answers(mailbox, k)
  BY <1>2 DEF Answers
<1>4. /\ Occupied' /\ Behind' /\ AtFirst' /\ Pressed' /\ Reported' /\ AbsorbedOnce'
      /\ InstallsAlone' /\ Condemning' /\ Buried' /\ InOrder' /\ OneSuccess' /\ EndsUnready'
      /\ ModelGoes' /\ ReadyGoes' /\ WordsDated' /\ WordIsTrue'
  BY <1>2, <1>3, Fields DEF WInv, Occupied, Behind, AtFirst, Pressed, Reported, AbsorbedOnce,
      InstallsAlone, Condemning, Buried, InOrder, OneSuccess, EndsUnready, ModelGoes, ReadyGoes,
      WordsDated, WordIsTrue, Live, Sharp, SavingNow, Virgin, Locked, Setting, Installing,
      Erasing, Removing, Ending, StartUp, Consented, Resting, LastWord
<1>5. QED
  BY <1>4 DEF WInv

LEMMA CancelShows ==
    ASSUME TypeOK, TypeOK', IInv, IInv', WInv, Cancel PROVE WInv'
<1>1. shared \in Shared /\ worker \in Worker /\ disk \in Disk /\ ghost \in Ghost /\ record \in Records
  BY Typing
<1>2. /\ UNCHANGED <<record, disk, mailbox, saving, worker, ghost>>
      /\ gui.busy /\ ~shared.removing /\ shared'.removal = shared.removal /\ shared'.cancel
      /\ shared'.closed = shared.closed /\ shared'.removing = shared.removing
      /\ shared'.setup = shared.setup /\ shared'.load = shared.load
      /\ shared'.release = shared.release
      /\ gui'.ready = gui.ready /\ gui'.busy = gui.busy /\ ~gui'.checking
  BY <1>1, Typing DEF Cancel, Gui, Shared
<1>3. /\ Occupied' /\ Behind' /\ AtFirst' /\ Pressed' /\ Reported' /\ AbsorbedOnce'
      /\ InstallsAlone' /\ Condemning' /\ Buried' /\ InOrder' /\ OneSuccess' /\ EndsUnready'
      /\ ModelGoes' /\ ReadyGoes' /\ WordsDated' /\ WordIsTrue'
  BY <1>2, Fields DEF WInv, Occupied, Behind, AtFirst, Pressed, Reported, AbsorbedOnce,
      InstallsAlone, Condemning, Buried, InOrder, OneSuccess, EndsUnready, ModelGoes, ReadyGoes,
      WordsDated, WordIsTrue, Live, Sharp, SavingNow, Virgin, Locked, Setting, Installing,
      Erasing, Removing, Ending, StartUp, Consented, Resting, LastWord
<1>4. QED
  BY <1>3 DEF WInv

LEMMA SavesShows ==
    ASSUME TypeOK, TypeOK', IInv, IInv', WInv, Saves PROVE WInv'
<1>1. shared \in Shared /\ worker \in Worker /\ disk \in Disk /\ ghost \in Ghost /\ record \in Records
  BY Typing
<1>2. /\ UNCHANGED <<record, disk, gui, shared, mailbox, worker, ghost>> /\ saving.slot = "none"
      /\ saving'.base = record
      /\ saving'.slot = "remove" => ~gui.busy
  BY <1>1, Typing DEF Saves, Gui, MaySave
<1>3. /\ Occupied' /\ Behind' /\ AtFirst' /\ Pressed' /\ Reported' /\ AbsorbedOnce'
      /\ InstallsAlone' /\ Condemning' /\ Buried' /\ InOrder' /\ OneSuccess' /\ EndsUnready'
      /\ ModelGoes' /\ ReadyGoes' /\ WordsDated' /\ WordIsTrue'
  BY <1>2, Fields DEF WInv, Occupied, Behind, AtFirst, Pressed, Reported, AbsorbedOnce,
      InstallsAlone, Condemning, Buried, InOrder, OneSuccess, EndsUnready, ModelGoes, ReadyGoes,
      WordsDated, WordIsTrue, Live, Sharp, SavingNow, Virgin, Locked, Setting, Installing,
      Erasing, Removing, Ending, StartUp, Consented, Resting, LastWord
<1>4. QED
  BY <1>3 DEF WInv

LEMMA SaveFailsShows ==
    ASSUME TypeOK, TypeOK', IInv, IInv', WInv, SaveFails PROVE WInv'
<1>1. shared \in Shared /\ worker \in Worker /\ disk \in Disk /\ ghost \in Ghost /\ record \in Records
  BY Typing
<1>2. /\ UNCHANGED <<record, disk, gui, shared, mailbox, worker, ghost>>
      /\ saving'.slot = "none"
  BY <1>1, Typing DEF SaveFails
<1>3. /\ Occupied' /\ Behind' /\ AtFirst' /\ Pressed' /\ Reported' /\ AbsorbedOnce'
      /\ InstallsAlone' /\ Condemning' /\ Buried' /\ InOrder' /\ OneSuccess' /\ EndsUnready'
      /\ ModelGoes' /\ ReadyGoes' /\ WordsDated' /\ WordIsTrue'
  BY <1>2, Fields DEF WInv, Occupied, Behind, AtFirst, Pressed, Reported, AbsorbedOnce,
      InstallsAlone, Condemning, Buried, InOrder, OneSuccess, EndsUnready, ModelGoes, ReadyGoes,
      WordsDated, WordIsTrue, Live, Sharp, SavingNow, Virgin, Locked, Setting, Installing,
      Erasing, Removing, Ending, StartUp, Consented, Resting, LastWord
<1>4. QED
  BY <1>3 DEF WInv

LEMMA EnablesShows ==
    ASSUME TypeOK, TypeOK', IInv, IInv', WInv, NEW enabled \in BOOLEAN, Enables(enabled) PROVE WInv'
<1>1. shared \in Shared /\ worker \in Worker /\ disk \in Disk /\ ghost \in Ghost /\ record \in Records
  BY Typing
<1>2. /\ UNCHANGED <<mailbox, worker>> /\ saving.slot \in {"enable", "disable"}
      /\ saving'.slot = "none" /\ record'.version = saving.base.version
      /\ record'.cleanup = saving.base.cleanup /\ record'.enabled = enabled
      /\ disk'.assets = disk.assets
      /\ ghost'.overtaken <=> ghost.overtaken \/ saving.base # record
      /\ ghost'.missed = ghost.missed /\ ghost'.mute = ghost.mute
      /\ ghost'.crossed = ghost.crossed /\ shared'.removal = shared.removal
      /\ shared'.cancel = shared.cancel /\ shared'.closed = shared.closed
      /\ shared'.removing = shared.removing /\ shared'.setup = shared.setup
      /\ shared'.load = enabled /\ shared'.release = ~enabled
      /\ gui'.ready <=> gui.ready /\ ~enabled
      /\ gui'.busy = gui.busy
      /\ gui'.checking <=> gui.checking \/ enabled
  BY <1>1, Typing DEF Enables, Persisted, Switched, Retired, Shared, Ghost, Records, Disk
<1>3. Occupied' /\ Behind'
  BY <1>2, Fields DEF WInv, Occupied, Behind, Live, Setting, Installing, Erasing, Removing,
      Ending, StartUp
<1>4. AtFirst' /\ Pressed'
  BY <1>2, Fields DEF WInv, AtFirst, Pressed, SavingNow, Virgin, Locked, Removing, Ending, StartUp
<1>5. Reported' /\ AbsorbedOnce' /\ InstallsAlone' /\ Condemning'
  BY <1>2, Fields DEF WInv, Reported, AbsorbedOnce, InstallsAlone, Condemning, Live, Sharp,
      SavingNow, Virgin, Installing, Removing, Ending, StartUp
<1>6. Buried' /\ InOrder' /\ OneSuccess' /\ EndsUnready'
  BY <1>2, Fields DEF WInv, Buried, InOrder, OneSuccess, EndsUnready, Live, Sharp, Setting,
      Installing, Erasing, Removing, Ending, StartUp
<1>7. ModelGoes' /\ ReadyGoes'
  BY <1>2, Fields DEF WInv, ModelGoes, ReadyGoes, Live, Sharp, Removing, Ending, Consented
<1>8. WordsDated' /\ WordIsTrue'
  BY <1>2, Fields DEF WInv, WordsDated, WordIsTrue, Live, Sharp, Erasing, Removing, Ending,
      StartUp, Resting, LastWord
<1>9. QED
  BY <1>3, <1>4, <1>5, <1>6, <1>7, <1>8 DEF WInv

LEMMA RemovesAssetsShows ==
    ASSUME TypeOK, TypeOK', IInv, IInv', WInv, RemovesAssets PROVE WInv'
<1>1. shared \in Shared /\ worker \in Worker /\ disk \in Disk /\ ghost \in Ghost /\ record \in Records
  BY Typing
<1>2. /\ UNCHANGED <<mailbox, worker>> /\ saving.slot = "remove" /\ saving'.slot = "none"
      /\ ~record'.version /\ record'.cleanup /\ record'.enabled = saving.base.enabled
      /\ disk'.assets = disk.assets
      /\ ghost'.overtaken <=> ghost.overtaken \/ saving.base # record
      /\ ghost'.missed = ghost.missed /\ ghost'.mute = ghost.mute
      /\ ghost'.crossed = ghost.crossed /\ shared'.removal = shared.generation + 1
      /\ ~shared'.cancel /\ shared'.closed = shared.closed /\ shared'.removing
      /\ shared'.setup = shared.setup /\ shared'.load = shared.load
      /\ shared'.release = shared.release /\ ~gui'.ready /\ gui'.busy /\ ~gui'.checking
  BY <1>1, Typing DEF RemovesAssets, Tombstone, Removal, Retired, Shared, Ghost, Records, Disk
<1>3. /\ ~Answers(mailbox, shared.generation + 1) /\ EndsWithin(mailbox, shared.generation + 1)
      /\ shared.removal <= shared.generation /\ worker.gen <= shared.generation
  <2>1. Within(mailbox, shared.generation) /\ Within(mailbox, shared.generation + 1)
    BY Aged, Fields DEF IInv, Dated
  <2>2. Relations(mailbox)
    BY Related, Typing
  <2>3. QED
    BY <2>1, <2>2, Fields DEF Relations, IInv, Dated
<1>4. Relations(mailbox) /\ Relations(mailbox')
  BY Related DEF TypeOK
<1>5. /\ Occupied' /\ AtFirst' /\ Pressed' /\ Reported' /\ Condemning' /\ Buried' /\ InOrder'
      /\ ModelGoes' /\ ReadyGoes' /\ WordsDated'
  BY <1>2, <1>3, Fields DEF WInv, Occupied, AtFirst, Pressed, Reported, Condemning, Buried,
      InOrder, ModelGoes, ReadyGoes, WordsDated, Live, Sharp, SavingNow, Virgin, Locked, Setting,
      Installing, Erasing, Removing, Ending, StartUp, Consented
<1>6. Behind'
  BY <1>2, <1>3, <1>4, Fields DEF WInv, Behind, Erasing, Removing, StartUp, Relations
<1>7. AbsorbedOnce'
  BY <1>2, <1>3, <1>4, Fields DEF WInv, AbsorbedOnce, OneSuccess, Live, Sharp, SavingNow, Virgin,
      Setting, Installing, Removing, Ending, Relations
<1>8. InstallsAlone'
  BY <1>2, <1>3, Fields DEF WInv, InstallsAlone, IInv, SettingUp, Live, Sharp, Setting,
      Installing, Removing
<1>9. OneSuccess'
  BY <1>2, <1>3, <1>4, Fields DEF WInv, OneSuccess, Live, Sharp, Setting, Installing, Removing,
      Ending, Relations
<1>10. EndsUnready'
  BY <1>2, <1>3, <1>4, Fields DEF WInv, EndsUnready, Live, Sharp, Relations
<1>11. WordIsTrue'
  BY <1>2, <1>3, <1>4, Fields DEF WInv, WordIsTrue, Live, Sharp, Resting, LastWord, Relations
<1>12. QED
  BY <1>5, <1>6, <1>7, <1>8, <1>9, <1>10, <1>11 DEF WInv

LEMMA OffersShows ==
    ASSUME TypeOK, TypeOK', IInv, IInv', WInv, Offers PROVE WInv'
<1>1. shared \in Shared /\ worker \in Worker /\ disk \in Disk /\ ghost \in Ghost /\ record \in Records
  BY Typing
<1>2. /\ UNCHANGED <<gui, shared, mailbox, worker>> /\ saving.slot = "offer"
      /\ saving'.slot = "none" /\ record' = saving.base /\ disk'.assets = disk.assets
      /\ ghost'.overtaken <=> ghost.overtaken \/ saving.base # record
      /\ ghost'.missed = ghost.missed /\ ghost'.mute = ghost.mute
      /\ ghost'.crossed = ghost.crossed
  BY <1>1, Typing DEF Offers, Persisted, Ghost, Disk
<1>3. /\ Occupied' /\ Behind' /\ AtFirst' /\ Pressed' /\ Reported' /\ AbsorbedOnce'
      /\ InstallsAlone' /\ Condemning' /\ Buried' /\ InOrder' /\ OneSuccess' /\ EndsUnready'
      /\ ModelGoes' /\ ReadyGoes' /\ WordsDated' /\ WordIsTrue'
  BY <1>2, Fields DEF WInv, Occupied, Behind, AtFirst, Pressed, Reported, AbsorbedOnce,
      InstallsAlone, Condemning, Buried, InOrder, OneSuccess, EndsUnready, ModelGoes, ReadyGoes,
      WordsDated, WordIsTrue, Live, Sharp, SavingNow, Virgin, Locked, Setting, Installing,
      Erasing, Removing, Ending, StartUp, Consented, Resting, LastWord
<1>4. QED
  BY <1>3 DEF WInv

LEMMA SampleShows ==
    ASSUME TypeOK, TypeOK', IInv, IInv', WInv, Sample PROVE WInv'
<1>1. shared \in Shared /\ worker \in Worker /\ disk \in Disk /\ ghost \in Ghost /\ record \in Records
  BY Typing
<1>2. /\ UNCHANGED <<record, disk, gui, mailbox, saving, worker, ghost>>
      /\ shared'.removal = shared.removal /\ shared'.cancel = shared.cancel
      /\ shared'.closed = shared.closed /\ shared'.removing = shared.removing
      /\ shared'.setup = shared.setup /\ shared'.load = shared.load
      /\ shared'.release = shared.release
  BY <1>1, Typing DEF Sample, Shared
<1>3. /\ Occupied' /\ Behind' /\ AtFirst' /\ Pressed' /\ Reported' /\ AbsorbedOnce'
      /\ InstallsAlone' /\ Condemning' /\ Buried' /\ InOrder' /\ OneSuccess' /\ EndsUnready'
      /\ ModelGoes' /\ ReadyGoes' /\ WordsDated' /\ WordIsTrue'
  BY <1>2, Fields DEF WInv, Occupied, Behind, AtFirst, Pressed, Reported, AbsorbedOnce,
      InstallsAlone, Condemning, Buried, InOrder, OneSuccess, EndsUnready, ModelGoes, ReadyGoes,
      WordsDated, WordIsTrue, Live, Sharp, SavingNow, Virgin, Locked, Setting, Installing,
      Erasing, Removing, Ending, StartUp, Consented, Resting, LastWord
<1>4. QED
  BY <1>3 DEF WInv

LEMMA ResetShows ==
    ASSUME TypeOK, TypeOK', IInv, IInv', WInv, Reset PROVE WInv'
<1>1. shared \in Shared /\ worker \in Worker /\ disk \in Disk /\ ghost \in Ghost /\ record \in Records
  BY Typing
<1>2. /\ UNCHANGED <<record, disk, gui, mailbox, saving, worker, ghost>>
      /\ shared'.removal = shared.removal /\ shared'.cancel = shared.cancel
      /\ shared'.closed = shared.closed /\ shared'.removing = shared.removing
      /\ shared'.setup = shared.setup /\ shared'.load = shared.load
      /\ shared'.release = shared.release
  BY <1>1, Typing DEF Reset, Retired, Shared
<1>3. /\ Occupied' /\ Behind' /\ AtFirst' /\ Pressed' /\ Reported' /\ AbsorbedOnce'
      /\ InstallsAlone' /\ Condemning' /\ Buried' /\ InOrder' /\ OneSuccess' /\ EndsUnready'
      /\ ModelGoes' /\ ReadyGoes' /\ WordsDated' /\ WordIsTrue'
  BY <1>2, Fields DEF WInv, Occupied, Behind, AtFirst, Pressed, Reported, AbsorbedOnce,
      InstallsAlone, Condemning, Buried, InOrder, OneSuccess, EndsUnready, ModelGoes, ReadyGoes,
      WordsDated, WordIsTrue, Live, Sharp, SavingNow, Virgin, Locked, Setting, Installing,
      Erasing, Removing, Ending, StartUp, Consented, Resting, LastWord
<1>4. QED
  BY <1>3 DEF WInv

LEMMA CloseShows ==
    ASSUME TypeOK, TypeOK', IInv, IInv', WInv, Close PROVE WInv'
<1>1. shared \in Shared /\ worker \in Worker /\ disk \in Disk /\ ghost \in Ghost /\ record \in Records
  BY Typing
<1>2. /\ UNCHANGED <<record, disk, mailbox, saving, worker, ghost>>
      /\ shared'.removal = shared.removal /\ shared'.cancel /\ shared'.closed
      /\ shared'.removing = shared.removing /\ shared'.setup = shared.setup
      /\ shared'.load = shared.load /\ shared'.release = shared.release
      /\ ~gui'.ready /\ ~gui'.busy /\ ~gui'.checking
  BY <1>1, Typing DEF Close, Retired, Shared
<1>3. /\ Occupied' /\ Behind' /\ AtFirst' /\ Pressed' /\ Reported' /\ AbsorbedOnce'
      /\ InstallsAlone' /\ Condemning' /\ Buried' /\ InOrder' /\ OneSuccess' /\ EndsUnready'
      /\ ModelGoes' /\ ReadyGoes' /\ WordsDated' /\ WordIsTrue'
  BY <1>2, Fields DEF WInv, Occupied, Behind, AtFirst, Pressed, Reported, AbsorbedOnce,
      InstallsAlone, Condemning, Buried, InOrder, OneSuccess, EndsUnready, ModelGoes, ReadyGoes,
      WordsDated, WordIsTrue, Live, Sharp, SavingNow, Virgin, Locked, Setting, Installing,
      Erasing, Removing, Ending, StartUp, Consented, Resting, LastWord
<1>4. QED
  BY <1>3 DEF WInv

LEMMA StartsUpShows ==
    ASSUME TypeOK, TypeOK', IInv, IInv', WInv, StartsUp PROVE WInv'
<1>1. shared \in Shared /\ worker \in Worker /\ disk \in Disk /\ ghost \in Ghost /\ record \in Records
  BY Typing
<1>2. /\ UNCHANGED <<record, disk, gui, shared, mailbox, saving>> /\ worker.pc = "start"
      /\ worker'.pc = IF record.cleanup THEN "condemned" ELSE "checks"
      /\ worker'.gen = shared.generation /\ worker'.model = worker.model
      /\ worker'.startup = worker.startup /\ ghost'.missed = ghost.missed /\ ~ghost'.mute
      /\ ghost'.overtaken = ghost.overtaken /\ ghost'.crossed = ghost.crossed
  BY <1>1, Typing DEF StartsUp, At, Worker, Ghost
<1>3. Relations(mailbox) /\ Relations(mailbox')
  BY Related DEF TypeOK
<1>4. /\ Occupied' /\ AtFirst' /\ Pressed' /\ AbsorbedOnce' /\ InstallsAlone' /\ Condemning'
      /\ Buried' /\ OneSuccess' /\ ModelGoes' /\ ReadyGoes' /\ WordIsTrue'
  BY <1>2, Fields DEF WInv, Occupied, AtFirst, Pressed, AbsorbedOnce, InstallsAlone, Condemning,
      Buried, OneSuccess, ModelGoes, ReadyGoes, WordIsTrue, Live, Sharp, SavingNow, Virgin,
      Locked, Setting, Installing, Erasing, Removing, Ending, StartUp, Consented, Resting,
      LastWord
<1>5. Behind'
  BY <1>2, Fields DEF WInv, Behind, IInv, Dated, Erasing, Removing, StartUp
<1>6. Reported'
  BY <1>2, <1>3, Fields DEF WInv, Reported, AbsorbedOnce, OneSuccess, Live, Sharp, SavingNow,
      Virgin, Setting, Installing, Removing, Ending, StartUp, Relations
<1>7. InOrder'
  BY <1>2, <1>3, Fields DEF WInv, InOrder, IInv, Dated, Live, Sharp, Installing, Erasing,
      Removing, StartUp, Relations
<1>8. EndsUnready'
  BY <1>2, <1>3, Fields DEF WInv, EndsUnready, Buried, OneSuccess, IInv, Dated, Live, Sharp,
      Setting, Installing, Removing, Ending, StartUp, Relations
<1>9. WordsDated'
  BY <1>2, Fields DEF WInv, WordsDated, IInv, Dated, Live, Sharp, Erasing, Removing, Ending,
      StartUp
<1>10. QED
  BY <1>4, <1>5, <1>6, <1>7, <1>8, <1>9 DEF WInv

LEMMA CondemnedShows ==
    ASSUME TypeOK, TypeOK', IInv, IInv', WInv, Condemned PROVE WInv'
<1>1. shared \in Shared /\ worker \in Worker /\ disk \in Disk /\ ghost \in Ghost /\ record \in Records
  BY Typing
<1>2. /\ UNCHANGED <<record, disk, gui, mailbox, saving, ghost>> /\ worker.pc = "condemned"
      /\ worker'.pc = "remove" /\ worker'.gen = worker.gen /\ worker'.model = worker.model
      /\ worker'.startup = worker.startup /\ shared'.removal = worker.gen
      /\ shared'.cancel = shared.cancel /\ shared'.closed = shared.closed
      /\ shared'.removing = shared.removing /\ shared'.setup = shared.setup
      /\ shared'.load = shared.load /\ shared'.release = shared.release
  BY <1>1, Typing DEF Condemned, At, Goes, Worker, Shared
<1>3. Relations(mailbox) /\ Relations(mailbox')
  BY Related DEF TypeOK
<1>4. /\ Occupied' /\ Behind' /\ AtFirst' /\ Pressed' /\ InstallsAlone' /\ Condemning'
      /\ Buried' /\ InOrder' /\ EndsUnready' /\ ModelGoes' /\ ReadyGoes' /\ WordIsTrue'
  BY <1>2, Fields DEF WInv, Occupied, Behind, AtFirst, Pressed, InstallsAlone, Condemning, Buried,
      InOrder, EndsUnready, ModelGoes, ReadyGoes, WordIsTrue, Live, Sharp, SavingNow, Virgin,
      Locked, Setting, Installing, Erasing, Removing, Ending, StartUp, Consented, Resting,
      LastWord
<1>5. Reported'
  BY <1>2, <1>3, Fields DEF WInv, Reported, AbsorbedOnce, OneSuccess, Live, Sharp, SavingNow,
      Virgin, Setting, Installing, Removing, Ending, StartUp, Relations
<1>6. AbsorbedOnce'
  BY <1>2, <1>3, Fields DEF WInv, AbsorbedOnce, OneSuccess, Live, Sharp, SavingNow, Virgin,
      Setting, Installing, Removing, Ending, Relations
<1>7. OneSuccess'
  BY <1>2, Fields DEF WInv, OneSuccess, EndsUnready, Live, Sharp, Setting, Installing, Removing,
      Ending
<1>8. WordsDated'
  BY <1>2, Fields DEF WInv, WordsDated, Condemning, Live, Sharp, Erasing, Removing, Ending,
      StartUp
<1>9. QED
  BY <1>4, <1>5, <1>6, <1>7, <1>8 DEF WInv

LEMMA ChecksShows ==
    ASSUME TypeOK, TypeOK', IInv, IInv', WInv, Checks PROVE WInv'
<1>1. shared \in Shared /\ worker \in Worker /\ disk \in Disk /\ ghost \in Ghost /\ record \in Records
  BY Typing
<1>2. /\ UNCHANGED <<record, disk, gui, shared, saving>> /\ worker.pc = "checks"
      /\ worker'.pc = IF record.version /\ record.enabled /\ ~shared.closed /\ ~shared.cancel THEN "verify" ELSE "idle"
      /\ worker'.gen = worker.gen /\ worker'.model = worker.model
      /\ worker'.startup = worker.startup /\ ghost'.missed = ghost.missed
      /\ ghost'.mute <=> record.version /\ record.enabled /\ (shared.closed \/ shared.cancel)
      /\ ghost'.overtaken = ghost.overtaken /\ ghost'.crossed = ghost.crossed
      /\ record.version /\ record.enabled => mailbox' = mailbox
  BY <1>1, Typing DEF Checks, At, Goes, Worker, Ghost
<1>3. /\ record.version /\ ~record.enabled => Posting(mailbox, mailbox', worker.gen, "ready", FALSE)
      /\ ~record.version => Posting(mailbox, mailbox', worker.gen, "uninstalled", FALSE)
  BY Posted, Fields DEF Checks, At, Goes, Says
<1>4. Relations(mailbox) /\ Relations(mailbox')
  BY Related DEF TypeOK
<1>5. /\ Occupied' /\ Behind' /\ AtFirst' /\ Pressed' /\ AbsorbedOnce' /\ InstallsAlone'
      /\ Condemning' /\ Buried' /\ InOrder' /\ OneSuccess' /\ EndsUnready' /\ ModelGoes'
      /\ ReadyGoes'
  BY <1>2, <1>3, Fields DEF WInv, Occupied, Behind, AtFirst, Pressed, AbsorbedOnce, InstallsAlone,
      Condemning, Buried, InOrder, OneSuccess, EndsUnready, ModelGoes, ReadyGoes, Live, Sharp,
      SavingNow, Virgin, Locked, Setting, Installing, Erasing, Removing, Ending, StartUp,
      Consented, Posting
<1>6. Reported'
  BY <1>2, <1>3, Fields DEF WInv, Reported, Behind, Pressed, AbsorbedOnce, WordsDated, Live,
      Sharp, SavingNow, Virgin, Erasing, Removing, Ending, StartUp, Posting
<1>7. WordsDated'
  BY <1>2, <1>3, Fields DEF WInv, WordsDated, Buried, Live, Sharp, Erasing, Removing, Ending,
      StartUp, Posting
<1>8. WordIsTrue'
  BY <1>2, <1>3, <1>4, Fields DEF WInv, WordIsTrue, OneSuccess, EndsUnready, ModelGoes, ReadyGoes,
      Live, Sharp, Setting, Installing, Removing, Ending, Consented, Resting, LastWord, Posting,
      Relations
<1>9. QED
  BY <1>5, <1>6, <1>7, <1>8 DEF WInv

LEMMA VerifiesShows ==
    ASSUME TypeOK, TypeOK', IInv, IInv', WInv, Verifies PROVE WInv'
<1>1. shared \in Shared /\ worker \in Worker /\ disk \in Disk /\ ghost \in Ghost /\ record \in Records
  BY Typing
<1>2. /\ UNCHANGED <<record, disk, gui, shared, mailbox, saving, ghost>> /\ worker.pc = "verify"
      /\ worker'.pc = "load" /\ worker'.gen = worker.gen /\ worker'.model = worker.model
      /\ worker'.startup = worker.startup /\ disk.assets # {}
  BY <1>1, Typing DEF Verifies, At, Goes, Alone, Worker, Whole
<1>3. /\ Occupied' /\ Behind' /\ AtFirst' /\ Pressed' /\ Reported' /\ AbsorbedOnce'
      /\ InstallsAlone' /\ Condemning' /\ Buried' /\ InOrder' /\ OneSuccess' /\ EndsUnready'
      /\ ModelGoes' /\ ReadyGoes' /\ WordsDated' /\ WordIsTrue'
  BY <1>2, Fields DEF WInv, Occupied, Behind, AtFirst, Pressed, Reported, AbsorbedOnce,
      InstallsAlone, Condemning, Buried, InOrder, OneSuccess, EndsUnready, ModelGoes, ReadyGoes,
      WordsDated, WordIsTrue, Live, Sharp, SavingNow, Virgin, Locked, Setting, Installing,
      Erasing, Removing, Ending, StartUp, Consented, Resting, LastWord
<1>4. QED
  BY <1>3 DEF WInv

LEMMA LoadsShows ==
    ASSUME TypeOK, TypeOK', IInv, IInv', WInv, Loads PROVE WInv'
<1>1. shared \in Shared /\ worker \in Worker /\ disk \in Disk /\ ghost \in Ghost /\ record \in Records
  BY Typing
<1>2. /\ UNCHANGED <<record, disk, gui, shared, mailbox, saving, ghost>> /\ worker.pc = "load"
      /\ worker'.pc = "loaded" /\ worker'.gen = worker.gen /\ worker'.model
      /\ worker'.startup = worker.startup
  BY <1>1, Typing DEF Loads, At, Alone, Worker
<1>3. /\ Occupied' /\ Behind' /\ AtFirst' /\ Pressed' /\ Reported' /\ AbsorbedOnce'
      /\ InstallsAlone' /\ Condemning' /\ Buried' /\ InOrder' /\ OneSuccess' /\ EndsUnready'
      /\ ModelGoes' /\ ReadyGoes' /\ WordsDated' /\ WordIsTrue'
  BY <1>2, Fields DEF WInv, Occupied, Behind, AtFirst, Pressed, Reported, AbsorbedOnce,
      InstallsAlone, Condemning, Buried, InOrder, OneSuccess, EndsUnready, ModelGoes, ReadyGoes,
      WordsDated, WordIsTrue, Live, Sharp, SavingNow, Virgin, Locked, Setting, Installing,
      Erasing, Removing, Ending, StartUp, Consented, Resting, LastWord
<1>4. QED
  BY <1>3 DEF WInv

LEMMA LoadedShows ==
    ASSUME TypeOK, TypeOK', IInv, IInv', WInv, Loaded PROVE WInv'
<1>1. shared \in Shared /\ worker \in Worker /\ disk \in Disk /\ ghost \in Ghost /\ record \in Records
  BY Typing
<1>2. /\ UNCHANGED <<record, disk, gui, shared, saving, ghost>> /\ worker.pc = "loaded"
      /\ worker'.pc = IF ~shared.closed /\ record.enabled /\ worker.startup = "first" THEN "absorb" ELSE "idle"
      /\ worker'.gen = worker.gen
      /\ worker'.model <=> worker.model /\ ~shared.closed /\ record.enabled
      /\ worker'.startup = worker.startup
  BY <1>1, Typing DEF Loaded, At, Goes, Unloads, Alone, Worker
<1>3. Posting(mailbox, mailbox', shared.generation, "ready", FALSE)
  BY Posted, Fields DEF Loaded, At, Goes, Unloads, Says
<1>4. Relations(mailbox) /\ Relations(mailbox')
  BY Related DEF TypeOK
<1>5. /\ Occupied' /\ Behind' /\ AtFirst' /\ Pressed' /\ AbsorbedOnce' /\ InstallsAlone'
      /\ Condemning' /\ Buried' /\ OneSuccess' /\ ModelGoes'
  BY <1>2, <1>3, Fields DEF WInv, Occupied, Behind, AtFirst, Pressed, AbsorbedOnce, InstallsAlone,
      Condemning, Buried, OneSuccess, ModelGoes, Live, Sharp, SavingNow, Virgin, Locked, Setting,
      Installing, Erasing, Removing, Ending, StartUp, Consented, Posting
<1>6. Reported'
  BY <1>2, <1>3, Fields DEF WInv, Reported, IInv, Dated, Live, Removing, Ending, StartUp, Posting
<1>7. InOrder'
  BY <1>2, <1>3, <1>4, Fields DEF WInv, InOrder, IInv, Dated, Live, Sharp, Installing, Erasing,
      Removing, StartUp, Posting, Relations
<1>8. EndsUnready'
  BY <1>2, <1>3, Fields DEF WInv, EndsUnready, ModelGoes, Live, Sharp, Consented, Posting
<1>9. ReadyGoes'
  BY <1>2, <1>3, Fields DEF WInv, ReadyGoes, Condemning, ModelGoes, Live, Sharp, Removing, Ending,
      Consented, Posting
<1>10. WordsDated'
  BY <1>2, <1>3, Fields DEF WInv, WordsDated, Buried, ModelGoes, IInv, Dated, Live, Sharp,
      Erasing, Removing, Ending, StartUp, Consented, Posting
<1>11. WordIsTrue'
  BY <1>2, <1>3, Fields DEF WInv, WordIsTrue, ModelGoes, Live, Sharp, Consented, Resting,
      LastWord, Posting
<1>12. QED
  BY <1>5, <1>6, <1>7, <1>8, <1>9, <1>10, <1>11 DEF WInv

LEMMA StartupFailsShows ==
    ASSUME TypeOK, TypeOK', IInv, IInv', WInv, StartupFails PROVE WInv'
<1>1. shared \in Shared /\ worker \in Worker /\ disk \in Disk /\ ghost \in Ghost /\ record \in Records
  BY Typing
<1>2. /\ UNCHANGED <<record, disk, gui, shared, saving, ghost>>
      /\ worker.pc \in {"verify", "load"} /\ worker'.pc = "idle" /\ worker'.gen = worker.gen
      /\ ~worker'.model /\ worker'.startup = worker.startup
  BY <1>1, Typing DEF StartupFails, At, Unloads, Alone, Worker
<1>3. Posting(mailbox, mailbox', worker.gen, "failed", FALSE)
  BY Posted, Fields DEF StartupFails, At, Unloads, Says
<1>4. /\ Occupied' /\ Behind' /\ AtFirst' /\ Pressed' /\ AbsorbedOnce' /\ InstallsAlone'
      /\ Condemning' /\ Buried' /\ InOrder' /\ OneSuccess' /\ EndsUnready' /\ ModelGoes'
      /\ ReadyGoes' /\ WordIsTrue'
  BY <1>2, <1>3, Fields DEF WInv, Occupied, Behind, AtFirst, Pressed, AbsorbedOnce, InstallsAlone,
      Condemning, Buried, InOrder, OneSuccess, EndsUnready, ModelGoes, ReadyGoes, WordIsTrue,
      Live, Sharp, SavingNow, Virgin, Locked, Setting, Installing, Erasing, Removing, Ending,
      StartUp, Consented, Resting, LastWord, Posting
<1>5. Reported'
  BY <1>2, <1>3, Fields DEF WInv, Reported, Behind, AbsorbedOnce, WordsDated, Live, Sharp,
      SavingNow, Virgin, Erasing, Removing, Ending, StartUp, Posting
<1>6. WordsDated'
  BY <1>2, <1>3, Fields DEF WInv, WordsDated, ModelGoes, Live, Sharp, Erasing, Removing, Ending,
      StartUp, Consented, Posting
<1>7. QED
  BY <1>4, <1>5, <1>6 DEF WInv

LEMMA AbsorbsShows ==
    ASSUME TypeOK, TypeOK', IInv, IInv', WInv, Absorbs PROVE WInv'
<1>1. shared \in Shared /\ worker \in Worker /\ disk \in Disk /\ ghost \in Ghost /\ record \in Records
  BY Typing
<1>2. /\ UNCHANGED <<record, disk, gui, saving, ghost>> /\ worker.pc = "absorb"
      /\ worker'.pc = "idle" /\ worker'.gen = worker.gen /\ worker'.model = worker.model
      /\ worker'.startup = worker.startup /\ shared'.removal = shared.removal
      /\ shared'.cancel = shared.cancel /\ shared'.closed = shared.closed
      /\ shared'.removing = shared.removing /\ ~shared'.setup /\ shared'.load = shared.load
      /\ shared'.release = shared.release
      /\ ~shared.setup => mailbox' = mailbox
  BY <1>1, Typing DEF Absorbs, At, Goes, Worker, Shared
<1>3. shared.setup => Posting(mailbox, mailbox', shared.generation, "absorbed", TRUE)
  BY Posted, Fields DEF Absorbs, At, Goes, Says
<1>4. Relations(mailbox) /\ Relations(mailbox')
  BY Related DEF TypeOK
<1>5. /\ Behind' /\ AtFirst' /\ Pressed' /\ InstallsAlone' /\ Condemning' /\ Buried'
      /\ EndsUnready' /\ ReadyGoes' /\ WordsDated'
  BY <1>2, <1>3, Fields DEF WInv, Behind, AtFirst, Pressed, InstallsAlone, Condemning, Buried,
      EndsUnready, ReadyGoes, WordsDated, Live, Sharp, SavingNow, Virgin, Locked, Installing,
      Erasing, Removing, Ending, StartUp, Consented, Posting
<1>6. Occupied'
  BY <1>2, <1>3, Fields DEF WInv, Occupied, IInv, Dated, Live, Setting, Installing, Erasing,
      Removing, Ending, Posting
<1>7. Reported'
  BY <1>2, <1>3, Fields DEF WInv, Reported, Pressed, Live, Removing, Ending, StartUp, Posting
<1>8. AbsorbedOnce'
  BY <1>2, <1>3, <1>4, Fields DEF WInv, AbsorbedOnce, AtFirst, Pressed, ModelGoes, IInv, Dated,
      SettingUp, Live, Sharp, SavingNow, Virgin, Locked, Setting, Installing, Removing, Ending,
      StartUp, Consented, Posting, Relations
<1>9. InOrder'
  BY <1>2, <1>3, Fields DEF WInv, InOrder, IInv, SettingUp, Live, Sharp, Setting, Installing,
      Erasing, Removing, StartUp, Posting
<1>10. OneSuccess'
  BY <1>2, <1>3, Fields DEF WInv, OneSuccess, IInv, SettingUp, Live, Sharp, Setting, Installing,
      Removing, Ending, Posting
<1>11. ModelGoes'
  BY <1>2, <1>3, Fields DEF WInv, ModelGoes, IInv, SettingUp, Live, Sharp, Setting, Installing,
      Removing, Consented, Posting
<1>12. WordIsTrue'
  BY <1>2, <1>3, Fields DEF WInv, WordIsTrue, IInv, SettingUp, Live, Sharp, Setting, Installing,
      Removing, Resting, LastWord, Posting
<1>13. QED
  BY <1>5, <1>6, <1>7, <1>8, <1>9, <1>10, <1>11, <1>12 DEF WInv

LEMMA LeaveShows ==
    ASSUME TypeOK, TypeOK', IInv, IInv', WInv, Takes, Turn = "leave" PROVE WInv'
<1>1. shared \in Shared /\ worker \in Worker /\ disk \in Disk /\ ghost \in Ghost /\ record \in Records
  BY Typing
<1>2. /\ UNCHANGED <<record, disk, gui, shared, mailbox, saving, ghost>> /\ worker.pc = "idle"
      /\ worker'.pc = "gone" /\ worker'.gen = worker.gen /\ worker'.model = worker.model
      /\ worker'.startup = worker.startup /\ shared.closed
  BY <1>1, Typing DEF Takes, Turn, At, Goes, Worker
<1>3. /\ Occupied' /\ Behind' /\ AtFirst' /\ Pressed' /\ Reported' /\ AbsorbedOnce'
      /\ InstallsAlone' /\ Condemning' /\ Buried' /\ InOrder' /\ OneSuccess' /\ EndsUnready'
      /\ ModelGoes' /\ ReadyGoes' /\ WordsDated' /\ WordIsTrue'
  BY <1>2, Fields DEF WInv, Occupied, Behind, AtFirst, Pressed, Reported, AbsorbedOnce,
      InstallsAlone, Condemning, Buried, InOrder, OneSuccess, EndsUnready, ModelGoes, ReadyGoes,
      WordsDated, WordIsTrue, Live, Sharp, SavingNow, Virgin, Locked, Setting, Installing,
      Erasing, Removing, Ending, StartUp, Consented, Resting, LastWord
<1>4. QED
  BY <1>3 DEF WInv

LEMMA ReleaseShows ==
    ASSUME TypeOK, TypeOK', IInv, IInv', WInv, Takes, Turn = "release" PROVE WInv'
<1>1. shared \in Shared /\ worker \in Worker /\ disk \in Disk /\ ghost \in Ghost /\ record \in Records
  BY Typing
<1>2. /\ UNCHANGED <<record, disk, gui, saving, ghost>> /\ worker.pc = "idle"
      /\ worker'.pc = "idle" /\ worker'.gen = worker.gen /\ ~worker'.model
      /\ worker'.startup = worker.startup /\ shared.release /\ shared'.removal = shared.removal
      /\ shared'.cancel = shared.cancel /\ shared'.closed = shared.closed
      /\ shared'.removing = shared.removing /\ shared'.setup = shared.setup
      /\ shared'.load = shared.load /\ ~shared'.release
  BY <1>1, Typing DEF Takes, Turn, At, Unloads, Worker, Shared
<1>3. Posting(mailbox, mailbox', shared.generation, "released", FALSE)
  BY Posted, Fields DEF Takes, Turn, At, Unloads, Says
<1>4. /\ Occupied' /\ Behind' /\ AtFirst' /\ Pressed' /\ AbsorbedOnce' /\ InstallsAlone'
      /\ Condemning' /\ Buried' /\ InOrder' /\ OneSuccess' /\ EndsUnready' /\ ModelGoes'
      /\ ReadyGoes' /\ WordsDated'
  BY <1>2, <1>3, Fields DEF WInv, Occupied, Behind, AtFirst, Pressed, AbsorbedOnce, InstallsAlone,
      Condemning, Buried, InOrder, OneSuccess, EndsUnready, ModelGoes, ReadyGoes, WordsDated,
      Live, Sharp, SavingNow, Virgin, Locked, Setting, Installing, Erasing, Removing, Ending,
      StartUp, Consented, Posting
<1>5. Reported'
  BY <1>2, <1>3, Fields DEF WInv, Reported, IInv, Dated, Live, Removing, Ending, StartUp, Posting
<1>6. WordIsTrue'
  BY <1>2, <1>3, Fields DEF WInv, WordIsTrue, ModelGoes, Live, Sharp, Consented, Resting,
      LastWord, Posting
<1>7. QED
  BY <1>4, <1>5, <1>6 DEF WInv

LEMMA LoadShows ==
    ASSUME TypeOK, TypeOK', IInv, IInv', WInv, Takes, Turn = "load" PROVE WInv'
<1>1. shared \in Shared /\ worker \in Worker /\ disk \in Disk /\ ghost \in Ghost /\ record \in Records
  BY Typing
<1>2. /\ UNCHANGED <<record, disk, gui, mailbox, saving, ghost>> /\ worker.pc = "idle"
      /\ worker'.pc = "start" /\ worker'.gen = worker.gen /\ worker'.model = worker.model
      /\ worker'.startup = "load" /\ shared.load /\ ~shared.release
      /\ shared'.removal = shared.removal /\ ~shared'.cancel /\ shared'.closed = shared.closed
      /\ shared'.removing = shared.removing /\ shared'.setup = shared.setup /\ ~shared'.load
      /\ shared'.release = shared.release
  BY <1>1, Typing DEF Takes, Turn, At, Worker, Shared
<1>3. /\ Occupied' /\ Behind' /\ AtFirst' /\ Pressed' /\ Reported' /\ AbsorbedOnce'
      /\ InstallsAlone' /\ Condemning' /\ Buried' /\ InOrder' /\ OneSuccess' /\ EndsUnready'
      /\ ModelGoes' /\ ReadyGoes' /\ WordsDated' /\ WordIsTrue'
  BY <1>2, Fields DEF WInv, Occupied, Behind, AtFirst, Pressed, Reported, AbsorbedOnce,
      InstallsAlone, Condemning, Buried, InOrder, OneSuccess, EndsUnready, ModelGoes, ReadyGoes,
      WordsDated, WordIsTrue, Live, Sharp, SavingNow, Virgin, Locked, Setting, Installing,
      Erasing, Removing, Ending, StartUp, Consented, Resting, LastWord
<1>4. QED
  BY <1>3 DEF WInv

LEMMA RemoveShows ==
    ASSUME TypeOK, TypeOK', IInv, IInv', WInv, Takes, Turn = "remove" PROVE WInv'
<1>1. shared \in Shared /\ worker \in Worker /\ disk \in Disk /\ ghost \in Ghost /\ record \in Records
  BY Typing
<1>2. /\ UNCHANGED <<record, disk, gui, mailbox, saving, ghost>> /\ worker.pc = "idle"
      /\ worker'.pc = "remove" /\ worker'.gen = worker.gen /\ worker'.model = worker.model
      /\ worker'.startup = "no" /\ shared.removing /\ ~shared.release /\ ~shared.load
      /\ shared'.removal = shared.removal /\ shared'.cancel = shared.cancel
      /\ shared'.closed = shared.closed /\ shared'.removing = shared.removing
      /\ shared'.setup = shared.setup /\ shared'.load = shared.load
      /\ shared'.release = shared.release
  BY <1>1, Typing DEF Takes, Turn, At, Worker, Shared
<1>3. /\ Occupied' /\ Behind' /\ AtFirst' /\ Pressed' /\ Reported' /\ AbsorbedOnce'
      /\ InstallsAlone' /\ Condemning' /\ Buried' /\ InOrder' /\ OneSuccess' /\ EndsUnready'
      /\ ModelGoes' /\ ReadyGoes' /\ WordsDated' /\ WordIsTrue'
  BY <1>2, Fields DEF WInv, Occupied, Behind, AtFirst, Pressed, Reported, AbsorbedOnce,
      InstallsAlone, Condemning, Buried, InOrder, OneSuccess, EndsUnready, ModelGoes, ReadyGoes,
      WordsDated, WordIsTrue, Live, Sharp, SavingNow, Virgin, Locked, Setting, Installing,
      Erasing, Removing, Ending, StartUp, Consented, Resting, LastWord
<1>4. QED
  BY <1>3 DEF WInv

LEMMA InstallShows ==
    ASSUME TypeOK, TypeOK', IInv, IInv', WInv, Takes, Turn = "setup" PROVE WInv'
<1>1. shared \in Shared /\ worker \in Worker /\ disk \in Disk /\ ghost \in Ghost /\ record \in Records
  BY Typing
<1>2. /\ UNCHANGED <<record, disk, gui, mailbox, saving, ghost>> /\ worker.pc = "idle"
      /\ worker'.pc = "install" /\ worker'.gen = worker.gen /\ worker'.model = worker.model
      /\ worker'.startup = worker.startup
      /\ shared.setup /\ ~shared.closed /\ ~shared.removing /\ ~shared.release /\ ~shared.load
      /\ shared'.removal = shared.removal /\ shared'.cancel = shared.cancel
      /\ shared'.closed = shared.closed /\ shared'.removing = shared.removing /\ ~shared'.setup
      /\ shared'.load = shared.load /\ shared'.release = shared.release
  BY <1>1, Typing DEF Takes, Turn, At, Goes, Worker, Shared
<1>3. /\ Occupied' /\ Behind' /\ AtFirst' /\ Pressed' /\ Reported' /\ AbsorbedOnce'
      /\ Condemning' /\ Buried' /\ InOrder' /\ OneSuccess' /\ EndsUnready' /\ ModelGoes'
      /\ ReadyGoes' /\ WordsDated' /\ WordIsTrue'
  BY <1>2, Fields DEF WInv, Occupied, Behind, AtFirst, Pressed, Reported, AbsorbedOnce,
      Condemning, Buried, InOrder, OneSuccess, EndsUnready, ModelGoes, ReadyGoes, WordsDated,
      WordIsTrue, Live, Sharp, SavingNow, Virgin, Locked, Setting, Installing, Erasing, Removing,
      Ending, StartUp, Consented, Resting, LastWord
<1>4. InstallsAlone'
  BY <1>2, Fields DEF WInv, InstallsAlone, IInv, SettingUp, Live, Sharp, Setting, Installing,
      Removing
<1>5. QED
  BY <1>3, <1>4 DEF WInv

LEMMA KeepShows ==
    ASSUME TypeOK, TypeOK', IInv, IInv', WInv, Takes, Turn = "io" PROVE WInv'
<1>1. shared \in Shared /\ worker \in Worker /\ disk \in Disk /\ ghost \in Ghost /\ record \in Records
  BY Typing
<1>2. /\ UNCHANGED <<record, gui, mailbox, saving, worker, ghost>> /\ disk'.assets = disk.assets
      /\ shared'.removal = shared.removal /\ shared'.cancel = shared.cancel
      /\ shared'.closed = shared.closed /\ shared'.removing = shared.removing
      /\ shared'.setup = shared.setup /\ shared'.load = shared.load
      /\ shared'.release = shared.release
  BY <1>1, Typing DEF Takes, Turn, Shared, Disk
<1>3. /\ Occupied' /\ Behind' /\ AtFirst' /\ Pressed' /\ Reported' /\ AbsorbedOnce'
      /\ InstallsAlone' /\ Condemning' /\ Buried' /\ InOrder' /\ OneSuccess' /\ EndsUnready'
      /\ ModelGoes' /\ ReadyGoes' /\ WordsDated' /\ WordIsTrue'
  BY <1>2, Fields DEF WInv, Occupied, Behind, AtFirst, Pressed, Reported, AbsorbedOnce,
      InstallsAlone, Condemning, Buried, InOrder, OneSuccess, EndsUnready, ModelGoes, ReadyGoes,
      WordsDated, WordIsTrue, Live, Sharp, SavingNow, Virgin, Locked, Setting, Installing,
      Erasing, Removing, Ending, StartUp, Consented, Resting, LastWord
<1>4. QED
  BY <1>3 DEF WInv

LEMMA LookShows ==
    ASSUME TypeOK, TypeOK', IInv, IInv', WInv, Takes, Turn = "sample" PROVE WInv'
<1>1. shared \in Shared /\ worker \in Worker /\ disk \in Disk /\ ghost \in Ghost /\ record \in Records
  BY Typing
<1>2. /\ UNCHANGED <<record, disk, gui, mailbox, saving, ghost>> /\ worker.pc = "idle"
      /\ worker'.pc = "infer" /\ worker'.model = worker.model
      /\ worker'.startup = worker.startup /\ shared'.removal = shared.removal
      /\ shared'.cancel = shared.cancel /\ shared'.closed = shared.closed
      /\ shared'.removing = shared.removing /\ shared'.setup = shared.setup
      /\ shared'.load = shared.load /\ shared'.release = shared.release
  BY <1>1, Typing DEF Takes, Turn, At, Worker, Shared
<1>3. /\ Occupied' /\ Behind' /\ AtFirst' /\ Pressed' /\ Reported' /\ AbsorbedOnce'
      /\ InstallsAlone' /\ Condemning' /\ Buried' /\ InOrder' /\ OneSuccess' /\ EndsUnready'
      /\ ModelGoes' /\ ReadyGoes' /\ WordsDated' /\ WordIsTrue'
  BY <1>2, Fields DEF WInv, Occupied, Behind, AtFirst, Pressed, Reported, AbsorbedOnce,
      InstallsAlone, Condemning, Buried, InOrder, OneSuccess, EndsUnready, ModelGoes, ReadyGoes,
      WordsDated, WordIsTrue, Live, Sharp, SavingNow, Virgin, Locked, Setting, Installing,
      Erasing, Removing, Ending, StartUp, Consented, Resting, LastWord
<1>4. QED
  BY <1>3 DEF WInv

LEMMA InfersShows ==
    ASSUME TypeOK, TypeOK', IInv, IInv', WInv, Infers PROVE WInv'
<1>1. shared \in Shared /\ worker \in Worker /\ disk \in Disk /\ ghost \in Ghost /\ record \in Records
  BY Typing
<1>2. /\ UNCHANGED <<record, disk, gui, shared, mailbox, saving, ghost>>
      /\ worker'.pc \in {"idle", "detect"}
      /\ worker'.pc = "detect" => worker.model /\ record.enabled
      /\ worker.pc = "infer" /\ worker'.gen = worker.gen /\ worker'.model = worker.model
      /\ worker'.startup = worker.startup
  BY <1>1, Typing DEF Infers, At, Goes, Alone, Worker
<1>3. /\ Occupied' /\ Behind' /\ AtFirst' /\ Pressed' /\ Reported' /\ AbsorbedOnce'
      /\ InstallsAlone' /\ Condemning' /\ Buried' /\ InOrder' /\ OneSuccess' /\ EndsUnready'
      /\ ModelGoes' /\ ReadyGoes' /\ WordsDated' /\ WordIsTrue'
  BY <1>2, Fields DEF WInv, Occupied, Behind, AtFirst, Pressed, Reported, AbsorbedOnce,
      InstallsAlone, Condemning, Buried, InOrder, OneSuccess, EndsUnready, ModelGoes, ReadyGoes,
      WordsDated, WordIsTrue, Live, Sharp, SavingNow, Virgin, Locked, Setting, Installing,
      Erasing, Removing, Ending, StartUp, Consented, Resting, LastWord
<1>4. QED
  BY <1>3 DEF WInv

LEMMA DetectsShows ==
    ASSUME TypeOK, TypeOK', IInv, IInv', WInv, Detects PROVE WInv'
<1>1. shared \in Shared /\ worker \in Worker /\ disk \in Disk /\ ghost \in Ghost /\ record \in Records
  BY Typing
<1>2. /\ UNCHANGED <<record, disk, gui, shared, saving, ghost>> /\ worker.pc = "detect"
      /\ worker'.pc = "idle" /\ worker'.gen = worker.gen /\ worker'.model = worker.model
      /\ worker'.startup = worker.startup
  BY <1>1, Typing DEF Detects, At, Goes, Alone, Worker
<1>3. Posting(mailbox, mailbox', worker.gen, "result", FALSE)
  BY Posted, Fields DEF Detects, At, Goes, Says
<1>4. /\ Occupied' /\ Behind' /\ AtFirst' /\ Pressed' /\ Reported' /\ AbsorbedOnce'
      /\ InstallsAlone' /\ Condemning' /\ Buried' /\ InOrder' /\ OneSuccess' /\ EndsUnready'
      /\ ModelGoes' /\ ReadyGoes' /\ WordsDated' /\ WordIsTrue'
  BY <1>2, <1>3, Fields DEF WInv, Occupied, Behind, AtFirst, Pressed, Reported, AbsorbedOnce,
      InstallsAlone, Condemning, Buried, InOrder, OneSuccess, EndsUnready, ModelGoes, ReadyGoes,
      WordsDated, WordIsTrue, Live, Sharp, SavingNow, Virgin, Locked, Setting, Installing,
      Erasing, Removing, Ending, StartUp, Consented, Resting, LastWord, Posting
<1>5. QED
  BY <1>4 DEF WInv

LEMMA InferenceFailsShows ==
    ASSUME TypeOK, TypeOK', IInv, IInv', WInv, InferenceFails PROVE WInv'
<1>1. shared \in Shared /\ worker \in Worker /\ disk \in Disk /\ ghost \in Ghost /\ record \in Records
  BY Typing
<1>2. /\ UNCHANGED <<record, disk, gui, saving, ghost>> /\ shared'.removal = shared.removal
      /\ shared'.cancel = shared.cancel /\ shared'.closed = shared.closed
      /\ shared'.removing = shared.removing /\ shared'.setup = shared.setup
      /\ shared'.load = shared.load /\ shared'.release = shared.release /\ worker.pc = "detect"
      /\ worker'.pc = "idle" /\ worker'.gen = worker.gen
      /\ worker'.model <=> worker.model /\ Retiring
      /\ worker'.startup = worker.startup
      /\ Retiring => mailbox' = mailbox
      /\ ~Retiring => ~shared.closed /\ worker.gen = shared.generation
  BY <1>1, Typing DEF InferenceFails, At, Goes, Unloads, Worker, Shared, Retiring
<1>3. ~Retiring => Posting(mailbox, mailbox', worker.gen, "failed", FALSE)
  BY Posted, Fields DEF InferenceFails, At, Goes, Unloads, Retiring, Says
<1>4. Relations(mailbox) /\ Relations(mailbox')
  BY Related DEF TypeOK
<1>5. /\ Occupied' /\ Behind' /\ AtFirst' /\ Pressed' /\ Reported' /\ AbsorbedOnce'
      /\ InstallsAlone' /\ Condemning' /\ Buried' /\ OneSuccess' /\ EndsUnready' /\ ModelGoes'
      /\ ReadyGoes' /\ WordIsTrue'
  BY <1>2, <1>3, Fields DEF WInv, Occupied, Behind, AtFirst, Pressed, Reported, AbsorbedOnce,
      InstallsAlone, Condemning, Buried, OneSuccess, EndsUnready, ModelGoes, ReadyGoes,
      WordIsTrue, Live, Sharp, SavingNow, Virgin, Locked, Setting, Installing, Erasing, Removing,
      Ending, StartUp, Consented, Resting, LastWord, Posting
<1>6. InOrder'
  BY <1>2, <1>3, <1>4, Fields DEF WInv, InOrder, IInv, Dated, Live, Sharp, Installing, Erasing,
      Removing, StartUp, Posting, Relations
<1>7. WordsDated'
  BY <1>2, <1>3, Fields DEF WInv, WordsDated, IInv, Dated, Live, Sharp, Erasing, Removing, Ending,
      StartUp, Posting
<1>8. QED
  BY <1>5, <1>6, <1>7 DEF WInv

LEMMA ShutsShows ==
    ASSUME TypeOK, TypeOK', IInv, IInv', WInv, Removes, shared.closed PROVE WInv'
<1>1. shared \in Shared /\ worker \in Worker /\ disk \in Disk /\ ghost \in Ghost /\ record \in Records
  BY Typing
<1>2. /\ UNCHANGED <<record, disk, gui, shared, saving, ghost>> /\ worker.pc = "remove"
      /\ worker'.pc = IF worker.startup = "no" THEN "unrequest" ELSE "resume"
      /\ worker'.gen = shared.removal /\ worker'.model = worker.model
      /\ worker'.startup = worker.startup
  BY <1>1, Typing DEF Removes, Finishes, At, Alone, Worker
<1>3. Posting(mailbox, mailbox', shared.removal, "failed", TRUE)
  <2>1. Sends(shared.removal, "failed", TRUE)
    BY <1>1, <1>2, Fields DEF Removes, Finishes, Worker
  <2>2. QED
    BY <2>1, Posted, Fields DEF Says
<1>4. /\ Occupied' /\ Behind' /\ AtFirst' /\ Pressed' /\ Reported' /\ AbsorbedOnce'
      /\ InstallsAlone' /\ Condemning' /\ Buried' /\ InOrder' /\ OneSuccess' /\ EndsUnready'
      /\ ModelGoes' /\ ReadyGoes' /\ WordsDated' /\ WordIsTrue'
  BY <1>2, <1>3, Fields DEF WInv, Occupied, Behind, AtFirst, Pressed, Reported, AbsorbedOnce,
      InstallsAlone, Condemning, Buried, InOrder, OneSuccess, EndsUnready, ModelGoes, ReadyGoes,
      WordsDated, WordIsTrue, Live, Sharp, SavingNow, Virgin, Locked, Setting, Installing,
      Erasing, Removing, Ending, StartUp, Consented, Resting, LastWord, Posting
<1>5. QED
  BY <1>4 DEF WInv

LEMMA RemovesShows ==
    ASSUME TypeOK, TypeOK', IInv, IInv', WInv, Removes, ~shared.closed PROVE WInv'
<1>1. shared \in Shared /\ worker \in Worker /\ disk \in Disk /\ ghost \in Ghost /\ record \in Records
  BY Typing
<1>2. /\ UNCHANGED <<record, disk, gui, shared, mailbox, saving, ghost>> /\ worker.pc = "remove"
      /\ worker'.pc = "entombing" /\ worker'.gen = shared.removal /\ ~worker'.model
      /\ worker'.startup = worker.startup
  BY <1>1, Typing DEF Removes, At, Alone, Worker
<1>3. /\ Occupied' /\ Behind' /\ AtFirst' /\ Pressed' /\ Reported' /\ AbsorbedOnce'
      /\ InstallsAlone' /\ Condemning' /\ Buried' /\ InOrder' /\ OneSuccess' /\ EndsUnready'
      /\ ModelGoes' /\ ReadyGoes' /\ WordsDated' /\ WordIsTrue'
  BY <1>2, Fields DEF WInv, Occupied, Behind, AtFirst, Pressed, Reported, AbsorbedOnce,
      InstallsAlone, Condemning, Buried, InOrder, OneSuccess, EndsUnready, ModelGoes, ReadyGoes,
      WordsDated, WordIsTrue, Live, Sharp, SavingNow, Virgin, Locked, Setting, Installing,
      Erasing, Removing, Ending, StartUp, Consented, Resting, LastWord
<1>4. QED
  BY <1>3 DEF WInv

LEMMA EntombsShows ==
    ASSUME TypeOK, TypeOK', IInv, IInv', WInv, Entombs PROVE WInv'
<1>1. shared \in Shared /\ worker \in Worker /\ disk \in Disk /\ ghost \in Ghost /\ record \in Records
  BY Typing
<1>2. /\ UNCHANGED <<gui, shared, mailbox, saving>> /\ worker.pc = "entombing"
      /\ worker'.pc = "clear" /\ worker'.gen = worker.gen /\ worker'.model = worker.model
      /\ worker'.startup = worker.startup /\ ~record'.version /\ record'.cleanup
      /\ record'.enabled = worker.base.enabled /\ disk'.assets = disk.assets
      /\ ghost'.overtaken <=> ghost.overtaken \/ worker.base # record
      /\ ghost'.missed = ghost.missed /\ ghost'.mute = ghost.mute
      /\ ghost'.crossed = ghost.crossed
  BY <1>1, Typing DEF Entombs, Tombstone, Persisted, At, Goes, Worker, Records, Disk, Ghost
<1>3. Relations(mailbox) /\ Relations(mailbox')
  BY Related DEF TypeOK
<1>4. /\ Occupied' /\ Behind' /\ AtFirst' /\ Pressed' /\ Reported' /\ InstallsAlone'
      /\ Condemning' /\ Buried' /\ InOrder' /\ OneSuccess' /\ WordsDated' /\ WordIsTrue'
  BY <1>2, Fields DEF WInv, Occupied, Behind, AtFirst, Pressed, Reported, InstallsAlone,
      Condemning, Buried, InOrder, OneSuccess, WordsDated, WordIsTrue, Live, Sharp, SavingNow,
      Virgin, Locked, Setting, Installing, Erasing, Removing, Ending, StartUp, Resting, LastWord
<1>5. AbsorbedOnce'
  BY <1>2, <1>3, Fields DEF WInv, AbsorbedOnce, OneSuccess, Live, Sharp, SavingNow, Virgin,
      Setting, Installing, Removing, Ending, Relations
<1>6. EndsUnready'
  BY <1>2, <1>3, Fields DEF WInv, EndsUnready, Condemning, Buried, Live, Sharp, Removing, Ending,
      StartUp, Relations
<1>7. ModelGoes'
  BY <1>2, Fields DEF WInv, ModelGoes, IInv, Cleared, Live, Sharp, Consented
<1>8. ReadyGoes'
  BY <1>2, Fields DEF WInv, ReadyGoes, Condemning, Buried, Live, Sharp, Removing, Ending, StartUp,
      Consented
<1>9. QED
  BY <1>4, <1>5, <1>6, <1>7, <1>8 DEF WInv

LEMMA ClearsShows ==
    ASSUME TypeOK, TypeOK', IInv, IInv', WInv, Clears PROVE WInv'
<1>1. shared \in Shared /\ worker \in Worker /\ disk \in Disk /\ ghost \in Ghost /\ record \in Records
  BY Typing
<1>2. /\ UNCHANGED <<record, gui, shared, mailbox, saving, ghost>> /\ disk'.assets = disk.assets
      /\ worker.pc = "clear" /\ worker'.pc = "unlink" /\ worker'.gen = worker.gen
      /\ worker'.model = worker.model /\ worker'.startup = worker.startup
  BY <1>1, Typing DEF Clears, At, Goes, Worker, Disk
<1>3. /\ Occupied' /\ Behind' /\ AtFirst' /\ Pressed' /\ Reported' /\ AbsorbedOnce'
      /\ InstallsAlone' /\ Condemning' /\ Buried' /\ InOrder' /\ OneSuccess' /\ EndsUnready'
      /\ ModelGoes' /\ ReadyGoes' /\ WordsDated' /\ WordIsTrue'
  BY <1>2, Fields DEF WInv, Occupied, Behind, AtFirst, Pressed, Reported, AbsorbedOnce,
      InstallsAlone, Condemning, Buried, InOrder, OneSuccess, EndsUnready, ModelGoes, ReadyGoes,
      WordsDated, WordIsTrue, Live, Sharp, SavingNow, Virgin, Locked, Setting, Installing,
      Erasing, Removing, Ending, StartUp, Consented, Resting, LastWord
<1>4. QED
  BY <1>3 DEF WInv

LEMMA UnlinksShows ==
    ASSUME TypeOK, TypeOK', IInv, IInv', WInv, Unlinks PROVE WInv'
<1>1. shared \in Shared /\ worker \in Worker /\ disk \in Disk /\ ghost \in Ghost /\ record \in Records
  BY Typing
<1>2. /\ UNCHANGED <<record, gui, shared, mailbox, saving, ghost>>
      /\ disk.assets # {} \/ disk'.assets = disk.assets
      /\ worker'.pc = IF disk.assets = {} THEN "forget" ELSE "unlink"
      /\ worker.pc = "unlink" /\ worker'.gen = worker.gen /\ worker'.model = worker.model
      /\ worker'.startup = worker.startup
  BY <1>1, Typing DEF Unlinks, At, Worker, Disk
<1>3. /\ Occupied' /\ Behind' /\ AtFirst' /\ Pressed' /\ Reported' /\ AbsorbedOnce'
      /\ InstallsAlone' /\ Condemning' /\ Buried' /\ InOrder' /\ OneSuccess' /\ EndsUnready'
      /\ ModelGoes' /\ ReadyGoes' /\ WordsDated' /\ WordIsTrue'
  BY <1>2, Fields DEF WInv, Occupied, Behind, AtFirst, Pressed, Reported, AbsorbedOnce,
      InstallsAlone, Condemning, Buried, InOrder, OneSuccess, EndsUnready, ModelGoes, ReadyGoes,
      WordsDated, WordIsTrue, Live, Sharp, SavingNow, Virgin, Locked, Setting, Installing,
      Erasing, Removing, Ending, StartUp, Consented, Resting, LastWord
<1>4. QED
  BY <1>3 DEF WInv

LEMMA ForgetsShows ==
    ASSUME TypeOK, TypeOK', IInv, IInv', WInv, Forgets PROVE WInv'
<1>1. shared \in Shared /\ worker \in Worker /\ disk \in Disk /\ ghost \in Ghost /\ record \in Records
  BY Typing
<1>2. /\ UNCHANGED <<gui, shared, saving>> /\ worker.pc = "forget"
      /\ worker'.pc = IF worker.startup = "no" THEN "unrequest" ELSE "resume"
      /\ worker'.gen = worker.gen /\ worker'.model = worker.model
      /\ worker'.startup = worker.startup /\ ~record'.version /\ ~record'.cleanup
      /\ record'.enabled = worker.base.enabled /\ disk'.assets = disk.assets
      /\ ghost'.overtaken <=> ghost.overtaken \/ worker.base # record
      /\ ghost'.missed = ghost.missed /\ ghost'.mute = ghost.mute
      /\ ghost'.crossed = ghost.crossed
  BY <1>1, Typing DEF Forgets, Finishes, Persisted, At, Worker, Records, Disk, Ghost
<1>3. Posting(mailbox, mailbox', worker.gen, "failed", TRUE)
  BY Posted, Fields DEF Forgets, Finishes, At, Says
<1>4. Relations(mailbox) /\ Relations(mailbox')
  BY Related DEF TypeOK
<1>5. /\ Occupied' /\ Behind' /\ Pressed' /\ InstallsAlone' /\ Condemning' /\ Buried'
      /\ OneSuccess'
  BY <1>2, <1>3, Fields DEF WInv, Occupied, Behind, Pressed, InstallsAlone, Condemning, Buried,
      OneSuccess, Live, Sharp, Setting, Installing, Erasing, Removing, Ending, StartUp, Posting
<1>6. AtFirst'
  BY <1>2, <1>3, Fields DEF WInv, AtFirst, IInv, Cleared, SavingNow, Virgin, Locked, Posting
<1>7. Reported'
  BY <1>2, <1>3, Fields DEF WInv, Reported, Behind, Live, Erasing, Removing, Ending, StartUp,
      Posting
<1>8. AbsorbedOnce'
  BY <1>2, <1>3, <1>4, Fields DEF WInv, AbsorbedOnce, OneSuccess, Live, Sharp, SavingNow, Virgin,
      Setting, Installing, Removing, Ending, Posting, Relations
<1>9. InOrder'
  BY <1>2, <1>3, Fields DEF WInv, InOrder, WordsDated, Live, Sharp, Installing, Erasing, Removing,
      Ending, StartUp, Posting
<1>10. EndsUnready'
  BY <1>2, <1>3, <1>4, Fields DEF WInv, EndsUnready, Condemning, Buried, Live, Sharp, Removing,
      Ending, StartUp, Posting, Relations
<1>11. ModelGoes'
  BY <1>2, <1>3, Fields DEF WInv, ModelGoes, IInv, Cleared, Live, Sharp, Consented, Posting
<1>12. ReadyGoes'
  BY <1>2, <1>3, Fields DEF WInv, ReadyGoes, Behind, Condemning, Buried, Live, Sharp, Erasing,
      Removing, Ending, StartUp, Consented, Posting
<1>13. WordsDated'
  BY <1>2, <1>3, Fields DEF WInv, WordsDated, Behind, Live, Sharp, Erasing, Removing, Ending,
      StartUp, Posting
<1>14. WordIsTrue'
  BY <1>2, <1>3, Fields DEF WInv, WordIsTrue, IInv, Cleared, Live, Sharp, Resting, LastWord,
      Posting
<1>15. QED
  BY <1>5, <1>6, <1>7, <1>8, <1>9, <1>10, <1>11, <1>12, <1>13, <1>14 DEF WInv

LEMMA RemovalFailsShows ==
    ASSUME TypeOK, TypeOK', IInv, IInv', WInv, RemovalFails PROVE WInv'
<1>1. shared \in Shared /\ worker \in Worker /\ disk \in Disk /\ ghost \in Ghost /\ record \in Records
  BY Typing
<1>2. /\ UNCHANGED <<record, gui, shared, saving, ghost>> /\ worker.pc \in Erasing
      /\ disk.assets = {} => disk'.assets = {}
      /\ worker'.pc = IF worker.startup = "no" THEN "unrequest" ELSE "resume"
      /\ worker'.gen = worker.gen /\ worker'.model = worker.model
      /\ worker'.startup = worker.startup
  BY <1>1, Typing DEF RemovalFails, Finishes, Erasing, Removing, At, Worker, Disk
<1>3. Posting(mailbox, mailbox', worker.gen, "failed", TRUE)
  BY Posted, Fields DEF RemovalFails, Finishes, At, Says
<1>4. /\ Occupied' /\ Behind' /\ AbsorbedOnce' /\ InstallsAlone' /\ Condemning' /\ Buried'
      /\ EndsUnready'
  BY <1>2, <1>3, Fields DEF WInv, Occupied, Behind, AbsorbedOnce, InstallsAlone, Condemning,
      Buried, EndsUnready, Live, Sharp, SavingNow, Virgin, Setting, Installing, Erasing, Removing,
      Ending, StartUp, Posting
<1>5. AtFirst'
  BY <1>2, <1>3, Fields DEF WInv, AtFirst, WordsDated, IInv, Cleared, Live, Sharp, SavingNow,
      Virgin, Locked, Erasing, Removing, Ending, StartUp, Posting
<1>6. Pressed'
  BY <1>2, <1>3, Fields DEF WInv, Pressed, WordsDated, Live, Sharp, Erasing, Removing, Ending,
      StartUp, Posting
<1>7. Reported'
  BY <1>2, <1>3, Fields DEF WInv, Reported, Behind, Live, Erasing, Removing, Ending, StartUp,
      Posting
<1>8. InOrder'
  BY <1>2, <1>3, Fields DEF WInv, InOrder, WordsDated, Live, Sharp, Installing, Erasing, Removing,
      Ending, StartUp, Posting
<1>9. OneSuccess'
  BY <1>2, <1>3, Fields DEF WInv, OneSuccess, WordsDated, Live, Sharp, Setting, Installing,
      Erasing, Removing, Ending, StartUp, Posting
<1>10. ModelGoes'
  BY <1>2, <1>3, Fields DEF WInv, ModelGoes, IInv, Cleared, Live, Sharp, Consented, Posting
<1>11. ReadyGoes'
  BY <1>2, <1>3, Fields DEF WInv, ReadyGoes, Behind, Live, Sharp, Erasing, Removing, Ending,
      StartUp, Consented, Posting
<1>12. WordsDated'
  BY <1>2, <1>3, Fields DEF WInv, WordsDated, Behind, Live, Sharp, Erasing, Removing, Ending,
      StartUp, Posting
<1>13. WordIsTrue'
  BY <1>2, <1>3, Fields DEF WInv, WordIsTrue, IInv, Cleared, Live, Sharp, Resting, LastWord,
      Posting
<1>14. QED
  BY <1>4, <1>5, <1>6, <1>7, <1>8, <1>9, <1>10, <1>11, <1>12, <1>13 DEF WInv

LEMMA ResumesShows ==
    ASSUME TypeOK, TypeOK', IInv, IInv', WInv, Resumes PROVE WInv'
<1>1. shared \in Shared /\ worker \in Worker /\ disk \in Disk /\ ghost \in Ghost /\ record \in Records
  BY Typing
<1>2. /\ UNCHANGED <<record, disk, gui, shared, mailbox, saving, ghost>> /\ worker.pc = "resume"
      /\ worker'.pc = IF record.cleanup THEN "idle" ELSE "checks"
      /\ worker'.gen = worker.gen /\ worker'.model = worker.model
      /\ worker'.startup = worker.startup
  BY <1>1, Typing DEF Resumes, At, Goes, Alone, Worker
<1>3. /\ Occupied' /\ Behind' /\ AtFirst' /\ Pressed' /\ Reported' /\ AbsorbedOnce'
      /\ InstallsAlone' /\ Condemning' /\ Buried' /\ InOrder' /\ OneSuccess' /\ EndsUnready'
      /\ ModelGoes' /\ ReadyGoes' /\ WordsDated' /\ WordIsTrue'
  BY <1>2, Fields DEF WInv, Occupied, Behind, AtFirst, Pressed, Reported, AbsorbedOnce,
      InstallsAlone, Condemning, Buried, InOrder, OneSuccess, EndsUnready, ModelGoes, ReadyGoes,
      WordsDated, WordIsTrue, Live, Sharp, SavingNow, Virgin, Locked, Setting, Installing,
      Erasing, Removing, Ending, StartUp, Consented, Resting, LastWord
<1>4. QED
  BY <1>3 DEF WInv

LEMMA UnrequestsShows ==
    ASSUME TypeOK, TypeOK', IInv, IInv', WInv, Unrequests PROVE WInv'
<1>1. shared \in Shared /\ worker \in Worker /\ disk \in Disk /\ ghost \in Ghost /\ record \in Records
  BY Typing
<1>2. /\ UNCHANGED <<record, disk, gui, mailbox, saving>> /\ worker.pc = "unrequest"
      /\ worker'.pc = "idle" /\ worker'.gen = worker.gen /\ worker'.model = worker.model
      /\ worker'.startup = worker.startup /\ shared'.removal = shared.removal
      /\ shared'.cancel = shared.cancel /\ shared'.closed = shared.closed /\ ~shared'.removing
      /\ shared'.setup = shared.setup /\ shared'.load = shared.load
      /\ shared'.release = shared.release /\ ghost'.missed = ghost.missed
      /\ ghost'.mute = ghost.mute /\ ghost'.overtaken = ghost.overtaken
      /\ ghost'.crossed <=> ghost.crossed \/ (shared.removing /\ shared.removal # worker.gen)
  BY <1>1, Typing DEF Unrequests, At, Goes, Worker, Shared, Ghost
<1>3. Relations(mailbox) /\ Relations(mailbox')
  BY Related DEF TypeOK
<1>4. /\ Occupied' /\ Behind' /\ AtFirst' /\ Pressed' /\ AbsorbedOnce' /\ InstallsAlone'
      /\ Condemning' /\ Buried' /\ InOrder' /\ OneSuccess' /\ EndsUnready'
  BY <1>2, Fields DEF WInv, Occupied, Behind, AtFirst, Pressed, AbsorbedOnce, InstallsAlone,
      Condemning, Buried, InOrder, OneSuccess, EndsUnready, Live, Sharp, SavingNow, Virgin,
      Locked, Setting, Installing, Erasing, Removing, Ending, StartUp
<1>5. Reported'
  BY <1>2, <1>3, Fields DEF WInv, Reported, Live, Removing, Ending, StartUp, Relations
<1>6. ModelGoes'
  BY <1>2, Fields DEF WInv, ModelGoes, IInv, Cleared, Live, Sharp, Consented
<1>7. ReadyGoes'
  BY <1>2, <1>3, Fields DEF WInv, ReadyGoes, InOrder, OneSuccess, EndsUnready, Live, Sharp,
      Setting, Installing, Erasing, Removing, Ending, StartUp, Consented, Relations
<1>8. WordsDated'
  BY <1>2, <1>3, Fields DEF WInv, WordsDated, Buried, InOrder, OneSuccess, EndsUnready, Live,
      Sharp, Setting, Installing, Erasing, Removing, Ending, StartUp, Relations
<1>9. WordIsTrue'
  BY <1>2, Fields DEF WInv, WordIsTrue, InOrder, Live, Sharp, Installing, Erasing, Removing,
      StartUp, Resting, LastWord
<1>10. QED
  BY <1>4, <1>5, <1>6, <1>7, <1>8, <1>9 DEF WInv

LEMMA RefusesShows ==
    ASSUME TypeOK, TypeOK', IInv, IInv', WInv, Installs, shared.closed \/ shared.cancel PROVE WInv'
<1>1. shared \in Shared /\ worker \in Worker /\ disk \in Disk /\ ghost \in Ghost /\ record \in Records
  BY Typing
<1>2. /\ UNCHANGED <<record, disk, gui, shared, saving, ghost>> /\ worker.pc = "install"
      /\ worker'.pc = "idle" /\ worker'.gen = shared.generation /\ worker'.model = worker.model
      /\ worker'.startup = worker.startup
  BY <1>1, Typing DEF Installs, At, Alone, Worker
<1>3. Posting(mailbox, mailbox', shared.generation, "working", TRUE)
  <2>1. Sends(shared.generation, "working", TRUE)
    BY <1>1, <1>2, Fields DEF Installs, Worker
  <2>2. QED
    BY <2>1, Posted, Fields DEF Says
<1>4. /\ Behind' /\ AtFirst' /\ Pressed' /\ Reported' /\ AbsorbedOnce' /\ InstallsAlone'
      /\ Condemning' /\ Buried' /\ EndsUnready' /\ ReadyGoes' /\ WordsDated'
  BY <1>2, <1>3, Fields DEF WInv, Behind, AtFirst, Pressed, Reported, AbsorbedOnce, InstallsAlone,
      Condemning, Buried, EndsUnready, ReadyGoes, WordsDated, Live, Sharp, SavingNow, Virgin,
      Locked, Installing, Erasing, Removing, Ending, StartUp, Consented, Posting
<1>5. Occupied'
  BY <1>2, <1>3, Fields DEF WInv, Occupied, IInv, Dated, Live, Setting, Installing, Erasing,
      Removing, Ending, Posting
<1>6. InOrder'
  BY <1>2, <1>3, Fields DEF WInv, InOrder, InstallsAlone, Live, Sharp, Installing, Erasing,
      Removing, StartUp, Posting
<1>7. OneSuccess'
  BY <1>2, <1>3, Fields DEF WInv, OneSuccess, InstallsAlone, IInv, SettingUp, Live, Sharp,
      Setting, Installing, Removing, Ending, Posting
<1>8. ModelGoes'
  BY <1>2, <1>3, Fields DEF WInv, ModelGoes, InstallsAlone, Live, Sharp, Installing, Consented,
      Posting
<1>9. WordIsTrue'
  BY <1>2, <1>3, Fields DEF WInv, WordIsTrue, InstallsAlone, Live, Sharp, Installing, Resting,
      LastWord, Posting
<1>10. QED
  BY <1>4, <1>5, <1>6, <1>7, <1>8, <1>9 DEF WInv

LEMMA InstallsShows ==
    ASSUME TypeOK, TypeOK', IInv, IInv', WInv, Installs, ~(shared.closed \/ shared.cancel) PROVE WInv'
<1>1. shared \in Shared /\ worker \in Worker /\ disk \in Disk /\ ghost \in Ghost /\ record \in Records
  BY Typing
<1>2. /\ UNCHANGED <<record, disk, gui, shared, mailbox, saving, ghost>>
      /\ worker.pc = "install" /\ worker'.pc = "consent" /\ worker'.gen = shared.generation
      /\ worker'.model = worker.model /\ worker'.startup = worker.startup
  BY <1>1, Typing DEF Installs, At, Alone, Worker
<1>3. Relations(mailbox) /\ Relations(mailbox')
  BY Related DEF TypeOK
<1>4. /\ Behind' /\ AtFirst' /\ Pressed' /\ Reported' /\ AbsorbedOnce' /\ InstallsAlone'
      /\ Condemning' /\ Buried' /\ OneSuccess' /\ EndsUnready' /\ ModelGoes' /\ ReadyGoes'
      /\ WordsDated' /\ WordIsTrue'
  BY <1>2, Fields DEF WInv, Behind, AtFirst, Pressed, Reported, AbsorbedOnce, InstallsAlone,
      Condemning, Buried, OneSuccess, EndsUnready, ModelGoes, ReadyGoes, WordsDated, WordIsTrue,
      Live, Sharp, SavingNow, Virgin, Locked, Setting, Installing, Erasing, Removing, Ending,
      StartUp, Consented, Resting, LastWord
<1>5. Occupied'
  BY <1>2, Fields DEF WInv, Occupied, IInv, Dated, Live, Setting, Installing, Erasing, Removing,
      Ending
<1>6. InOrder'
  BY <1>2, <1>3, Fields DEF WInv, InOrder, IInv, Dated, Live, Sharp, Installing, Erasing,
      Removing, StartUp, Relations
<1>7. QED
  BY <1>4, <1>5, <1>6 DEF WInv

LEMMA CancelledShows ==
    ASSUME TypeOK, TypeOK', IInv, IInv', WInv, Cancelled PROVE WInv'
<1>1. shared \in Shared /\ worker \in Worker /\ disk \in Disk /\ ghost \in Ghost /\ record \in Records
  BY Typing
<1>2. /\ UNCHANGED <<record, disk, gui, shared, mailbox, saving, ghost>>
      /\ worker.pc \in {"consent", "fetch", "bench", "benched", "marked"}
      /\ worker'.pc = IF worker.pc = "marked" THEN "unmarking" ELSE "undo"
      /\ worker'.gen = worker.gen /\ worker'.model = worker.model
      /\ worker'.startup = worker.startup
  BY <1>1, Typing DEF Cancelled, Following, At, Alone, Worker
<1>3. /\ Occupied' /\ Behind' /\ AtFirst' /\ Pressed' /\ Reported' /\ AbsorbedOnce'
      /\ InstallsAlone' /\ Condemning' /\ Buried' /\ InOrder' /\ OneSuccess' /\ EndsUnready'
      /\ ModelGoes' /\ ReadyGoes' /\ WordsDated' /\ WordIsTrue'
  BY <1>2, Fields DEF WInv, Occupied, Behind, AtFirst, Pressed, Reported, AbsorbedOnce,
      InstallsAlone, Condemning, Buried, InOrder, OneSuccess, EndsUnready, ModelGoes, ReadyGoes,
      WordsDated, WordIsTrue, Live, Sharp, SavingNow, Virgin, Locked, Setting, Installing,
      Erasing, Removing, Ending, StartUp, Consented, Resting, LastWord
<1>4. QED
  BY <1>3 DEF WInv

LEMMA MergesShows ==
    ASSUME TypeOK, TypeOK', IInv, IInv', WInv, Merges PROVE WInv'
<1>1. shared \in Shared /\ worker \in Worker /\ disk \in Disk /\ ghost \in Ghost /\ record \in Records
  BY Typing
<1>2. /\ UNCHANGED <<record, disk, gui, shared, mailbox, saving, ghost>>
      /\ (worker.pc = "consent" /\ worker'.pc = "consenting") \/ (worker.pc = "benched" /\ worker'.pc = "marking")
      /\ worker'.gen = worker.gen /\ worker'.model = worker.model
      /\ worker'.startup = worker.startup
  BY <1>1, Typing DEF Merges, Following, Alone, Worker
<1>3. /\ Occupied' /\ Behind' /\ AtFirst' /\ Pressed' /\ Reported' /\ AbsorbedOnce'
      /\ InstallsAlone' /\ Condemning' /\ Buried' /\ InOrder' /\ OneSuccess' /\ EndsUnready'
      /\ ModelGoes' /\ ReadyGoes' /\ WordsDated' /\ WordIsTrue'
  BY <1>2, Fields DEF WInv, Occupied, Behind, AtFirst, Pressed, Reported, AbsorbedOnce,
      InstallsAlone, Condemning, Buried, InOrder, OneSuccess, EndsUnready, ModelGoes, ReadyGoes,
      WordsDated, WordIsTrue, Live, Sharp, SavingNow, Virgin, Locked, Setting, Installing,
      Erasing, Removing, Ending, StartUp, Consented, Resting, LastWord
<1>4. QED
  BY <1>3 DEF WInv

LEMMA ConsentsShows ==
    ASSUME TypeOK, TypeOK', IInv, IInv', WInv, Consents PROVE WInv'
<1>1. shared \in Shared /\ worker \in Worker /\ disk \in Disk /\ ghost \in Ghost /\ record \in Records
  BY Typing
<1>2. /\ UNCHANGED <<gui, shared, saving>> /\ worker.pc = "consenting" /\ worker'.pc = "fetch"
      /\ worker'.gen = worker.gen /\ worker'.model = worker.model
      /\ worker'.startup = worker.startup /\ ~record'.version
      /\ record'.cleanup = worker.base.cleanup /\ record'.enabled = worker.base.enabled
      /\ disk'.assets = disk.assets
      /\ ghost'.overtaken <=> ghost.overtaken \/ worker.base # record
      /\ ghost'.missed = ghost.missed /\ ghost'.mute = ghost.mute
      /\ ghost'.crossed = ghost.crossed
  BY <1>1, Typing DEF Consents, Persisted, At, Goes, Worker, Records, Disk, Ghost
<1>3. Posting(mailbox, mailbox', worker.gen, "working", FALSE)
  BY Posted, Fields DEF Consents, At, Goes, Says
<1>4. Relations(mailbox) /\ Relations(mailbox')
  BY Related DEF TypeOK
<1>5. /\ Occupied' /\ Behind' /\ AtFirst' /\ Pressed' /\ Reported' /\ InstallsAlone'
      /\ Condemning' /\ Buried' /\ InOrder' /\ OneSuccess' /\ ModelGoes' /\ WordsDated'
      /\ WordIsTrue'
  BY <1>2, <1>3, Fields DEF WInv, Occupied, Behind, AtFirst, Pressed, Reported, InstallsAlone,
      Condemning, Buried, InOrder, OneSuccess, ModelGoes, WordsDated, WordIsTrue, Live, Sharp,
      SavingNow, Virgin, Locked, Setting, Installing, Erasing, Removing, Ending, StartUp,
      Consented, Resting, LastWord, Posting
<1>6. AbsorbedOnce'
  BY <1>2, <1>3, <1>4, Fields DEF WInv, AbsorbedOnce, IInv, SettingUp, Live, SavingNow, Virgin,
      Setting, Installing, Removing, Posting, Relations
<1>7. EndsUnready'
  BY <1>2, <1>3, <1>4, Fields DEF WInv, EndsUnready, IInv, SettingUp, Live, Sharp, Setting,
      Installing, Removing, Posting, Relations
<1>8. ReadyGoes'
  BY <1>2, <1>3, Fields DEF WInv, ReadyGoes, IInv, SettingUp, Live, Sharp, Setting, Installing,
      Removing, Ending, Consented, Posting
<1>9. QED
  BY <1>5, <1>6, <1>7, <1>8 DEF WInv

LEMMA FetchesShows ==
    ASSUME TypeOK, TypeOK', IInv, IInv', WInv, Fetches PROVE WInv'
<1>1. shared \in Shared /\ worker \in Worker /\ disk \in Disk /\ ghost \in Ghost /\ record \in Records
  BY Typing
<1>2. /\ UNCHANGED <<record, gui, shared, mailbox, saving, ghost>>
      /\ worker'.pc \in {"fetch", "bench"} /\ worker.pc = "fetch" /\ worker'.gen = worker.gen
      /\ worker'.model = worker.model /\ worker'.startup = worker.startup
  BY <1>1, Typing DEF Fetches, At, Goes, Worker, Disk
<1>3. /\ Occupied' /\ Behind' /\ AtFirst' /\ Pressed' /\ Reported' /\ AbsorbedOnce'
      /\ InstallsAlone' /\ Condemning' /\ Buried' /\ InOrder' /\ OneSuccess' /\ EndsUnready'
      /\ ModelGoes' /\ ReadyGoes' /\ WordsDated' /\ WordIsTrue'
  BY <1>2, Fields DEF WInv, Occupied, Behind, AtFirst, Pressed, Reported, AbsorbedOnce,
      InstallsAlone, Condemning, Buried, InOrder, OneSuccess, EndsUnready, ModelGoes, ReadyGoes,
      WordsDated, WordIsTrue, Live, Sharp, SavingNow, Virgin, Locked, Setting, Installing,
      Erasing, Removing, Ending, StartUp, Consented, Resting, LastWord
<1>4. QED
  BY <1>3 DEF WInv

LEMMA BenchesShows ==
    ASSUME TypeOK, TypeOK', IInv, IInv', WInv, Benches PROVE WInv'
<1>1. shared \in Shared /\ worker \in Worker /\ disk \in Disk /\ ghost \in Ghost /\ record \in Records
  BY Typing
<1>2. /\ UNCHANGED <<record, disk, gui, shared, mailbox, saving, ghost>> /\ worker.pc = "bench"
      /\ worker'.pc = "benched" /\ worker'.gen = worker.gen /\ worker'.model
      /\ worker'.startup = worker.startup
  BY <1>1, Typing DEF Benches, Following, At, Alone, Worker
<1>3. /\ Occupied' /\ Behind' /\ AtFirst' /\ Pressed' /\ Reported' /\ AbsorbedOnce'
      /\ InstallsAlone' /\ Condemning' /\ Buried' /\ InOrder' /\ OneSuccess' /\ EndsUnready'
      /\ ModelGoes' /\ ReadyGoes' /\ WordsDated' /\ WordIsTrue'
  BY <1>2, Fields DEF WInv, Occupied, Behind, AtFirst, Pressed, Reported, AbsorbedOnce,
      InstallsAlone, Condemning, Buried, InOrder, OneSuccess, EndsUnready, ModelGoes, ReadyGoes,
      WordsDated, WordIsTrue, Live, Sharp, SavingNow, Virgin, Locked, Setting, Installing,
      Erasing, Removing, Ending, StartUp, Consented, Resting, LastWord
<1>4. QED
  BY <1>3 DEF WInv

LEMMA MarksShows ==
    ASSUME TypeOK, TypeOK', IInv, IInv', WInv, Marks("marking", TRUE, "marked") PROVE WInv'
<1>1. shared \in Shared /\ worker \in Worker /\ disk \in Disk /\ ghost \in Ghost /\ record \in Records
  BY Typing
<1>2. /\ UNCHANGED <<gui, shared, mailbox, saving>> /\ worker.pc = "marking"
      /\ worker'.pc = "marked" /\ worker'.gen = worker.gen /\ worker'.model = worker.model
      /\ worker'.startup = worker.startup /\ record'.version
      /\ record'.cleanup = worker.base.cleanup /\ record'.enabled = worker.base.enabled
      /\ disk'.assets = disk.assets
      /\ ghost'.overtaken <=> ghost.overtaken \/ worker.base # record
      /\ ghost'.missed = ghost.missed /\ ghost'.mute = ghost.mute
      /\ ghost'.crossed = ghost.crossed
  BY <1>1, Typing DEF Marks, Persisted, At, Goes, Worker, Records, Disk, Ghost
<1>3. Relations(mailbox) /\ Relations(mailbox')
  BY Related DEF TypeOK
<1>4. /\ Occupied' /\ Behind' /\ AtFirst' /\ Pressed' /\ Reported' /\ InstallsAlone' /\ InOrder'
      /\ OneSuccess' /\ EndsUnready' /\ ModelGoes' /\ ReadyGoes' /\ WordIsTrue'
  BY <1>2, Fields DEF WInv, Occupied, Behind, AtFirst, Pressed, Reported, InstallsAlone, InOrder,
      OneSuccess, EndsUnready, ModelGoes, ReadyGoes, WordIsTrue, Live, Sharp, SavingNow, Virgin,
      Locked, Setting, Installing, Erasing, Removing, Ending, StartUp, Consented, Resting,
      LastWord
<1>5. AbsorbedOnce'
  BY <1>2, <1>3, Fields DEF WInv, AbsorbedOnce, IInv, SettingUp, Live, SavingNow, Virgin, Setting,
      Installing, Removing, Relations
<1>6. Condemning'
  BY <1>2, Fields DEF WInv, Condemning, InstallsAlone, Live, Sharp, Installing, Removing, Ending
<1>7. Buried'
  BY <1>2, Fields DEF WInv, Buried, InstallsAlone, Live, Sharp, Installing, StartUp
<1>8. WordsDated'
  BY <1>2, <1>3, Fields DEF WInv, WordsDated, InstallsAlone, IInv, SettingUp, Live, Sharp,
      Setting, Installing, Erasing, Removing, Ending, StartUp, Relations
<1>9. QED
  BY <1>4, <1>5, <1>6, <1>7, <1>8 DEF WInv

LEMMA UnmarksShows ==
    ASSUME TypeOK, TypeOK', IInv, IInv', WInv, Marks("unmarking", FALSE, "undo") PROVE WInv'
<1>1. shared \in Shared /\ worker \in Worker /\ disk \in Disk /\ ghost \in Ghost /\ record \in Records
  BY Typing
<1>2. /\ UNCHANGED <<gui, shared, mailbox, saving>> /\ worker.pc = "unmarking"
      /\ worker'.pc = "undo" /\ worker'.gen = worker.gen /\ worker'.model = worker.model
      /\ worker'.startup = worker.startup /\ ~record'.version
      /\ record'.cleanup = worker.base.cleanup /\ record'.enabled = worker.base.enabled
      /\ disk'.assets = disk.assets
      /\ ghost'.overtaken <=> ghost.overtaken \/ worker.base # record
      /\ ghost'.missed = ghost.missed /\ ghost'.mute = ghost.mute
      /\ ghost'.crossed = ghost.crossed
  BY <1>1, Typing DEF Marks, Persisted, At, Goes, Worker, Records, Disk, Ghost
<1>3. Relations(mailbox) /\ Relations(mailbox')
  BY Related DEF TypeOK
<1>4. /\ Occupied' /\ Behind' /\ AtFirst' /\ Pressed' /\ Reported' /\ InstallsAlone'
      /\ Condemning' /\ Buried' /\ InOrder' /\ OneSuccess' /\ ModelGoes' /\ WordsDated'
      /\ WordIsTrue'
  BY <1>2, Fields DEF WInv, Occupied, Behind, AtFirst, Pressed, Reported, InstallsAlone,
      Condemning, Buried, InOrder, OneSuccess, ModelGoes, WordsDated, WordIsTrue, Live, Sharp,
      SavingNow, Virgin, Locked, Setting, Installing, Erasing, Removing, Ending, StartUp,
      Consented, Resting, LastWord
<1>5. AbsorbedOnce'
  BY <1>2, <1>3, Fields DEF WInv, AbsorbedOnce, IInv, SettingUp, Live, SavingNow, Virgin, Setting,
      Installing, Removing, Relations
<1>6. EndsUnready'
  BY <1>2, <1>3, Fields DEF WInv, EndsUnready, IInv, SettingUp, Live, Sharp, Setting, Installing,
      Removing, Relations
<1>7. ReadyGoes'
  BY <1>2, Fields DEF WInv, ReadyGoes, IInv, SettingUp, Live, Sharp, Setting, Installing,
      Removing, Ending, Consented
<1>8. QED
  BY <1>4, <1>5, <1>6, <1>7 DEF WInv

LEMMA SetUpEndsShows ==
    ASSUME TypeOK, TypeOK', IInv, IInv', WInv, SetUpEnds PROVE WInv'
<1>1. shared \in Shared /\ worker \in Worker /\ disk \in Disk /\ ghost \in Ghost /\ record \in Records
  BY Typing
<1>2. /\ UNCHANGED <<record, disk, gui, shared, saving>> /\ worker.pc = "marked"
      /\ worker'.pc = "idle" /\ worker'.gen = worker.gen /\ worker'.model = record.enabled
      /\ worker'.startup = worker.startup /\ ghost'.missed = ghost.missed /\ ~ghost'.mute
      /\ ghost'.overtaken = ghost.overtaken /\ ghost'.crossed = ghost.crossed
  BY <1>1, Typing DEF SetUpEnds, At, Worker, Ghost
<1>3. Posting(mailbox, mailbox', worker.gen, "ready", TRUE)
  BY Posted, Fields DEF SetUpEnds, At, Says
<1>4. Relations(mailbox) /\ Relations(mailbox')
  BY Related DEF TypeOK
<1>5. /\ Occupied' /\ Behind' /\ AtFirst' /\ Pressed' /\ Reported' /\ AbsorbedOnce'
      /\ InstallsAlone' /\ Condemning' /\ WordIsTrue'
  BY <1>2, <1>3, Fields DEF WInv, Occupied, Behind, AtFirst, Pressed, Reported, AbsorbedOnce,
      InstallsAlone, Condemning, WordIsTrue, Live, Sharp, SavingNow, Virgin, Locked, Setting,
      Installing, Erasing, Removing, Ending, StartUp, Resting, LastWord, Posting
<1>6. Buried'
  BY <1>2, <1>3, Fields DEF WInv, Buried, InstallsAlone, Live, Sharp, Installing, StartUp, Posting
<1>7. InOrder'
  BY <1>2, <1>3, Fields DEF WInv, InOrder, InstallsAlone, Live, Sharp, Installing, Erasing,
      Removing, StartUp, Posting
<1>8. OneSuccess'
  BY <1>2, <1>3, Fields DEF WInv, OneSuccess, InstallsAlone, IInv, SettingUp, Live, Sharp,
      Setting, Installing, Removing, Ending, Posting
<1>9. EndsUnready'
  BY <1>2, <1>3, Fields DEF WInv, EndsUnready, InstallsAlone, Live, Sharp, Installing, Posting
<1>10. ModelGoes'
  BY <1>2, <1>3, Fields DEF WInv, ModelGoes, InstallsAlone, Live, Sharp, Installing, Consented,
      Posting
<1>11. ReadyGoes'
  BY <1>2, <1>3, Fields DEF WInv, ReadyGoes, InstallsAlone, Live, Sharp, Installing, Removing,
      Ending, Consented, Posting
<1>12. WordsDated'
  BY <1>2, <1>3, <1>4, Fields DEF WInv, WordsDated, Occupied, InstallsAlone, IInv, SettingUp,
      Live, Sharp, Setting, Installing, Erasing, Removing, Ending, StartUp, Posting, Relations
<1>13. QED
  BY <1>5, <1>6, <1>7, <1>8, <1>9, <1>10, <1>11, <1>12 DEF WInv

LEMMA InstallFailsShows ==
    ASSUME TypeOK, TypeOK', IInv, IInv', WInv, InstallFails PROVE WInv'
<1>1. shared \in Shared /\ worker \in Worker /\ disk \in Disk /\ ghost \in Ghost /\ record \in Records
  BY Typing
<1>2. /\ UNCHANGED <<record, disk, gui, shared, mailbox, saving, ghost>>
      /\ worker.pc \in {"consenting", "fetch", "bench", "marking", "unmarking"}
      /\ worker'.pc = "undo" /\ worker'.gen = worker.gen /\ worker'.model = worker.model
      /\ worker'.startup = worker.startup
  BY <1>1, Typing DEF InstallFails, At, Goes, Alone, Worker
<1>3. /\ Occupied' /\ Behind' /\ AtFirst' /\ Pressed' /\ Reported' /\ AbsorbedOnce'
      /\ InstallsAlone' /\ Condemning' /\ Buried' /\ InOrder' /\ OneSuccess' /\ EndsUnready'
      /\ ModelGoes' /\ ReadyGoes' /\ WordsDated' /\ WordIsTrue'
  BY <1>2, Fields DEF WInv, Occupied, Behind, AtFirst, Pressed, Reported, AbsorbedOnce,
      InstallsAlone, Condemning, Buried, InOrder, OneSuccess, EndsUnready, ModelGoes, ReadyGoes,
      WordsDated, WordIsTrue, Live, Sharp, SavingNow, Virgin, Locked, Setting, Installing,
      Erasing, Removing, Ending, StartUp, Consented, Resting, LastWord
<1>4. QED
  BY <1>3 DEF WInv

LEMMA UndoesShows ==
    ASSUME TypeOK, TypeOK', IInv, IInv', WInv, Undoes PROVE WInv'
<1>1. shared \in Shared /\ worker \in Worker /\ disk \in Disk /\ ghost \in Ghost /\ record \in Records
  BY Typing
<1>2. /\ UNCHANGED <<record, gui, shared, saving, ghost>> /\ worker'.pc \in {"idle", "leftover"}
      /\ worker'.pc = "leftover" => mailbox' = mailbox
      /\ worker.pc = "undo" /\ worker'.gen = worker.gen /\ ~worker'.model
      /\ worker'.startup = worker.startup
  BY <1>1, Typing DEF Undoes, At, Unloads, Worker
<1>3. worker'.pc = "idle" => Posting(mailbox, mailbox', worker.gen, "failed", TRUE)
  <2>1. worker'.pc = "idle" => Sends(worker.gen, "failed", TRUE)
    BY <1>1, <1>2, Fields DEF Undoes, Unloads, Worker
  <2>2. QED
    BY <2>1, Posted, Fields DEF Says
<1>4. Relations(mailbox) /\ Relations(mailbox')
  BY Related DEF TypeOK
<1>5. /\ Occupied' /\ Behind' /\ AtFirst' /\ Pressed' /\ Reported' /\ AbsorbedOnce'
      /\ InstallsAlone' /\ Condemning' /\ Buried' /\ OneSuccess' /\ EndsUnready' /\ ModelGoes'
      /\ WordIsTrue'
  BY <1>2, <1>3, Fields DEF WInv, Occupied, Behind, AtFirst, Pressed, Reported, AbsorbedOnce,
      InstallsAlone, Condemning, Buried, OneSuccess, EndsUnready, ModelGoes, WordIsTrue, Live,
      Sharp, SavingNow, Virgin, Locked, Setting, Installing, Erasing, Removing, Ending, StartUp,
      Consented, Resting, LastWord, Posting
<1>6. InOrder'
  BY <1>2, <1>3, Fields DEF WInv, InOrder, InstallsAlone, Live, Sharp, Installing, Erasing,
      Removing, StartUp, Posting
<1>7. ReadyGoes'
  BY <1>2, <1>3, <1>4, Fields DEF WInv, ReadyGoes, Occupied, IInv, SettingUp, Live, Sharp,
      Setting, Installing, Erasing, Removing, Ending, Consented, Posting, Relations
<1>8. WordsDated'
  BY <1>2, <1>3, <1>4, Fields DEF WInv, WordsDated, Occupied, InstallsAlone, IInv, SettingUp,
      Live, Sharp, Setting, Installing, Erasing, Removing, Ending, StartUp, Posting, Relations
<1>9. QED
  BY <1>5, <1>6, <1>7, <1>8 DEF WInv

LEMMA LeavesShows ==
    ASSUME TypeOK, TypeOK', IInv, IInv', WInv, Leaves PROVE WInv'
<1>1. shared \in Shared /\ worker \in Worker /\ disk \in Disk /\ ghost \in Ghost /\ record \in Records
  BY Typing
<1>2. /\ UNCHANGED <<gui, shared, saving>> /\ worker.pc = "leftover" /\ worker'.pc = "idle"
      /\ worker'.gen = worker.gen /\ worker'.model = worker.model
      /\ worker'.startup = worker.startup
      /\ \/ record' = record /\ ghost'.overtaken = ghost.overtaken
         \/ /\ ~record'.version /\ record'.cleanup /\ record'.enabled = worker.base.enabled
            /\ ghost'.overtaken <=> ghost.overtaken \/ worker.base # record
      /\ ghost'.missed = ghost.missed /\ ghost'.mute = ghost.mute
      /\ ghost'.crossed = ghost.crossed
  BY <1>1, Typing DEF Leaves, Tombstone, Persisted, At, Goes, Worker, Records, Ghost
<1>3. Posting(mailbox, mailbox', worker.gen, "failed", TRUE)
  BY Posted, Fields DEF Leaves, At, Goes, Says
<1>4. Relations(mailbox) /\ Relations(mailbox')
  BY Related DEF TypeOK
<1>5. /\ Occupied' /\ Behind' /\ AtFirst' /\ Pressed' /\ Reported' /\ InstallsAlone'
      /\ Condemning' /\ Buried' /\ OneSuccess' /\ ModelGoes'
  BY <1>2, <1>3, Fields DEF WInv, Occupied, Behind, AtFirst, Pressed, Reported, InstallsAlone,
      Condemning, Buried, OneSuccess, ModelGoes, Live, Sharp, SavingNow, Virgin, Locked, Setting,
      Installing, Erasing, Removing, Ending, StartUp, Consented, Posting
<1>6. AbsorbedOnce'
  BY <1>2, <1>3, <1>4, Fields DEF WInv, AbsorbedOnce, IInv, SettingUp, Live, SavingNow, Virgin,
      Setting, Installing, Removing, Posting, Relations
<1>7. InOrder'
  BY <1>2, <1>3, Fields DEF WInv, InOrder, InstallsAlone, Live, Sharp, Installing, Erasing,
      Removing, StartUp, Posting
<1>8. EndsUnready'
  BY <1>2, <1>3, <1>4, Fields DEF WInv, EndsUnready, IInv, SettingUp, Live, Sharp, Setting,
      Installing, Removing, Posting, Relations
<1>9. ReadyGoes'
  BY <1>2, <1>3, <1>4, Fields DEF WInv, ReadyGoes, Occupied, IInv, SettingUp, Live, Sharp,
      Setting, Installing, Erasing, Removing, Ending, Consented, Posting, Relations
<1>10. WordsDated'
  BY <1>2, <1>3, <1>4, Fields DEF WInv, WordsDated, Occupied, InstallsAlone, IInv, SettingUp,
      Live, Sharp, Setting, Installing, Erasing, Removing, Ending, StartUp, Posting, Relations
<1>11. WordIsTrue'
  BY <1>2, <1>3, Fields DEF WInv, WordIsTrue, ModelGoes, Live, Sharp, Consented, Resting,
      LastWord, Posting
<1>12. QED
  BY <1>5, <1>6, <1>7, <1>8, <1>9, <1>10, <1>11 DEF WInv

LEMMA DrainShows ==
    ASSUME TypeOK, TypeOK', IInv, IInv', WInv, Drain PROVE WInv'
<1>1. shared \in Shared /\ worker \in Worker /\ disk \in Disk /\ ghost \in Ghost /\ record \in Records
  BY Typing
<1>2. /\ UNCHANGED <<record, disk, worker>>
      /\ saving.slot \in {"none", "drain"} /\ saving'.slot \in {"none", "drain"}
      /\ ~shared.closed /\ mailbox # <<>> /\ mailbox' = Tail(mailbox)
      /\ shared'.removal = shared.removal /\ shared'.cancel = shared.cancel
      /\ shared'.closed = shared.closed /\ shared'.setup = shared.setup
      /\ shared'.load = shared.load /\ shared'.release = shared.release
      /\ ghost'.mute = ghost.mute /\ ghost'.overtaken = ghost.overtaken
      /\ ghost'.crossed = ghost.crossed
  BY <1>1, Typing DEF Drain, Shared, Ghost, Slots
<1>3. Head(mailbox) \in Updates /\ Dropping(mailbox, mailbox', Head(mailbox))
  BY <1>2, Taken, TailType
<1>4. Ignored(Head(mailbox)) \/ Dismissed(Head(mailbox)) \/ Shown(Head(mailbox))
  BY Heard
<1>5. Head(mailbox).generation \in Nat /\ Head(mailbox).generation <= shared.generation
  BY <1>2, <1>3, Dropped, Fields DEF IInv, Dated, Updates
<1>6. Relations(mailbox) /\ Relations(mailbox')
  BY Related DEF TypeOK
<1>7. Occupied'
  BY <1>2, <1>3, <1>4, <1>5, Fields DEF WInv, Occupied, Live, Setting, Installing, Erasing,
      Removing, Ending, Dropping, Ignored, Dismissed, Shown, Word
<1>8. Behind'
  BY <1>2, <1>3, <1>4, <1>5, Fields DEF WInv, Behind, Erasing, Removing, StartUp, Dropping,
      Ignored, Dismissed, Shown, Word
<1>9. AtFirst'
  BY <1>2, <1>3, <1>4, <1>5, Fields DEF WInv, AtFirst, SavingNow, Virgin, Locked, Dropping,
      Ignored, Dismissed, Shown, Word
<1>10. Pressed'
  BY <1>2, <1>3, <1>4, <1>5, Fields DEF WInv, Pressed, Removing, Ending, StartUp, Dropping,
      Ignored, Dismissed, Shown, Word
<1>11. Reported'
  <2>. DEFINE u == Head(mailbox)
  <2>1. Dropping(mailbox, mailbox', u) /\ (Ignored(u) \/ Dismissed(u) \/ Shown(u))
       /\ u.generation \in Nat
    BY <1>3, <1>4, <1>5
  <2>. HIDE DEF u
  <2>2. SUFFICES ASSUME gui'.checking, ~ghost'.missed PROVE Reported'
    BY DEF Reported
  <2>3. gui.checking /\ ~ghost.missed
    BY <2>1, <2>2 DEF Ignored, Dismissed, Shown, Word
  <2>4. Live /\ Absorbed(mailbox) => ~shared.removing
    BY <1>6, Fields DEF WInv, AbsorbedOnce, OneSuccess, Live, Sharp, Virgin, Relations
  <2>5. /\ Fails(mailbox, shared.removal) =>
              (u.says = "failed" /\ u.done /\ u.generation >= shared.removal) \/ Fails(mailbox', shared.removal)
        /\ Clearing(mailbox, shared.removal) =>
              \/ u.says \in {"ready", "failed", "released"} /\ u.generation >= shared.removal
              \/ Clearing(mailbox', shared.removal)
        /\ Missing(mailbox, shared.removal) =>
              (u.says = "uninstalled" /\ u.generation >= shared.removal) \/ Missing(mailbox', shared.removal)
        /\ Absorbed(mailbox') => Absorbed(mailbox)
    BY <2>1, Fields DEF Dropping
  <2>6. /\ ~(u.says = "failed" /\ u.done /\ u.generation >= shared.removal)
        /\ u.says \in {"ready", "failed", "released"} /\ u.generation >= shared.removal => shared.removing
        /\ u.says = "uninstalled" /\ u.generation >= shared.removal => shared.removing \/ gui.busy
    <3>1. CASE Ignored(u)
      BY <2>1, <3>1, Fields DEF Ignored
    <3>2. CASE Dismissed(u)
      BY <2>2, <3>2 DEF Dismissed
    <3>3. CASE Shown(u)
      BY <2>2, <3>3 DEF Shown
    <3>4. QED
      BY <2>1, <3>1, <3>2, <3>3
  <2>7. /\ shared'.removing \/ ~shared.removing \/ Absorbed(mailbox)
        /\ ~gui'.busy => ~gui.busy \/ Absorbed(mailbox)
    BY <2>1, <2>2 DEF Dropping, Ignored, Dismissed, Shown
  <2>8. QED
    BY <1>2, <2>3, <2>4, <2>5, <2>6, <2>7 DEF WInv, Reported, Live
<1>12. AbsorbedOnce'
  BY <1>2, <1>3, <1>4, <1>5, Fields DEF WInv, AbsorbedOnce, Live, SavingNow, Virgin, Dropping,
      Ignored, Dismissed, Shown, Word
<1>13. InstallsAlone'
  BY <1>2, <1>3, <1>4, <1>5, Fields DEF WInv, InstallsAlone, Live, Sharp, Installing, Dropping,
      Ignored, Dismissed, Shown, Word
<1>14. Condemning'
  BY <1>2, <1>3, <1>4, <1>5, Fields DEF WInv, Condemning, InOrder, Live, Sharp, Installing,
      Erasing, Removing, Ending, StartUp, Dropping, Ignored, Dismissed, Shown, Word
<1>15. Buried'
  BY <1>2, <1>3, <1>4, <1>5, Fields DEF WInv, Buried, Live, Sharp, StartUp, Dropping, Ignored,
      Dismissed, Shown, Word
<1>16. InOrder'
  BY <1>2, <1>3, <1>4, <1>5, Fields DEF WInv, InOrder, Condemning, OneSuccess, Live, Sharp,
      Setting, Installing, Erasing, Removing, Ending, StartUp, Dropping, Ignored, Dismissed,
      Shown, Word
<1>17. OneSuccess'
  BY <1>2, <1>3, <1>4, <1>5, <1>6, Fields DEF WInv, OneSuccess, Live, Sharp, Setting, Installing,
      Removing, Ending, Relations, Dropping, Ignored, Dismissed, Shown, Word
<1>18. EndsUnready'
  BY <1>2, <1>3, <1>4, <1>5, Fields DEF WInv, EndsUnready, Live, Sharp, Dropping, Ignored,
      Dismissed, Shown, Word
<1>19. ModelGoes'
  BY <1>2, <1>3, <1>4, <1>5, Fields DEF WInv, ModelGoes, Live, Sharp, Consented, Dropping,
      Ignored, Dismissed, Shown, Word
<1>20. ReadyGoes'
  BY <1>2, <1>3, <1>4, <1>5, <1>6, Fields DEF WInv, ReadyGoes, OneSuccess, EndsUnready, Live,
      Sharp, Setting, Installing, Removing, Ending, Consented, Relations, Dropping, Ignored,
      Dismissed, Shown, Word
<1>21. WordsDated'
  BY <1>2, <1>3, <1>4, <1>5, Fields DEF WInv, WordsDated, InOrder, Live, Sharp, Installing,
      Erasing, Removing, Ending, StartUp, Dropping, Ignored, Dismissed, Shown, Word
<1>22. WordIsTrue'
  BY <1>2, <1>3, <1>4, <1>5, <1>6, Fields DEF WInv, WordIsTrue, OneSuccess, WordsDated, Live,
      Sharp, Setting, Installing, Erasing, Removing, Ending, StartUp, Resting, LastWord,
      Relations, Dropping, Ignored, Dismissed, Shown, Word
<1>23. QED
  BY <1>7, <1>8, <1>9, <1>10, <1>11, <1>12, <1>13, <1>14, <1>15, <1>16, <1>17, <1>18, <1>19,
    <1>20, <1>21, <1>22 DEF WInv

LEMMA CrashShows == ASSUME Crash PROVE WInv'
<1>1. /\ gui'.checking /\ ~gui'.busy /\ ~gui'.ready /\ mailbox' = <<>>
      /\ shared'.removal = 0 /\ ~shared'.cancel /\ ~shared'.closed /\ ~shared'.removing
      /\ ~shared'.setup /\ ~shared'.load /\ ~shared'.release
      /\ saving'.slot = "none"
      /\ worker'.pc = "start" /\ worker'.gen = 0 /\ ~worker'.model /\ worker'.startup = "first"
      /\ ~ghost'.missed /\ ~ghost'.mute /\ ~ghost'.overtaken /\ ~ghost'.crossed
  BY DEF Crash, Checking, Fresh, NotSaving, AtStart
<1>2. Relations(mailbox')
  <2>1. <<>> \in Seq(Updates)
    OBVIOUS
  <2>2. Relations(<<>>)
    BY <2>1, Related
  <2>3. QED
    BY <1>1, <2>2
<1>3. /\ ~HasWord(mailbox') /\ ~SaysReady(mailbox') /\ ~Absorbed(mailbox') /\ Civil(mailbox')
      /\ WordsFollow(mailbox') /\ ~EndsReady(mailbox')
      /\ ~Answers(mailbox', 0) /\ ~Succeeds(mailbox', 0) /\ ~Outdated(mailbox', 0)
      /\ ReadyFirst(mailbox', 0)
  BY <1>1, <1>2 DEF Relations
<1>4. QED
  BY <1>1, <1>3
     DEF WInv, Occupied, Behind, AtFirst, Pressed, Reported, AbsorbedOnce, InstallsAlone, Condemning,
     Buried, InOrder, OneSuccess, EndsUnready, ModelGoes, ReadyGoes, WordsDated, WordIsTrue, LastWord,
     Live, Sharp, Virgin, SavingNow, Setting, Installing, Erasing, Ending, Removing, StartUp, Consented, Resting, Relations

LEMMA InitShows == ASSUME Init PROVE WInv
<1>1. /\ gui.checking /\ ~gui.busy /\ ~gui.ready /\ mailbox = <<>>
      /\ shared.removal = 0 /\ ~shared.cancel /\ ~shared.closed /\ ~shared.removing
      /\ ~shared.setup /\ ~shared.load /\ ~shared.release
      /\ saving.slot = "none"
      /\ worker.pc = "start" /\ worker.gen = 0 /\ ~worker.model /\ worker.startup = "first"
      /\ ~ghost.missed /\ ~ghost.mute /\ ~ghost.overtaken /\ ~ghost.crossed
  BY DEF Init, Starts, Checking, Fresh, NotSaving, AtStart
<1>2. Relations(mailbox)
  <2>1. <<>> \in Seq(Updates)
    OBVIOUS
  <2>2. Relations(<<>>)
    BY <2>1, Related
  <2>3. QED
    BY <1>1, <2>2
<1>3. /\ ~HasWord(mailbox) /\ ~SaysReady(mailbox) /\ ~Absorbed(mailbox) /\ Civil(mailbox)
      /\ WordsFollow(mailbox) /\ ~EndsReady(mailbox)
      /\ ~Answers(mailbox, 0) /\ ~Succeeds(mailbox, 0) /\ ~Outdated(mailbox, 0)
      /\ ReadyFirst(mailbox, 0)
  BY <1>1, <1>2 DEF Relations
<1>4. QED
  BY <1>1, <1>3
     DEF WInv, Occupied, Behind, AtFirst, Pressed, Reported, AbsorbedOnce, InstallsAlone, Condemning,
     Buried, InOrder, OneSuccess, EndsUnready, ModelGoes, ReadyGoes, WordsDated, WordIsTrue, LastWord,
     Live, Sharp, Virgin, SavingNow, Setting, Installing, Erasing, Ending, Removing, StartUp, Consented, Resting, Relations

\* Every step keeps it.
LEMMA NextShows == ASSUME TypeOK, TypeOK', IInv, IInv', WInv, [Next]_vars PROVE WInv'
<1>1. CASE UNCHANGED vars
  BY <1>1 DEF vars, WInv, Occupied, Behind, AtFirst, Pressed, Reported, AbsorbedOnce,
     InstallsAlone, Condemning, Buried, InOrder, OneSuccess, EndsUnready, ModelGoes, ReadyGoes,
     WordsDated, WordIsTrue, Live, Sharp, SavingNow, Virgin, Locked, Setting, Installing, Erasing,
     Removing, Ending, StartUp, Consented, Resting, LastWord
<1>2. CASE SetUp \/ Cancel \/ Saves \/ SaveFails \/ SavesEnd \/ Sample \/ Reset \/ Close \/ Drain
     \/ Crash
  BY <1>2, SetUpShows, CancelShows, SavesShows, SaveFailsShows, EnablesShows, RemovesAssetsShows,
     OffersShows, SampleShows, ResetShows, CloseShows, DrainShows, CrashShows DEF SavesEnd
<1>3. CASE Work
  <2>1. ASSUME Takes PROVE WInv'
    <3>1. Turn \in {"leave", "release", "load", "remove", "setup", "io", "sample"}
      BY <2>1 DEF Takes
    <3>2. QED
      BY <2>1, <3>1, LeaveShows, ReleaseShows, LoadShows, RemoveShows, InstallShows, KeepShows,
         LookShows
  <2>2. Removes \/ Installs => WInv'
    BY ShutsShows, RemovesShows, RefusesShows, InstallsShows
  <2>3. Marks("marking", TRUE, "marked") \/ Marks("unmarking", FALSE, "undo") => WInv'
    BY MarksShows, UnmarksShows
  <2>4. QED
    BY <1>3, <2>1, <2>2, <2>3, StartsUpShows, CondemnedShows, ChecksShows, VerifiesShows,
     LoadsShows, LoadedShows, StartupFailsShows, AbsorbsShows, InfersShows, DetectsShows,
     InferenceFailsShows, EntombsShows, ClearsShows, UnlinksShows, ForgetsShows,
     RemovalFailsShows, ResumesShows, UnrequestsShows, CancelledShows, MergesShows, ConsentsShows,
     FetchesShows, BenchesShows, SetUpEndsShows, InstallFailsShows, UndoesShows, LeavesShows DEF
     Work
<1>4. QED
  BY <1>1, <1>2, <1>3 DEF Next

\* It holds in every behaviour.
LEMMA Showing == Spec => []WInv
<1>1. Init => WInv
  BY InitShows
<1>2. TypeOK /\ TypeOK' /\ IInv /\ IInv' /\ WInv /\ [Next]_vars => WInv'
  BY NextShows
<1>3. QED
  BY <1>1, <1>2, DetectionTypeCorrect, Inductive, PTL DEF Spec

LEMMA Tells == ASSUME TypeOK, IInv, WInv PROVE ShowsTheTruth
<1>1. SUFFICES ASSUME Quiet PROVE ShowsTheTruth
  BY DEF ShowsTheTruth
<1>2. Live /\ ~Setting /\ worker.pc = "idle" /\ record = disk.record
  BY <1>1 DEF Quiet, Live, Setting, Installing, At, IInv, Dated
<1>3. ~shared.removing /\ ~shared.load /\ ~shared.release
  BY <1>1 DEF Quiet
<1>4. /\ ~EndsReady(mailbox) /\ NeverFails(mailbox)
      /\ \A k \in Nat : ~Answers(mailbox, k) /\ ~Clearing(mailbox, k) /\ ~Missing(mailbox, k)
      /\ \A k \in Nat : ~FailsLast(mailbox, k)
  <2>1. Relations(mailbox) /\ mailbox = <<>>
    BY <1>1, Related DEF TypeOK, Quiet
  <2>2. QED
    BY <2>1 DEF Relations
<1>5. ~gui.busy
  BY <1>2, <1>3, <1>4, Fields DEF WInv, Occupied, Ending, Removing
<1>6. ghost.missed \/ ~gui.checking
  BY <1>2, <1>3, <1>4, <1>5, Fields DEF WInv, Reported, Ending, Removing, StartUp
<1>7. ghost.overtaken \/ (gui.ready => disk.record.version)
  BY <1>2, <1>5 DEF WInv, ReadyGoes, Sharp
<1>8. \/ ghost.missed \/ ghost.mute \/ ghost.overtaken
      \/ (worker.model <=> gui.ready /\ record.enabled)
  BY <1>2, <1>3, <1>4 DEF WInv, WordIsTrue, LastWord, Resting, Sharp
<1>9. QED
  BY <1>5, <1>6, <1>7, <1>8 DEF ShowsTheTruth

\* When the worker has nothing to do and nothing to say, the window shows how things are,
\* with the exceptions that the property names, whatever was pressed, reset, saved, failed
\* or ended before.
THEOREM WindowShowsTheTruth == Spec => []ShowsTheTruth
<1>1. TypeOK /\ IInv /\ WInv => ShowsTheTruth
  BY Tells
<1>2. QED
  BY <1>1, DetectionTypeCorrect, Inductive, Showing, PTL
=================================================================================
