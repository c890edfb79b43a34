------------------------------- MODULE RemoteFiles -------------------------------
(***************************************************************************)
(* RemoteFileService: the metadata, the download and the cache restore of  *)
(* the bound job, the leases of its consumers, the threads that write,     *)
(* restore and publish a file, and the raw cache they share with other     *)
(* sessions.  A path stands for one working directory; each download and   *)
(* each restore makes its own, and the operation goes by its name.         *)
(*                                                                         *)
(* A step is one UI-thread handler with every call it makes, one step of a *)
(* thread between the points where the UI thread can act, or one thing the *)
(* printer or another session does.  A version stands for what the file    *)
(* holds on the printer; versions differ in size, which is all the code    *)
(* can tell the bytes of two versions apart by.                            *)
(***************************************************************************)
EXTENDS Integers

CONSTANTS MaxPath,      \* bound: downloads and restores in one behaviour
          MaxVersion,   \* bound: versions the printer's file goes through
          MaxBind,      \* bound: bindings before close()
          MaxLease      \* bound: leases open at once

ASSUME BoundsAssumption == /\ MaxPath \in Nat /\ MaxVersion \in Nat \ {0}
                           /\ MaxBind \in Nat /\ MaxLease \in Nat

Paths    == 1..MaxPath
Versions == 1..MaxVersion
NoPath   == 0

\* An identity: none yet, the listing's own, which proves nothing, or a
\* version the printer's metadata names.
Unknown == -1
Listed  == 0
Identities == {Unknown, Listed} \cup Versions

VARIABLES
    svc,     \* RemoteFileService's generation, and whether it is closed
    job,     \* its fields about the bound job
    files,   \* its ledger of leases, and the working directories
    ops,     \* the operations, by path
    cache,   \* RawSourceCache: the version a source file holds, by identity
    remote,  \* the version now on the printer
    users    \* leases a consumer has open, by path

vars == <<svc, job, files, ops, cache, remote, users>>

Services == [gen : 0..(MaxBind + 1), closed : BOOLEAN, next : 1..(MaxPath + 1)]
Jobs == [bound     : BOOLEAN,         \* _job is not None
         want      : BOOLEAN,
         identity  : Identities,
         fetched   : BOOLEAN,         \* _metadata_fetched
         verified  : BOOLEAN,         \* _source_metadata_verified
         pending   : 0..MaxVersion,   \* _metadata_pending: the version then, or 0
         failing   : BOOLEAN,         \* _metadata_attempts > 0
         backoff   : BOOLEAN,         \* before _metadata_retry_at
         timer     : BOOLEAN,         \* _metadata_retry_timer
         error     : BOOLEAN,
         auto      : BOOLEAN,         \* _download_auto_retry
         attempts  : 0..3,            \* _download_attempts, 3 and more
         wait      : BOOLEAN,         \* before _download_retry_at
         retry     : BOOLEAN,         \* _download_retry_timer
         path      : {NoPath} \cup Paths,
         pathId    : Identities,      \* _path_identity
         published : {NoPath} \cup Paths,
         missed    : BOOLEAN,         \* _cache_restore_failed
         download  : {NoPath} \cup Paths,
         restore   : {NoPath} \cup Paths]
Ledgers == [leases  : [Paths -> Nat],
            retired : SUBSET Paths,
            pins    : SUBSET Paths,   \* _cache_pins
            disk    : SUBSET Paths,   \* working directories that exist
            markers : SUBSET Paths]   \* their pins in the cache's folders

\* What its thread still has to do or to report, and the publication's.
Operations == [at      : {"none", "writing", "restoring", "hit", "miss", "restored",
                          "unrestored"},
               gen     : 0..MaxBind,  
               id      : Identities,     \* cache_identity
               from    : 0..MaxVersion,  \* the version when it was asked for
               data    : 0..MaxVersion,  \* the version in the file, 0 unless all of it
               publish : {"no", "linking", "pinned", "failed"}]
NoOperation == [at |-> "none", gen |-> 0, id |-> Unknown, from |-> 0, data |-> 0,
                publish |-> "no"]

\* The fields as bind() leaves them.
NewJob(isJob) ==
    [bound |-> isJob, want |-> FALSE, identity |-> Unknown, fetched |-> FALSE,
     verified |-> FALSE, pending |-> 0, failing |-> FALSE, backoff |-> FALSE,
     timer |-> FALSE, error |-> FALSE, auto |-> FALSE, attempts |-> 0, wait |-> FALSE,
     retry |-> FALSE, path |-> NoPath, pathId |-> Unknown, published |-> NoPath,
     missed |-> FALSE, download |-> NoPath, restore |-> NoPath]

Init ==
    /\ svc = [gen |-> 0, closed |-> FALSE, next |-> 1]
    /\ job = NewJob(FALSE)
    /\ files = [leases |-> [p \in Paths |-> 0], retired |-> {}, pins |-> {}, disk |-> {},
                markers |-> {}]
    /\ ops = [p \in Paths |-> NoOperation]
    /\ cache = [v \in Versions |-> 0]
    /\ remote = 1
    /\ users = [p \in Paths |-> 0]

-----------------------------------------------------------------------------
(* The ledger: F is `files`, current the service's path.                   *)

Without(F, gone) == [F EXCEPT !.disk = @ \ gone]
Unpinned(F, p)   == [F EXCEPT !.markers = @ \ {p}]
Leased(F, p)     == [F EXCEPT !.leases[p] = @ + 1]

\* A path's leases, less one.
Count(n) == IF n > 0 THEN n - 1 ELSE 0

\* _release(): the last one drops the pin and deletes a retired file, and the
\* last of all, after close(), the root.  What its prune() evicts is among
\* what Evict may.
Released(F, p, current) ==
    LET count == [F.leases EXCEPT ![p] = Count(@)]
        drops == count[p] <= 0 /\ (p \in F.retired \/ p # current)
        removes == count[p] <= 0 /\ p \in F.retired
        wipes == svc.closed /\ \A q \in Paths : count[q] <= 0
    IN  [leases  |-> count,
         retired |-> IF removes THEN F.retired \ {p} ELSE F.retired,
         pins    |-> IF drops THEN F.pins \ {p} ELSE F.pins,
         markers |-> IF drops /\ p \in F.pins THEN F.markers \ {p} ELSE F.markers,
         disk    |-> IF wipes THEN {} ELSE IF removes THEN F.disk \ {p} ELSE F.disk]

\* Mutant of Retired: the directory goes although it is leased.
RetiresAtOnce(F, p, current) ==
    IF p = NoPath THEN F ELSE Without(Released(F, p, current), {p})

\* _retire()
Retired(F, p, current) ==
    LET G == [F EXCEPT !.retired = @ \cup {p}]
    IN  IF p = NoPath THEN F
        ELSE IF G.leases[p] = 0 THEN Released(G, p, current) ELSE G

-----------------------------------------------------------------------------
(* Metadata requests and their timer.                                      *)

\* request_metadata()
MetadataAsked(j) ==
    IF \/ svc.closed \/ ~j.bound \/ j.pending # 0 \/ j.fetched
       \/ j.identity # Unknown /\ j.backoff
    THEN j ELSE [j EXCEPT !.pending = remote]

\* Mutant of TimerArmed: the timer is armed by whoever asked first.
ArmsNothing(j) == j

\* _arm_metadata_retry()
TimerArmed(j) ==
    IF j.failing /\ j.want /\ ~j.fetched /\ j.pending = 0 /\ j.backoff
    THEN [j EXCEPT !.timer = TRUE] ELSE j

-----------------------------------------------------------------------------
(* Downloads, restores and their failures.                                 *)

\* _fail()
Failed(j, transient) ==
    LET auto == transient /\ j.attempts < 2
    IN  [j EXCEPT !.error = TRUE,
                  !.attempts = IF @ < 3 THEN @ + 1 ELSE @,
                  !.wait = TRUE,
                  !.auto = auto,
                  !.retry = @ \/ (auto /\ j.want /\ ~svc.closed)]

\* _advance() up to the download: a latched error whose backoff is over is
\* forgotten, and missing metadata is asked for.
Urged(j) ==
    LET k == IF j.error /\ j.auto /\ j.want /\ ~j.wait
             THEN [j EXCEPT !.error = FALSE, !.auto = FALSE, !.retry = FALSE] ELSE j
    IN  IF ~k.fetched /\ k.pending = 0 /\ (k.identity = Unknown \/ k.failing)
        THEN TimerArmed(MetadataAsked(k)) ELSE k

\* Whether _advance() goes on to get the file.
Wants(j) == /\ ~j.error /\ j.identity # Unknown /\ j.want /\ j.path = NoPath
            /\ j.download = NoPath /\ j.restore = NoPath

\* _restore_cached()
Restorable(j) == /\ j.verified /\ ~j.missed /\ j.identity \in Versions
                 /\ cache[j.identity] # 0

Started(at, j) == [NoOperation EXCEPT !.at = at, !.gen = svc.gen, !.from = remote,
                                      !.id = IF j.fetched THEN j.identity ELSE Unknown]

\* _advance() from job j, ledger F and operations O: the file is restored, or
\* its download starts, or its setup fails and leaves nothing.
Advance(j, F, O) ==
    LET k == Urged(j)
        p == svc.next
    IN  IF svc.closed \/ ~j.bound
        THEN job' = j /\ files' = F /\ ops' = O /\ UNCHANGED svc
        ELSE IF ~Wants(k)
        THEN job' = k /\ files' = F /\ ops' = O /\ UNCHANGED svc
        ELSE \/ /\ p <= MaxPath
                /\ svc' = [svc EXCEPT !.next = @ + 1]
                /\ files' = [F EXCEPT !.disk = @ \cup {p}]
                /\ IF Restorable(k)
                   THEN /\ job' = [k EXCEPT !.restore = p]
                        /\ ops' = [O EXCEPT ![p] = Started("restoring", k)]
                   ELSE /\ job' = [k EXCEPT !.download = p]
                        /\ ops' = [O EXCEPT ![p] = Started("writing", k)]
             \/ /\ ~Restorable(k)
                /\ job' = Failed(k, FALSE)
                /\ files' = F /\ ops' = O /\ UNCHANGED svc

-----------------------------------------------------------------------------
(* The owner.                                                              *)

\* _abort_download(), and the old path is retired.  A cancelled restore cleans
\* up by itself.
Put(F) == Retired(Retired(F, job.download, job.path), job.path, job.path)

\* bind(): another job, or none.  The metadata lane is dropped unheard.
Bind ==
    /\ ~svc.closed
    /\ svc.gen < MaxBind
    /\ \E isJob \in BOOLEAN :
          /\ isJob \/ job.bound
          /\ job' = NewJob(isJob)
    /\ svc' = [svc EXCEPT !.gen = @ + 1]
    /\ files' = Put(files)
    /\ UNCHANGED <<ops, cache, remote, users>>

\* request_file()
RequestFile ==
    /\ job.bound
    /\ \E again \in BOOLEAN :
          Advance(IF again
                  THEN [job EXCEPT !.want = TRUE, !.error = FALSE, !.attempts = 0,
                                   !.wait = FALSE, !.auto = FALSE, !.retry = FALSE]
                  ELSE [job EXCEPT !.want = TRUE], files, ops)
    /\ UNCHANGED <<cache, remote, users>>

\* request_metadata(), for a print that is loaded.
RequestMetadata ==
    /\ job' = MetadataAsked(job)
    /\ job' # job
    /\ UNCHANGED <<svc, files, ops, cache, remote, users>>

\* lease() and FileLease.close()
Lease ==
    /\ job.path # NoPath
    /\ users[job.path] < MaxLease
    /\ files' = Leased(files, job.path)
    /\ users' = [users EXCEPT ![job.path] = @ + 1]
    /\ UNCHANGED <<svc, job, ops, cache, remote>>

CloseLease(p) ==
    /\ users[p] > 0
    /\ users' = [users EXCEPT ![p] = @ - 1]
    /\ files' = Released(files, p, job.path)
    /\ UNCHANGED <<svc, job, ops, cache, remote>>

\* close()
Close ==
    /\ ~svc.closed
    /\ svc' = [svc EXCEPT !.closed = TRUE, !.gen = @ + 1]
    /\ job' = NewJob(FALSE)
    /\ LET F == Put(files)
       IN  files' = IF \A p \in Paths : F.leases[p] = 0 THEN Without(F, Paths) ELSE F
    /\ UNCHANGED <<ops, cache, remote, users>>

-----------------------------------------------------------------------------
(* Answers and timers.                                                     *)

\* Mutant of Disowned: the file that came before the metadata is trusted.
KeepsUnverified(j) == FALSE

\* The path is not what the metadata names.
Disowned(j) == /\ j.path # NoPath
               /\ \/ j.pathId # j.identity
                  \/ j.identity \in Versions /\ ops[j.path].data # j.identity

\* request_metadata.finished(): an error installs the listing's identity; an
\* answer that cannot be parsed does too, but counts as one.
MetadataReply ==
    /\ job.pending # 0
    /\ LET heard == [job EXCEPT !.pending = 0]
       IN  \/ Advance([heard EXCEPT !.failing = TRUE, !.backoff = TRUE,
                                    !.identity = IF @ = Unknown THEN Listed ELSE @],
                      files, ops)
           \/ \E id \in {Listed} \cup (job.pending..remote), proven \in BOOLEAN :
                 LET j == [heard EXCEPT !.fetched = TRUE, !.failing = FALSE,
                                        !.backoff = FALSE, !.identity = id,
                                        !.verified = proven /\ id # Listed]
                 IN  IF Disowned(j)
                     THEN Advance([j EXCEPT !.path = NoPath, !.pathId = Unknown],
                                  Retired(files, j.path, j.path), ops)
                     ELSE Advance(j, files, ops)
    /\ UNCHANGED <<cache, remote, users>>

\* A backoff ends.
TimePasses ==
    /\ \/ job.backoff /\ job' = [job EXCEPT !.backoff = FALSE]
       \/ job.wait /\ job' = [job EXCEPT !.wait = FALSE]
    /\ UNCHANGED <<svc, files, ops, cache, remote, users>>

\* _retry_metadata(); a coarse timer may fire early.
MetadataTimer ==
    /\ job.timer
    /\ LET j == [job EXCEPT !.timer = FALSE]
       IN  job' = IF job.bound /\ job.want THEN TimerArmed(MetadataAsked(j)) ELSE j
    /\ UNCHANGED <<svc, files, ops, cache, remote, users>>

\* _retry_download(): early, the timer is armed again.
RetryTimer ==
    /\ job.retry
    /\ IF job.error /\ job.auto /\ job.want /\ job.wait /\ job.attempts <= 2
       THEN Advance(job, files, ops)
       ELSE Advance([job EXCEPT !.retry = FALSE], files, ops)
    /\ UNCHANGED <<cache, remote, users>>

-----------------------------------------------------------------------------
(* The download.                                                           *)

\* _drain() meets a compressed reply, a file too large, or an error.
DrainFails ==
    /\ job.download # NoPath
    /\ ops[job.download].at = "writing"
    /\ files' = Retired(files, job.download, job.path)
    /\ job' = Failed([job EXCEPT !.download = NoPath], FALSE)
    /\ UNCHANGED <<svc, ops, cache, remote, users>>

\* What a download may be kept for: the version it holds is the one whose
\* size the referee of its start gave, and the one the metadata names now.
Accepted(op, v) ==
    /\ op.id \in Versions => v = op.id
    /\ job.fetched => op.id # Unknown /\ op.id = job.identity

\* _publish_current()
Published(j, F, O) ==
    IF j.verified /\ j.path # j.published /\ j.identity \in Versions
    THEN [j |-> [j EXCEPT !.published = j.path],
          F |-> Leased(F, j.path),
          O |-> [O EXCEPT ![j.path].publish = "linking"]]
    ELSE [j |-> j, F |-> F, O |-> O]

\* Mutant of Current: a writer that is done is always heard.
HearsAll(p) == TRUE

\* A writer that is not the current operation's is not heard.
Current(p) == p = job.download

\* _on_writer_done(): whole, or cut off by the network or the disk.
WriterDone(p) ==
    /\ ops[p].at = "writing"
    /\ LET j == [job EXCEPT !.download = NoPath]
           Gone(transient) == /\ job' = Failed(j, transient)
                              /\ files' = Retired(files, p, job.path)
       IN  IF ~Current(p)
           THEN ops' = [ops EXCEPT ![p].at = "none"] /\ UNCHANGED <<job, files>>
           ELSE \/ /\ \E transient \in BOOLEAN : Gone(transient)
                   /\ ops' = [ops EXCEPT ![p].at = "none"]
                \/ \E v \in ops[p].from..remote :
                      LET O == [ops EXCEPT ![p].at = "none", ![p].data = v]
                          k == [j EXCEPT !.path = p, !.pathId = ops[p].id, !.attempts = 0,
                                         !.wait = FALSE, !.auto = FALSE, !.retry = FALSE]
                          R == IF ops[p].id = Unknown THEN [j |-> k, F |-> files, O |-> O]
                               ELSE Published(k, files, O)
                      IN  IF Accepted(ops[p], v)
                          THEN job' = R.j /\ files' = R.F /\ ops' = R.O
                          ELSE Gone(FALSE) /\ ops' = O
    /\ UNCHANGED <<svc, cache, remote, users>>

-----------------------------------------------------------------------------
(* The restore thread and the publishing thread.                           *)

\* A restore nobody wants any more.
Cleaned(p) == Without(Unpinned(files, p), {p})

\* RawSourceCache.restore(): the source is pinned and linked, or copied.
RestoreRuns(p) ==
    /\ ops[p].at = "restoring"
    /\ IF cache[ops[p].id] = ops[p].id
       THEN \/ /\ ops' = [ops EXCEPT ![p].at = "hit", ![p].data = cache[ops[p].id]]
               /\ files' = [files EXCEPT !.markers = @ \cup {p}]
            \/ ops' = [ops EXCEPT ![p].at = "miss"] /\ UNCHANGED files
       ELSE ops' = [ops EXCEPT ![p].at = "miss"] /\ UNCHANGED files
    /\ UNCHANGED <<svc, job, cache, remote, users>>

\* restore() looks at its cancel flag: it cleans up, or reports.
RestoreReports(p) ==
    /\ ops[p].at \in {"hit", "miss"}
    /\ IF p # job.restore
       THEN /\ ops' = [ops EXCEPT ![p].at = "none", ![p].data = 0]
            /\ files' = Cleaned(p)
       ELSE /\ ops' = [ops EXCEPT ![p].at = IF @ = "hit" THEN "restored" ELSE "unrestored"]
            /\ UNCHANGED files
    /\ UNCHANGED <<svc, job, cache, remote, users>>

\* _on_restore_done()
RestoreDone(p) ==
    /\ ops[p].at \in {"restored", "unrestored"}
    /\ LET O == [ops EXCEPT ![p].at = "none"]
           j == [job EXCEPT !.restore = NoPath]
       IN  IF p # job.restore
           THEN ops' = O /\ files' = Cleaned(p) /\ UNCHANGED <<svc, job>>
           ELSE IF ops[p].at = "restored"
           THEN /\ job' = [j EXCEPT !.path = p, !.pathId = j.identity, !.published = p]
                /\ files' = [files EXCEPT !.pins = @ \cup {p}]
                /\ ops' = O
                /\ UNCHANGED svc
           ELSE Advance([j EXCEPT !.missed = TRUE], Without(files, {p}), O)
    /\ UNCHANGED <<cache, remote, users>>

\* RawSourceCache.publish(): pinned, linked and moved into place, or an error;
\* a cleared cache takes nothing.
PublishRuns(p) ==
    /\ ops[p].publish = "linking"
    /\ \/ /\ cache' = [cache EXCEPT ![ops[p].id] = ops[p].data]
          /\ files' = [files EXCEPT !.markers = @ \cup {p}]
          /\ ops' = [ops EXCEPT ![p].publish = "pinned"]
       \/ /\ ops' = [ops EXCEPT ![p].publish = "failed"]
          /\ UNCHANGED <<cache, files>>
    /\ UNCHANGED <<svc, job, remote, users>>

\* _on_cache_written(): the pin stays with a path that is current, or leased
\* by somebody else.
CacheWritten(p) ==
    /\ ops[p].publish \in {"pinned", "failed"}
    /\ ops' = [ops EXCEPT ![p].publish = "no"]
    /\ LET F == IF ops[p].publish = "failed" THEN files
                ELSE IF p = job.path \/ files.leases[p] > 1
                THEN [files EXCEPT !.pins = @ \cup {p}]
                ELSE Unpinned(files, p)
       IN  files' = Released(F, p, job.path)
    /\ UNCHANGED <<svc, job, cache, remote, users>>

-----------------------------------------------------------------------------
(* Outside.                                                                *)

\* The file is written again on the printer.
Overwrite ==
    /\ remote < MaxVersion
    /\ remote' = remote + 1
    /\ UNCHANGED <<svc, job, files, ops, cache, users>>

\* prune(), here or in another session, and the clearing of the cache: a
\* source with a live marker beside it stays.
Evict ==
    /\ \E v \in Versions :
          /\ cache[v] # 0
          /\ \A p \in files.markers : ops[p].id # v
          /\ cache' = [cache EXCEPT ![v] = 0]
    /\ UNCHANGED <<svc, job, files, ops, remote, users>>

-----------------------------------------------------------------------------
Owner   == Bind \/ RequestFile \/ RequestMetadata \/ Close
Leases  == Lease \/ \E p \in Paths : CloseLease(p)
Answers == MetadataReply \/ TimePasses \/ MetadataTimer \/ RetryTimer
Threads == \E p \in Paths : \/ WriterDone(p) \/ RestoreRuns(p) \/ RestoreReports(p)
                            \/ RestoreDone(p) \/ PublishRuns(p) \/ CacheWritten(p)
Outside == Overwrite \/ Evict

Next == Owner \/ Leases \/ Answers \/ DrainFails \/ Threads \/ Outside

Spec == Init /\ [][Next]_vars

-----------------------------------------------------------------------------
(* Properties.                                                             *)

\* Every field keeps its type, and no lease is released twice.
TypeOK ==
    /\ svc \in Services /\ job \in Jobs /\ files \in Ledgers
    /\ ops \in [Paths -> Operations]
    /\ cache \in [Versions -> 0..MaxVersion]
    /\ remote \in Versions
    /\ users \in [Paths -> Nat]

\* A file somebody uses is there: the current one, one that a consumer or the
\* publishing thread holds a lease on, whatever was retired or closed since.
LeasedFilesStay ==
    \A p \in Paths :
        p = job.path \/ users[p] > 0 \/ ops[p].publish # "no" => p \in files.disk

\* Nothing is left behind: a working directory has a user, an operation or a
\* thread that will delete it, and a pin in the shared cache has a file in use
\* or a thread that will drop it; else no session could ever evict the source.
NothingLeftBehind ==
    /\ \A p \in files.disk :
          \/ p \in {job.path, job.download, job.restore}
          \/ users[p] > 0 \/ ops[p].publish # "no"
          \/ ops[p].at \in {"restoring", "hit", "miss", "restored", "unrestored"}
    /\ \A p \in files.markers :
          \/ p \in files.pins /\ (p = job.path \/ users[p] > 0)
          \/ ops[p].publish = "pinned"
          \/ ops[p].at \in {"hit", "restored"}

\* Once the printer's metadata has named a version, the file offered under it
\* holds that version; and the cache never holds another one in its place.
FileIsItsIdentity ==
    /\ job.path # NoPath /\ job.fetched =>
          /\ job.pathId = job.identity
          /\ job.identity \in Versions => ops[job.path].data = job.identity
    /\ \A v \in Versions : cache[v] \in {0, v}

\* A wanted file is never forgotten: it is there, being asked for, on its way,
\* or refused for good; a refusal to be retried has its timer, and so has
\* metadata that failed.
WantedIsUnderway ==
    job.bound /\ job.want =>
        /\ \/ job.path # NoPath \/ job.download # NoPath \/ job.restore # NoPath
           \/ job.pending # 0 \/ job.error
        /\ job.error /\ job.auto => job.retry
        /\ job.failing => job.pending # 0 \/ job.timer
===============================================================================
