--------------------------- MODULE IndexService_proofs ---------------------------
(***************************************************************************)
(* Theorems about IndexService, for every number of machines, prints,      *)
(* layers, writers, bindings, demands, faults and crashes: the type        *)
(* invariant, and the safety properties its run checks, from one inductive *)
(* invariant over the disk, the service, the executor's queue and the      *)
(* terminals not yet delivered.                                            *)
(***************************************************************************)
EXTENDS IndexService, SequenceTheorems, FiniteSetTheorems, WellFoundedInduction, TLAPS

\* The work items that read and write layers.
Lays == {"hydrate", "fullprep"}

\* A file that is whole and holds the work of its key; none has no layers.
Sane(f, k) == /\ f \in Files /\ Valid(f) /\ f.of \subseteq Belongs(k)
              /\ Present(f) \/ Resolved(f) = {}

\* The files and the temporary files are all sane.
Kept(d) == /\ \A k \in Keys : Sane(d.final[k], k)
           /\ \A w \in Writers : Sane(d.writers[w].temp, d.writers[w].key)

\* Writer w was opened by this process, for key k or for the fallback that k replaced.
Has(d, w, k) == /\ w \in Writers /\ w <= d.opened /\ ~d.writers[w].dead
                /\ k \in Belongs(d.writers[w].key)

\* The busy flag is down.
Idle(s) == s.busy = ""

\* A work item of the executor's queue: its writer takes its key's work; one that prepares
\* layers writes only into the session's writer; one that publishes has the writer to
\* itself, and while its file is still there the busy flag is its own; and what it
\* reads through is the table of the file at the path.
Fits(d, s, t) ==
    /\ t.writer # NoWriter => Has(d, t.writer, t.key)
    /\ t.kind \in Lays /\ Writing(d, t.writer) => t.writer = s.writer /\ t.gen = s.gen
    /\ t.kind = "prepared_save" =>
         /\ t.writer # NoWriter /\ t.writer # s.writer
         /\ Present(d.writers[t.writer].temp) => ~Idle(s) /\ s.busyGen = t.gen
    /\ t.gen = s.gen /\ t.kind \in Lays /\ Present(t.table) => t.table = d.final[t.key]

\* A work item that is out: if its generation is the service's, it is what the busy
\* flag stands for, and what it reads or publishes is the session's.
Counts(s, t) ==
    /\ t.gen <= s.gen
    /\ t.gen = s.gen =>
         /\ ~Idle(s) /\ s.busyGen = s.gen /\ s.job # NoJob /\ s.identity # "none"
         /\ t.kind \in Lays \cup {"prepared_save"} => t.key = Key(s)
         /\ t.kind = "prepared_save" => s.open /\ ~s.saved

\* A publication of this generation, done and not delivered.
Saves(s, t) == t.gen = s.gen /\ t.kind = "prepared_save" /\ t.ok

\* Of a generation, at most one work item is out.
Single(q, p) ==
    /\ \A i, j \in DOMAIN q : q[i].gen = q[j].gen => i = j
    /\ \A i, j \in DOMAIN p : p[i].gen = p[j].gen => i = j
    /\ \A i \in DOMAIN q, j \in DOMAIN p : q[i].gen # p[j].gen

\* The session's fields: they mean something only while it is open, and then the busy
\* flag is down or its own; its table is the published file's, but for a publication
\* whose terminal is on its way.  Its identity is RemoteFileService's, or the fallback
\* this has replaced, whose file is then what a pass that is complete has published.
Session(d, s, p) ==
    /\ s.open => s.job # NoJob /\ (Idle(s) \/ s.busyGen = s.gen)
    /\ ~s.open => s.table = NoFile /\ s.writer = NoWriter /\ ~s.complete
    /\ s.open => s.identity # "none" /\ (s.identity = "fallback" => s.name = "fallback")
    /\ s.complete => s.saved /\ \E n \in {s.name, "fallback"} :
                                   AllResolved(d.final[<<s.machine, s.job, n>>])
    /\ s.writer # NoWriter => Has(d, s.writer, Key(s))
    /\ Present(s.table) => \/ s.table = d.final[Key(s)]
                           \/ \E j \in DOMAIN p : Saves(s, p[j]) /\ Present(d.final[Key(s)])

\* What a work item inside the store's lock has done so far.
Held(d, t) ==
    /\ t.stage = "payload" =>
         /\ t.kind \in Lays /\ Writing(d, t.writer)
         /\ t.kind = "hydrate" => t.todo # {}
         /\ At(t) \in Layers /\ At(t) \in d.writers[t.writer].temp.payload
    /\ t.stage = "flagged" => t.kind = "prepared_save"
    /\ t.kind = "prepared_save" => ~t.ok

\* Only the running work item is inside it.
Lock(d, q) == \A i \in DOMAIN q : /\ i # 1 => q[i].stage = "run"
                                  /\ Held(d, q[i])

Sound(d, s, q, p) ==
    /\ d \in Disks /\ s \in Services /\ q \in Seq(Tasks) /\ p \in Seq(Tasks)
    /\ Kept(d) /\ Session(d, s, p) /\ Single(q, p) /\ Lock(d, q)
    /\ \A i \in DOMAIN q : Fits(d, s, q[i]) /\ Counts(s, q[i])
    /\ \A i \in DOMAIN p : Counts(s, p[i])

\* The generation is bounded while Cura runs, and a start finds nothing running.
Started == /\ process # "closing" => svc.gen <= spent.turns
           /\ process = "booting" => /\ svc = NewService(svc.machine)
                                     /\ queue = <<>> /\ posted = <<>>

IndexInv == TypeOK /\ Started /\ Sound(disk, svc, queue, posted)

-----------------------------------------------------------------------------
(* Sequences.                                                              *)

LEMMA HeadOf ==
    ASSUME NEW S, NEW q \in Seq(S), q # <<>>
    PROVE  /\ 1 \in DOMAIN q /\ Head(q) = q[1] /\ q[1] \in S
           /\ DOMAIN q = 1..Len(q) /\ Len(q) \in Nat /\ Len(q) >= 1
<1>1. Len(q) \in Nat /\ DOMAIN q = 1..Len(q) /\ Len(q) # 0
  BY EmptySeq
<1>2. 1 \in DOMAIN q
  BY <1>1
<1> QED BY <1>1, <1>2

LEMMA HeadChanged ==
    ASSUME NEW S, NEW q \in Seq(S), q # <<>>, NEW u \in S
    PROVE  /\ <<u>> \o Tail(q) \in Seq(S)
           /\ DOMAIN (<<u>> \o Tail(q)) = DOMAIN q
           /\ 1 \in DOMAIN q
           /\ (<<u>> \o Tail(q))[1] = u
           /\ \A i \in DOMAIN q : i # 1 => (<<u>> \o Tail(q))[i] = q[i]
<1> DEFINE r == <<u>> \o Tail(q)
<1>1. 1 \in DOMAIN q /\ DOMAIN q = 1..Len(q) /\ Len(q) \in Nat /\ Len(q) >= 1
  BY HeadOf
<1>2. Tail(q) \in Seq(S) /\ Len(Tail(q)) = Len(q) - 1
  BY HeadTailProperties
<1>3. \A i \in 1..Len(Tail(q)) : Tail(q)[i] = q[i + 1]
  BY HeadTailProperties
<1>4. <<u>> \in Seq(S) /\ Len(<<u>>) = 1 /\ <<u>>[1] = u
  OBVIOUS
<1>5. r \in Seq(S) /\ Len(r) = Len(q)
  BY <1>1, <1>2, <1>4, ConcatProperties
<1>6. DOMAIN r = DOMAIN q
  BY <1>1, <1>5
<1>7. \A i \in 1..Len(r) : r[i] = IF i <= 1 THEN <<u>>[i] ELSE Tail(q)[i - 1]
  BY <1>2, <1>4, <1>5, ConcatProperties
<1> HIDE DEF r
<1>8. r[1] = u
  BY <1>1, <1>4, <1>5, <1>7
<1>9. ASSUME NEW i \in DOMAIN q, i # 1 PROVE r[i] = q[i]
  <2>1. i \in 1..Len(r) /\ ~(i <= 1) /\ i - 1 \in 1..Len(Tail(q)) /\ (i - 1) + 1 = i
    BY <1>1, <1>2, <1>5, <1>9
  <2>2. r[i] = Tail(q)[i - 1]
    BY <1>7, <2>1
  <2>3. Tail(q)[i - 1] = q[(i - 1) + 1]
    BY <1>3, <2>1
  <2> QED BY <2>1, <2>2, <2>3
<1> QED BY <1>1, <1>5, <1>6, <1>8, <1>9 DEF r

LEMMA HeadGone ==
    ASSUME NEW S, NEW q \in Seq(S), q # <<>>
    PROVE  /\ Tail(q) \in Seq(S)
           /\ \A i \in DOMAIN Tail(q) : i \in Nat /\ i + 1 \in DOMAIN q /\ i + 1 # 1 /\ Tail(q)[i] = q[i + 1]
<1>1. DOMAIN q = 1..Len(q) /\ Len(q) \in Nat /\ Len(q) >= 1
  BY HeadOf
<1>2. Tail(q) \in Seq(S) /\ Len(Tail(q)) = Len(q) - 1
  BY HeadTailProperties
<1>3. \A i \in 1..Len(Tail(q)) : Tail(q)[i] = q[i + 1]
  BY HeadTailProperties
<1> QED BY <1>1, <1>2, <1>3

LEMMA OneMore ==
    ASSUME NEW S, NEW q \in Seq(S), NEW t \in S
    PROVE  /\ Append(q, t) \in Seq(S)
           /\ \E n : /\ n \notin DOMAIN q /\ DOMAIN Append(q, t) = DOMAIN q \cup {n}
                     /\ Append(q, t)[n] = t
           /\ \A i \in DOMAIN q : Append(q, t)[i] = q[i]
<1> DEFINE n == Len(q) + 1
<1>1. DOMAIN q = 1..Len(q) /\ Len(q) \in Nat
  OBVIOUS
<1>2. Append(q, t) \in Seq(S) /\ Len(Append(q, t)) = n /\ Append(q, t)[n] = t
  BY AppendProperties
<1>3. \A i \in 1..Len(q) : Append(q, t)[i] = q[i]
  BY AppendProperties
<1>4. DOMAIN Append(q, t) = DOMAIN q \cup {n} /\ n \notin DOMAIN q
  BY <1>1, <1>2
<1> QED BY <1>1, <1>2, <1>3, <1>4

-----------------------------------------------------------------------------
(* Files.                                                                  *)

LEMMA NoFileSane == ASSUME NEW k PROVE Sane(NoFile, k) /\ ~Present(NoFile)
BY DEF Sane, NoFile, Files, Valid, Present, States, Resolved

LEMMA WriterNumber == NoWriter \notin Writers
BY StoreAssumption DEF NoWriter, Writers

LEMMA OpenedSane ==
    ASSUME NEW w \in Writers, NEW k PROVE Sane(Opened(w), k)
<1>1. NoFile \in Files /\ Valid(NoFile) /\ NoFile.of = {}
  BY NoFileSane DEF Sane, NoFile
<1>2. ASSUME NEW f \in Files
      PROVE  [f EXCEPT !.by = w] = [by |-> w, complete |-> f.complete, table |-> f.table,
                                    payload |-> f.payload, of |-> f.of]
  BY DEF Files
<1>3. Opened(w) = [by |-> w, complete |-> NoFile.complete, table |-> NoFile.table,
                   payload |-> NoFile.payload, of |-> NoFile.of]
  BY <1>1, <1>2 DEF Opened
<1>4. Present(Opened(w))
  BY <1>3, WriterNumber DEF Present
<1> QED BY <1>1, <1>3, <1>4 DEF Sane, Files, Valid

LEMMA StoredSane ==
    ASSUME NEW k \in Keys, NEW f, Sane(f, k), NEW l \in Layers, NEW c \in Belongs(k)
    PROVE  /\ Sane(Stored(f, l, c), k) /\ l \in Stored(f, l, c).payload
           /\ Present(Stored(f, l, c)) <=> Present(f)
<1> DEFINE more == f.payload \cup {l}
           whose == f.of \cup {c}
<1>1. f \in Files
  BY DEF Sane
<1>2. Stored(f, l, c) = [f EXCEPT !.payload = more, !.of = whose]
  BY DEF Stored
<1>3. more \in SUBSET Layers /\ l \in more /\ f.payload \subseteq more /\ whose \subseteq Belongs(k)
  BY <1>1 DEF Sane, Files
<1>5. whose \in SUBSET Keys
  BY <1>3 DEF Belongs
<1> HIDE DEF more, whose
<1>4. Stored(f, l, c) = [by |-> f.by, complete |-> f.complete, table |-> f.table,
                         payload |-> more, of |-> whose]
  BY <1>1, <1>2 DEF Files
<1> QED BY <1>1, <1>3, <1>4, <1>5 DEF Sane, Files, Valid, Present, Resolved

LEMMA AdvertisedSane ==
    ASSUME NEW k \in Keys, NEW f, Sane(f, k), NEW l \in Layers, l \in f.payload,
           Present(f)
    PROVE  /\ Sane(Advertised(f, l), k)
           /\ Present(Advertised(f, l)) <=> Present(f)
<1> DEFINE g == [f.table EXCEPT ![l] = "cached"]
<1>1. /\ f \in Files /\ g \in [Layers -> States]
      /\ \A m \in Layers : g[m] = IF m = l THEN "cached" ELSE f.table[m]
  BY DEF Sane, Files, States
<1>2. Advertised(f, l) = [by |-> f.by, complete |-> f.complete, table |-> g,
                          payload |-> f.payload, of |-> f.of]
  BY <1>1 DEF Advertised, Files
<1> HIDE DEF g
<1> QED BY <1>1, <1>2 DEF Sane, Files, Valid, Present

LEMMA RefusedSane ==
    ASSUME NEW k \in Keys, NEW f, Sane(f, k), Present(f), NEW ls
    PROVE  /\ Sane(Refused(f, ls), k)
           /\ Present(Refused(f, ls)) <=> Present(f)
           /\ Refused(f, ls).payload = f.payload
<1> DEFINE g == [l \in Layers |-> IF l \in ls /\ f.table[l] = "empty" THEN "refused" ELSE f.table[l]]
<1>1. /\ f \in Files /\ g \in [Layers -> States]
      /\ \A m \in Layers : g[m] = "cached" => f.table[m] = "cached"
  BY DEF Sane, Files, States
<1>2. Refused(f, ls) = [by |-> f.by, complete |-> f.complete, table |-> g,
                        payload |-> f.payload, of |-> f.of]
  BY <1>1 DEF Refused, Files
<1> HIDE DEF g
<1> QED BY <1>1, <1>2 DEF Sane, Files, Valid, Present

LEMMA FlaggedSane ==
    ASSUME NEW k \in Keys, NEW f, Sane(f, k), NEW b \in BOOLEAN
    PROVE  /\ Sane([f EXCEPT !.complete = b], k)
           /\ Present([f EXCEPT !.complete = b]) <=> Present(f)
<1> DEFINE g == [f EXCEPT !.complete = b]
<1>1. /\ f \in Files
      /\ g = [by |-> f.by, complete |-> b, table |-> f.table, payload |-> f.payload,
              of |-> f.of]
  BY DEF Sane, Files
<1> HIDE DEF g
<1>2. Sane(g, k) /\ (Present(g) <=> Present(f))
  BY <1>1 DEF Sane, Files, Valid, Present, Resolved
<1> QED BY <1>2 DEF g

-----------------------------------------------------------------------------
(* The disk.                                                               *)

\* The fields of one writer of a disk, and a disk with one writer changed.
WriterRecs == [key : Keys, retired : BOOLEAN, temp : Files, dead : BOOLEAN]
With(d, w, r) == [d EXCEPT !.writers[w] = r]

LEMMA WithFields ==
    ASSUME NEW d \in Disks, NEW w \in Writers, NEW r \in WriterRecs
    PROVE  /\ With(d, w, r) \in Disks
           /\ With(d, w, r).final = d.final /\ With(d, w, r).index = d.index
           /\ With(d, w, r).opened = d.opened /\ With(d, w, r).faults = d.faults
           /\ With(d, w, r).writers[w] = r
           /\ \A v \in Writers : v # w => With(d, w, r).writers[v] = d.writers[v]
<1> DEFINE g == [d.writers EXCEPT ![w] = r]
<1>1. /\ d.writers \in [Writers -> WriterRecs] /\ g \in [Writers -> WriterRecs] /\ g[w] = r
      /\ \A v \in Writers : v # w => g[v] = d.writers[v]
  BY DEF Disks, WriterRecs
<1>2. With(d, w, r) = [final |-> d.final, index |-> d.index, writers |-> g,
                       opened |-> d.opened, faults |-> d.faults]
  BY DEF With, Disks
<1> HIDE DEF g
<1>3. With(d, w, r) \in Disks
  BY <1>1, <1>2 DEF Disks, WriterRecs
<1>4. With(d, w, r).writers = g
  BY <1>2
<1> QED BY <1>1, <1>2, <1>3, <1>4

LEMMA RecFields ==
    ASSUME NEW d \in Disks, NEW w \in Writers
    PROVE  d.writers[w] \in WriterRecs
BY DEF Disks, WriterRecs

\* Writer w with another temporary file, ended or not; a disk with it; and one with
\* another published file.
Rec(d, w, b, f) == [key |-> d.writers[w].key, retired |-> b, temp |-> f,
                    dead |-> d.writers[w].dead]
Temp(d, w, f)   == [d EXCEPT !.writers[w].temp = f]
Final(d, k, f)  == [d EXCEPT !.final[k] = f]

LEMMA RecTypes ==
    ASSUME NEW d \in Disks, NEW w \in Writers, NEW f \in Files, NEW b \in BOOLEAN
    PROVE  /\ Rec(d, w, b, f) \in WriterRecs
           /\ Rec(d, w, b, f).key = d.writers[w].key /\ Rec(d, w, b, f).retired = b
           /\ Rec(d, w, b, f).temp = f /\ Rec(d, w, b, f).dead = d.writers[w].dead
<1>1. d.writers[w] \in WriterRecs
  BY RecFields
<1> QED BY <1>1 DEF Rec, WriterRecs

LEMMA TempIs ==
    ASSUME NEW d \in Disks, NEW w \in Writers, NEW f
    PROVE  Temp(d, w, f) = With(d, w, Rec(d, w, d.writers[w].retired, f))
<1> DEFINE o == d.writers[w]
           r == Rec(d, w, o.retired, f)
<1>1. [o EXCEPT !.temp = f] = r
  BY RecFields DEF WriterRecs, Rec
<1>2. Temp(d, w, f) = [d EXCEPT !.writers = [d.writers EXCEPT ![w] = [o EXCEPT !.temp = f]]]
  BY DEF Temp
<1>3. With(d, w, r) = [d EXCEPT !.writers = [d.writers EXCEPT ![w] = r]]
  BY DEF With
<1> HIDE DEF r
<1>4. Temp(d, w, f) = With(d, w, r)
  BY <1>1, <1>2, <1>3
<1> QED BY <1>4 DEF r

LEMMA EndIs ==
    ASSUME NEW d \in Disks, NEW w \in Writers
    PROVE  Aborted(d, w) = With(d, w, Rec(d, w, TRUE, NoFile))
<1> DEFINE o == d.writers[w]
           m == [o EXCEPT !.retired = TRUE]
           r == Rec(d, w, TRUE, NoFile)
<1>1. o \in WriterRecs
  BY RecFields
<1>2. ASSUME NEW b \in BOOLEAN, NEW x
      PROVE  [[o EXCEPT !.retired = b] EXCEPT !.temp = x] = Rec(d, w, b, x)
  <2> DEFINE n == [o EXCEPT !.retired = b]
  <2>1. n = [key |-> o.key, retired |-> b, temp |-> o.temp, dead |-> o.dead]
    BY <1>1 DEF WriterRecs
  <2>2. Rec(d, w, b, x) = [key |-> o.key, retired |-> b, temp |-> x, dead |-> o.dead]
    BY DEF Rec
  <2> HIDE DEF n, o
  <2>3. [n EXCEPT !.temp = x] = Rec(d, w, b, x)
    BY <2>1, <2>2
  <2> QED BY <2>3 DEF n, o
<1>3. [m EXCEPT !.temp = NoFile] = r
  BY <1>2, Zenon
<1>4. Aborted(d, w) = [d EXCEPT !.writers = [d.writers EXCEPT ![w] = [m EXCEPT !.temp = NoFile]]]
  <2>1. d.writers \in [Writers -> WriterRecs]
    BY DEF Disks, WriterRecs
  <2> QED BY <2>1 DEF Disks, Aborted
<1>5. With(d, w, r) = [d EXCEPT !.writers = [d.writers EXCEPT ![w] = r]]
  BY DEF With
<1> HIDE DEF m, r
<1>6. Aborted(d, w) = With(d, w, r)
  BY <1>3, <1>4, <1>5
<1> QED BY <1>6 DEF r

LEMMA FinalFields ==
    ASSUME NEW d \in Disks, NEW k \in Keys, NEW f \in Files
    PROVE  /\ Final(d, k, f) \in Disks
           /\ Final(d, k, f).writers = d.writers /\ Final(d, k, f).index = d.index
           /\ Final(d, k, f).opened = d.opened /\ Final(d, k, f).faults = d.faults
           /\ Final(d, k, f).final[k] = f
           /\ \A c \in Keys : c # k => Final(d, k, f).final[c] = d.final[c]
<1> DEFINE g == [d.final EXCEPT ![k] = f]
<1>1. /\ g \in [Keys -> Files] /\ g[k] = f
      /\ \A c \in Keys : c # k => g[c] = d.final[c]
  BY DEF Disks
<1>2. Final(d, k, f) = [final |-> g, index |-> d.index, writers |-> d.writers,
                        opened |-> d.opened, faults |-> d.faults]
  BY DEF Final, Disks
<1> HIDE DEF g
<1>3. Final(d, k, f) \in Disks
  BY <1>1, <1>2 DEF Disks
<1> QED BY <1>1, <1>2, <1>3

LEMMA ReplacedIs ==
    ASSUME NEW d \in Disks, NEW w \in Writers, NEW k \in Keys
    PROVE  Replaced(d, w, k) = Aborted(Final(d, k, d.writers[w].temp), w)
<1> DEFINE f == d.writers[w].temp
           e == Final(d, k, f)
<1>1. f \in Files
  BY RecFields DEF WriterRecs
<1>2. e \in Disks
  BY <1>1, FinalFields
<1>3. d.writers \in [Writers -> WriterRecs]
  BY DEF Disks, WriterRecs
<1> QED BY <1>3, Zenon DEF Disks, Replaced, Aborted, Final

\* Disk e is d with some writer's file written to, or ended.
Wear(d, e) ==
    /\ e \in Disks /\ Kept(e) /\ e.final = d.final /\ e.opened = d.opened
    /\ \A w \in Writers :
         /\ e.writers[w].key = d.writers[w].key /\ e.writers[w].dead = d.writers[w].dead
         /\ d.writers[w].retired => e.writers[w].retired
         /\ Present(e.writers[w].temp) => Present(d.writers[w].temp)

LEMMA NoWear == ASSUME NEW d \in Disks, Kept(d) PROVE Wear(d, d)
BY DEF Wear

LEMMA TempWear ==
    ASSUME NEW d \in Disks, Kept(d), NEW w \in Writers, NEW f,
           Sane(f, d.writers[w].key), Present(f) => Present(d.writers[w].temp)
    PROVE  /\ Wear(d, Temp(d, w, f)) /\ Temp(d, w, f).faults = d.faults
           /\ Temp(d, w, f).writers[w].temp = f
           /\ Temp(d, w, f).writers[w].retired = d.writers[w].retired
<1> DEFINE o == d.writers[w]
           r == Rec(d, w, o.retired, f)
           e == Temp(d, w, f)
<1>1. f \in Files /\ o.retired \in BOOLEAN
  BY RecFields DEF Sane, WriterRecs
<1>2. /\ r \in WriterRecs /\ r.key = o.key /\ r.retired = o.retired /\ r.temp = f
      /\ r.dead = o.dead /\ e = With(d, w, r)
  BY <1>1, RecTypes, TempIs
<1> HIDE DEF r, e
<1>3. /\ e \in Disks /\ e.final = d.final /\ e.opened = d.opened /\ e.faults = d.faults
      /\ e.writers[w] = r
      /\ \A v \in Writers : v # w => e.writers[v] = d.writers[v]
  BY <1>2, WithFields
<1>4. Kept(e)
  BY <1>2, <1>3 DEF Kept
<1>5. Wear(d, e)
  BY <1>2, <1>3, <1>4 DEF Wear
<1> QED BY <1>2, <1>3, <1>5 DEF e

LEMMA AbortedFields ==
    ASSUME NEW d \in Disks, NEW w \in Writers
    PROVE  /\ Aborted(d, w) \in Disks /\ Aborted(d, w).final = d.final
           /\ Aborted(d, w).opened = d.opened /\ Aborted(d, w).faults = d.faults
           /\ Aborted(d, w).index = d.index
           /\ Aborted(d, w).writers[w].retired /\ Aborted(d, w).writers[w].temp = NoFile
           /\ Aborted(d, w).writers[w].key = d.writers[w].key
           /\ Aborted(d, w).writers[w].dead = d.writers[w].dead
           /\ \A v \in Writers : v # w => Aborted(d, w).writers[v] = d.writers[v]
<1> DEFINE o == d.writers[w]
           r == Rec(d, w, TRUE, NoFile)
           e == Aborted(d, w)
<1>1. NoFile \in Files
  BY NoFileSane DEF Sane
<1>2. /\ r \in WriterRecs /\ r.key = o.key /\ r.retired = TRUE /\ r.temp = NoFile
      /\ r.dead = o.dead
  <2>1. ASSUME NEW b \in BOOLEAN
        PROVE  LET x == Rec(d, w, b, NoFile)
               IN  /\ x \in WriterRecs /\ x.key = o.key /\ x.retired = b /\ x.temp = NoFile
                   /\ x.dead = o.dead
    BY <1>1, RecTypes
  <2> QED BY <2>1, Zenon
<1>4. e = With(d, w, r)
  BY EndIs
<1> HIDE DEF r, e
<1>3. /\ e \in Disks /\ e.final = d.final /\ e.opened = d.opened /\ e.faults = d.faults
      /\ e.index = d.index /\ e.writers[w] = r
      /\ \A v \in Writers : v # w => e.writers[v] = d.writers[v]
  BY <1>2, <1>4, WithFields
<1> QED BY <1>2, <1>3 DEF e

LEMMA AbortedWear ==
    ASSUME NEW d \in Disks, Kept(d), NEW w \in Writers
    PROVE  Wear(d, Aborted(d, w))
<1> DEFINE e == Aborted(d, w)
<1>1. ~Present(NoFile) /\ Sane(NoFile, d.writers[w].key)
  BY NoFileSane
<1>2. /\ e \in Disks /\ e.final = d.final /\ e.opened = d.opened
      /\ e.writers[w].retired /\ e.writers[w].temp = NoFile
      /\ e.writers[w].key = d.writers[w].key /\ e.writers[w].dead = d.writers[w].dead
      /\ \A v \in Writers : v # w => e.writers[v] = d.writers[v]
  BY AbortedFields
<1> HIDE DEF e
<1>3. Kept(e)
  BY <1>1, <1>2 DEF Kept
<1>4. Wear(d, e)
  BY <1>1, <1>2, <1>3 DEF Wear
<1> QED BY <1>4 DEF e

LEMMA FailedFields ==
    ASSUME NEW d \in Disks, MayFail(d)
    PROVE  /\ Failed(d) \in Disks /\ Failed(d).final = d.final /\ Failed(d).opened = d.opened
           /\ Failed(d).writers = d.writers
<1>1. /\ d.faults + 1 \in 0..MaxFault
  BY ServiceAssumption DEF Disks, MayFail
<1>2. Failed(d) = [final |-> d.final, index |-> d.index, writers |-> d.writers,
                   opened |-> d.opened, faults |-> d.faults + 1]
  BY DEF Failed, Disks
<1> QED BY <1>1, <1>2 DEF Disks

LEMMA FailedWear ==
    ASSUME NEW d \in Disks, Kept(d), MayFail(d) PROVE Wear(d, Failed(d))
BY FailedFields DEF Wear, Kept

LEMMA FailedAborted ==
    ASSUME NEW d \in Disks, Kept(d), MayFail(d), NEW w \in Writers
    PROVE  Wear(d, Failed(Aborted(d, w)))
<1> DEFINE e == Aborted(d, w)
<1>1. Wear(d, e) /\ e.faults = d.faults
  BY AbortedWear, AbortedFields
<1>2. e \in Disks /\ MayFail(e)
  BY <1>1 DEF Wear, MayFail, Spare
<1> HIDE DEF e
<1>3. Failed(e) \in Disks /\ Failed(e).final = e.final /\ Failed(e).opened = e.opened
      /\ Failed(e).writers = e.writers
  BY <1>2, FailedFields
<1>4. Wear(d, Failed(e))
  BY <1>1, <1>3 DEF Wear, Kept
<1> QED BY <1>4 DEF e

LEMMA WrittenIsAWriter ==
    ASSUME NEW d, NEW s, NEW t \in Tasks, Fits(d, s, t), t.writer # NoWriter
    PROVE  t.writer \in Writers
BY DEF Fits, Has

LEMMA FitsWear ==
    ASSUME NEW d, NEW e, Wear(d, e), NEW s, NEW t \in Tasks, Fits(d, s, t)
    PROVE  Fits(e, s, t)
<1>1. CASE t.writer = NoWriter
  BY <1>1 DEF Wear, Fits, Writing
<1>2. CASE t.writer # NoWriter
  <2>1. t.writer \in Writers
    BY <1>2, WrittenIsAWriter
  <2> QED BY <1>2, <2>1 DEF Wear, Fits, Writing, Has
<1> QED BY <1>1, <1>2

LEMMA SessionWear ==
    ASSUME NEW d, NEW e, Wear(d, e), NEW s, NEW p, Session(d, s, p)
    PROVE  Session(e, s, p)
<1>1. s.writer # NoWriter => Has(e, s.writer, Key(s))
  BY DEF Wear, Session, Has
<1> QED BY <1>1 DEF Wear, Session

-----------------------------------------------------------------------------
(* What a worker's step keeps.                                             *)

\* Work item u is t, further on.
Is(u, t) == /\ u.kind = t.kind /\ u.gen = t.gen /\ u.key = t.key
            /\ u.writer = t.writer /\ u.table = t.table

LEMMA IsFits ==
    ASSUME NEW d, NEW s, NEW u, NEW t, Is(u, t), Fits(d, s, t) PROVE Fits(d, s, u)
BY DEF Is, Fits

LEMMA IsCounts ==
    ASSUME NEW s, NEW u, NEW t, Is(u, t), Counts(s, t) PROVE Counts(s, u)
BY DEF Is, Counts

\* The running work item goes on.
LEMMA Ran ==
    ASSUME NEW d, NEW s, NEW q, NEW p, Sound(d, s, q, p), q # <<>>,
           NEW e, Wear(d, e), NEW u \in Tasks, Is(u, q[1]), Held(e, u)
    PROVE  Sound(e, s, <<u>> \o Tail(q), p)
<1> DEFINE r == <<u>> \o Tail(q)
<1>1. /\ r \in Seq(Tasks) /\ DOMAIN r = DOMAIN q /\ 1 \in DOMAIN q /\ r[1] = u
      /\ \A i \in DOMAIN q : i # 1 => r[i] = q[i]
  BY HeadChanged DEF Sound
<1>2. \A i \in DOMAIN q : q[i] \in Tasks /\ Fits(d, s, q[i]) /\ Counts(s, q[i])
  BY DEF Sound
<1> HIDE DEF r
<1>3. \A i \in DOMAIN r : Is(r[i], q[i])
  BY <1>1 DEF Is
<1>4. \A i \in DOMAIN r : Fits(e, s, r[i]) /\ Counts(s, r[i])
  BY <1>1, <1>2, <1>3, FitsWear, IsFits, IsCounts
<1>5. Single(r, p)
  <2>1. \A i \in DOMAIN r : r[i].gen = q[i].gen
    BY <1>3 DEF Is
  <2> QED BY <1>1, <2>1 DEF Sound, Single
<1>6. Lock(e, r)
  BY <1>1 DEF Sound, Lock, Held
<1>7. e \in Disks /\ Kept(e) /\ Session(e, s, p) /\ e.final = d.final
  BY SessionWear DEF Sound, Wear
<1>8. Sound(e, s, r, p)
  BY <1>1, <1>4, <1>5, <1>6, <1>7, Zenon DEF Sound
<1> QED BY <1>8 DEF r

\* It ends, and its terminal is posted.
LEMMA Ended ==
    ASSUME NEW d, NEW s, NEW q, NEW p, Sound(d, s, q, p), q # <<>>,
           NEW e, Wear(d, e), NEW u \in Tasks, Is(u, q[1])
    PROVE  Sound(e, s, Tail(q), Append(p, u))
<1> DEFINE r == Tail(q)
           b == Append(p, u)
<1>1. /\ r \in Seq(Tasks)
      /\ \A i \in DOMAIN r : /\ i \in Nat /\ i + 1 \in DOMAIN q /\ i + 1 # 1
                             /\ r[i] = q[i + 1]
  BY HeadGone DEF Sound
<1>2. \A i \in DOMAIN q : q[i] \in Tasks /\ Fits(d, s, q[i]) /\ Counts(s, q[i])
  BY DEF Sound
<1>3. b \in Seq(Tasks) /\ \A i \in DOMAIN p : b[i] = p[i]
  BY OneMore DEF Sound
<1>4. PICK n : n \notin DOMAIN p /\ DOMAIN b = DOMAIN p \cup {n} /\ b[n] = u
  BY OneMore DEF Sound
<1>5. 1 \in DOMAIN q
  BY HeadOf DEF Sound
<1> HIDE DEF r, b
<1>6. \A i \in DOMAIN r : Fits(e, s, r[i]) /\ Counts(s, r[i])
  BY <1>1, <1>2, FitsWear
<1>7. Counts(s, u)
  BY <1>2, <1>5, IsCounts
<1>8. \A i \in DOMAIN b : Counts(s, b[i])
  BY <1>3, <1>4, <1>7 DEF Sound
<1>9. Single(r, b)
  <2>1. u.gen = q[1].gen
    BY DEF Is
  <2>2. \A i, j \in DOMAIN r : r[i].gen = r[j].gen => i = j
    BY <1>1 DEF Sound, Single
  <2>3. \A i, j \in DOMAIN b : b[i].gen = b[j].gen => i = j
    BY <1>3, <1>4, <1>5, <2>1 DEF Sound, Single
  <2>4. \A i \in DOMAIN r, j \in DOMAIN b : r[i].gen # b[j].gen
    BY <1>1, <1>3, <1>4, <1>5, <2>1 DEF Sound, Single
  <2> QED BY <2>2, <2>3, <2>4 DEF Single
<1>10. Lock(e, r)
  <2>1. \A i \in DOMAIN r : r[i].stage = "run" /\ (r[i].kind = "prepared_save" => ~r[i].ok)
    BY <1>1 DEF Sound, Lock, Held
  <2> QED BY <2>1 DEF Lock, Held
<1>11. e \in Disks /\ Kept(e) /\ s \in Services
  BY DEF Wear, Sound
<1>12. Session(e, s, b)
  <2>1. Session(e, s, p)
    BY SessionWear DEF Sound
  <2>2. (\E j \in DOMAIN p : Saves(s, p[j]) /\ Present(e.final[Key(s)]))
        => \E j \in DOMAIN b : Saves(s, b[j]) /\ Present(e.final[Key(s)])
    BY <1>3, <1>4
  <2> QED BY <2>1, <2>2 DEF Session
<1>13. Sound(e, s, r, b)
  BY <1>1, <1>3, <1>6, <1>8, <1>9, <1>10, <1>11, <1>12, Zenon DEF Sound
<1> QED BY <1>13 DEF r, b

-----------------------------------------------------------------------------
(* The layer a work item is at.                                            *)

LessPairs == {p \in Nat \X Nat : p[1] < p[2]}

LEMMA LeastLayer ==
    ASSUME NEW S \in SUBSET Layers, S # {}
    PROVE  (CHOOSE l \in S : \A m \in S : l <= m) \in S
<1>1. S \subseteq Nat
  BY StoreAssumption DEF Layers
<1>2. IsWellFoundedOn(LessPairs, Nat)
  BY NatLessThanWellFounded DEF OpToRel, LessPairs
<1>3. PICK l \in S : \A m \in S : <<m, l>> \notin LessPairs
  <2>1. PICK x \in S : TRUE
    OBVIOUS
  <2> QED BY <1>1, <1>2, <2>1, WFMin
<1>4. \A m \in S : l <= m
  <2>1. l \in Nat /\ \A m \in S : m \in Nat /\ <<m, l>> \in Nat \X Nat
    BY <1>1
  <2>2. \A m \in S : ~(m < l)
    BY <1>3, <2>1 DEF LessPairs
  <2> QED BY <2>1, <2>2
<1> QED BY <1>4

LEMMA AtLayer ==
    ASSUME NEW t \in Tasks, t.kind = "fullprep" => t.at <= MaxLayer,
           t.kind # "fullprep" => t.todo # {}
    PROVE  At(t) \in Layers
<1>1. CASE t.kind = "fullprep"
  <2>1. t.at \in 1..(MaxLayer + 1)
    BY DEF Tasks
  <2> QED BY <1>1, <2>1, StoreAssumption DEF At, Layers
<1>2. CASE t.kind # "fullprep"
  <2>1. t.todo \in SUBSET Layers
    BY DEF Tasks
  <2>2. (CHOOSE l \in t.todo : \A m \in t.todo : l <= m) \in t.todo
    BY <1>2, <2>1, LeastLayer
  <2> QED BY <1>2, <2>1, <2>2 DEF At
<1> QED BY <1>1, <1>2

LEMMA PastTypes ==
    ASSUME NEW t \in Tasks, At(t) \in Layers
    PROVE  Past(t) \in Tasks /\ Is(Past(t), t) /\ Past(t).stage = "run"
<1> DEFINE n == IF t.kind = "fullprep" THEN t.at + 1 ELSE t.at
           m == t.todo \ {At(t)}
<1>1. n \in 1..(MaxLayer + 1)
  BY StoreAssumption DEF At, Layers, Tasks
<1>2. m \in SUBSET Layers
  BY DEF Tasks
<1>3. Past(t) = [t EXCEPT !.stage = "run", !.at = n, !.todo = m]
  BY DEF Past, Tasks
<1> HIDE DEF n, m
<1>4. Past(t) \in Tasks
  BY <1>1, <1>2, <1>3, Zenon DEF Tasks
<1>5. Is(Past(t), t) /\ Past(t).stage = "run"
  BY <1>3 DEF Is, Tasks
<1> QED BY <1>4, <1>5

\* A work item with one of its fields changed.
Staged(t, x)  == [t EXCEPT !.stage = x]
Result(t, b)  == [t EXCEPT !.ok = b]
Encodes(t, l) == [t EXCEPT !.encoded = @ \cup {l}]
Refuses(t, l) == [t EXCEPT !.refused = @ \cup {l}]
Fails(t, l)   == [t EXCEPT !.failed = @ \cup {l}]

LEMMA StagedTypes ==
    ASSUME NEW t \in Tasks, NEW x \in {"run", "payload", "flagged"}
    PROVE  /\ Staged(t, x) \in Tasks /\ Is(Staged(t, x), t)
           /\ Staged(t, x).stage = x
           /\ Staged(t, x).todo = t.todo
           /\ Staged(t, x).at = t.at
           /\ Staged(t, x).ok = t.ok
           /\ At(Staged(t, x)) = At(t)
<1> DEFINE u == [t EXCEPT !.stage = x]
<1>1. u \in Tasks
  BY Zenon DEF Tasks
<1>2. /\ u.kind = t.kind /\ u.gen = t.gen /\ u.key = t.key /\ u.writer = t.writer
      /\ u.table = t.table /\ u.todo = t.todo /\ u.at = t.at /\ u.ok = t.ok
      /\ u.stage = x
  BY DEF Tasks
<1>3. u = Staged(t, x)
  BY Zenon DEF Staged
<1> HIDE DEF u
<1>4. Is(u, t) /\ At(u) = At(t)
  BY <1>2 DEF Is, At
<1> QED BY <1>1, <1>2, <1>3, <1>4

LEMMA ResultTypes ==
    ASSUME NEW t \in Tasks, NEW b \in BOOLEAN
    PROVE  /\ Result(t, b) \in Tasks /\ Is(Result(t, b), t)
           /\ Result(t, b).ok = b
           /\ Result(t, b).stage = t.stage
<1> DEFINE u == [t EXCEPT !.ok = b]
<1>1. u \in Tasks
  BY Zenon DEF Tasks
<1>2. /\ u.kind = t.kind /\ u.gen = t.gen /\ u.key = t.key /\ u.writer = t.writer
      /\ u.table = t.table /\ u.stage = t.stage
      /\ u.ok = b
  BY DEF Tasks
<1>3. u = Result(t, b)
  BY Zenon DEF Result
<1> HIDE DEF u
<1>4. Is(u, t)
  BY <1>2 DEF Is
<1> QED BY <1>1, <1>2, <1>3, <1>4

LEMMA EncodesTypes ==
    ASSUME NEW t \in Tasks, NEW l \in Layers
    PROVE  /\ Encodes(t, l) \in Tasks /\ Is(Encodes(t, l), t)
           /\ Encodes(t, l).todo = t.todo
           /\ Encodes(t, l).at = t.at
           /\ Encodes(t, l).stage = t.stage
           /\ At(Encodes(t, l)) = At(t)
<1> DEFINE e == t.encoded \cup {l}
           u == [t EXCEPT !.encoded = e]
<1>0. e \in SUBSET Layers
  BY DEF Tasks
<1> HIDE DEF e
<1>1. u \in Tasks
  BY <1>0, Zenon DEF Tasks
<1>2. /\ u.kind = t.kind /\ u.gen = t.gen /\ u.key = t.key /\ u.writer = t.writer
      /\ u.table = t.table /\ u.todo = t.todo /\ u.at = t.at /\ u.stage = t.stage
  BY DEF Tasks
<1>3. u = Encodes(t, l)
  BY Zenon DEF Encodes, e
<1> HIDE DEF u
<1>4. Is(u, t) /\ At(u) = At(t)
  BY <1>2 DEF Is, At
<1> QED BY <1>1, <1>2, <1>3, <1>4

LEMMA RefusesTypes ==
    ASSUME NEW t \in Tasks, NEW l \in Layers
    PROVE  /\ Refuses(t, l) \in Tasks /\ Is(Refuses(t, l), t)
           /\ Refuses(t, l).stage = t.stage
<1> DEFINE e == t.refused \cup {l}
           u == [t EXCEPT !.refused = e]
<1>0. e \in SUBSET Layers
  BY DEF Tasks
<1> HIDE DEF e
<1>1. u \in Tasks
  BY <1>0, Zenon DEF Tasks
<1>2. /\ u.kind = t.kind /\ u.gen = t.gen /\ u.key = t.key /\ u.writer = t.writer
      /\ u.table = t.table /\ u.stage = t.stage
  BY DEF Tasks
<1>3. u = Refuses(t, l)
  BY Zenon DEF Refuses, e
<1> HIDE DEF u
<1>4. Is(u, t)
  BY <1>2 DEF Is
<1> QED BY <1>1, <1>2, <1>3, <1>4

LEMMA FailsTypes ==
    ASSUME NEW t \in Tasks, NEW l \in Layers
    PROVE  /\ Fails(t, l) \in Tasks /\ Is(Fails(t, l), t)
           /\ Fails(t, l).stage = t.stage
<1> DEFINE e == t.failed \cup {l}
           u == [t EXCEPT !.failed = e]
<1>0. e \in SUBSET Layers
  BY DEF Tasks
<1> HIDE DEF e
<1>1. u \in Tasks
  BY <1>0, Zenon DEF Tasks
<1>2. /\ u.kind = t.kind /\ u.gen = t.gen /\ u.key = t.key /\ u.writer = t.writer
      /\ u.table = t.table /\ u.stage = t.stage
  BY DEF Tasks
<1>3. u = Fails(t, l)
  BY Zenon DEF Fails, e
<1> HIDE DEF u
<1>4. Is(u, t)
  BY <1>2 DEF Is
<1> QED BY <1>1, <1>2, <1>3, <1>4

-----------------------------------------------------------------------------
(* The worker's steps.                                                     *)

Sound1 == Sound(disk', svc, queue', posted')

LEMMA Running1 ==
    ASSUME IndexInv, queue # <<>>
    PROVE  /\ Head(queue) = queue[1] /\ queue[1] \in Tasks /\ 1 \in DOMAIN queue
           /\ Fits(disk, svc, queue[1]) /\ Counts(svc, queue[1]) /\ Held(disk, queue[1])
           /\ disk \in Disks /\ Kept(disk) /\ svc \in Services
           /\ Wear(disk, disk)
<1>1. Head(queue) = queue[1] /\ queue[1] \in Tasks /\ 1 \in DOMAIN queue
  BY HeadOf DEF IndexInv, Sound
<1>2. disk \in Disks /\ Kept(disk) /\ svc \in Services
  BY DEF IndexInv, Sound
<1> QED BY <1>1, <1>2, NoWear DEF IndexInv, Sound, Lock

LEMMA WorkerInv ==
    ASSUME IndexInv, queue # <<>>, UNCHANGED <<process, svc, spent>>, Sound1
    PROVE  IndexInv'
<1>1. Sound(disk', svc', queue', posted')
  BY DEF Sound1
<1>2. Started'
  BY DEF IndexInv, Started
<1>3. TypeOK'
  BY <1>1 DEF Sound, IndexInv, TypeOK
<1> QED BY <1>1, <1>2, <1>3 DEF IndexInv

LEMMA GoesOn ==
    ASSUME IndexInv, queue # <<>>, Wear(disk, disk'), NEW u \in Tasks, Is(u, queue[1]),
           Held(disk', u), Goes(u)
    PROVE  Sound1
<1>1. Sound(disk, svc, queue, posted)
  BY DEF IndexInv
<1>2. Sound(disk', svc, <<u>> \o Tail(queue), posted)
  BY <1>1, Ran
<1> QED BY <1>2 DEF Goes, Sound1

LEMMA IsOver ==
    ASSUME IndexInv, queue # <<>>, Wear(disk, disk'), NEW u \in Tasks, Is(u, queue[1]),
           Reports(u)
    PROVE  Sound1
<1>1. Sound(disk, svc, queue, posted)
  BY DEF IndexInv
<1>2. Sound(disk', svc, Tail(queue), Append(posted, u))
  BY <1>1, Ended
<1> QED BY <1>2 DEF Reports, Sound1

LEMMA GoesPast ==
    ASSUME IndexInv, queue # <<>>, Wear(disk, disk'), NEW u \in Tasks, Is(u, queue[1]),
           u.kind \in Lays, u.stage = "run", Goes(u)
    PROVE  Sound1
BY GoesOn DEF Held, Lays

LEMMA IsTransitive ==
    ASSUME NEW u, NEW v, NEW t, Is(u, v), Is(v, t) PROVE Is(u, t)
BY DEF Is

\* What append() does for a work item that is at a layer.
LEMMA PutsSound ==
    ASSUME IndexInv, queue # <<>>, NEW t \in Tasks, Is(t, queue[1]), t.kind \in Lays,
           At(t) \in Layers, t.kind = "hydrate" => t.todo # {}, Puts(t)
    PROVE  Sound1
<1> DEFINE w == t.writer
           l == At(t)
           f == Stored(disk.writers[w].temp, l, t.key)
           u == Staged(t, "payload")
           open == Writing(disk, w) /\ disk.writers[w].temp.table[l] = "empty"
<1>1. /\ Fits(disk, svc, queue[1]) /\ disk \in Disks /\ Kept(disk) /\ Wear(disk, disk)
  BY Running1
<1>2. Fits(disk, svc, t)
  BY <1>1, IsFits
<1>3. CASE open
  <2>1. w # NoWriter /\ ~disk.writers[w].retired /\ Present(disk.writers[w].temp)
    BY <1>3 DEF Writing
  <2>2. w \in Writers /\ t.key \in Belongs(disk.writers[w].key)
    BY <1>2, <2>1 DEF Fits, Has
  <2>3. Sane(disk.writers[w].temp, disk.writers[w].key) /\ disk.writers[w].key \in Keys
    BY <1>1, <2>2, RecFields DEF Kept, WriterRecs
  <2>4. Sane(f, disk.writers[w].key) /\ l \in f.payload /\ Present(f)
    BY <2>1, <2>2, <2>3, StoredSane
  <2>5. disk' = Temp(disk, w, f) /\ Goes(u)
    BY <1>3 DEF Puts, Temp, Staged
  <2> HIDE DEF f, l
  <2>6. /\ Wear(disk, disk') /\ disk'.writers[w].temp = f
        /\ disk'.writers[w].retired = disk.writers[w].retired
    BY <1>1, <2>1, <2>2, <2>4, <2>5, TempWear
  <2>7. /\ u \in Tasks /\ Is(u, t) /\ u.stage = "payload" /\ At(u) = l /\ u.todo = t.todo
    BY StagedTypes DEF l
  <2> HIDE DEF u
  <2>8. Held(disk', u)
    BY <2>1, <2>4, <2>6, <2>7 DEF Held, Writing, Is, Lays, l
  <2>9. Is(u, queue[1])
    BY <2>7, IsTransitive
  <2> QED BY <2>5, <2>6, <2>7, <2>8, <2>9, GoesOn
<1>4. CASE ~open
  <2>1. Goes(Past(t)) /\ disk' = disk
    BY <1>4 DEF Puts
  <2>2. Past(t) \in Tasks /\ Is(Past(t), t) /\ Past(t).stage = "run"
    BY PastTypes
  <2>3. Is(Past(t), queue[1])
    BY <2>2, IsTransitive
  <2>4. Wear(disk, disk') /\ Past(t).kind \in Lays
    BY <1>1, <2>1, <2>2 DEF Is
  <2> QED BY <2>1, <2>2, <2>3, <2>4, GoesPast
<1> QED BY <1>3, <1>4

LEMMA SelfIs == \A t : Is(t, t)
BY DEF Is

LEMMA RestoreSound == ASSUME IndexInv, Restore PROVE IndexInv'
<1> DEFINE t == Head(queue)
           u == Result(t, t.key \in disk.index)
<1>1. queue # <<>> /\ t.kind = "restore" /\ Reports(u) /\ UNCHANGED <<process, svc, disk, spent>>
  BY Zenon DEF Restore, Running, Result
<1>2. t = queue[1] /\ t \in Tasks /\ Wear(disk, disk)
  BY <1>1, Running1
<1>3. u \in Tasks /\ Is(u, t)
  <2>1. \A b \in BOOLEAN : Result(t, b) \in Tasks /\ Is(Result(t, b), t)
    BY <1>2, ResultTypes
  <2>2. (t.key \in disk.index) \in BOOLEAN
    OBVIOUS
  <2> QED BY <2>1, <2>2, Zenon
<1> HIDE DEF u
<1>5. Sound1
  BY <1>1, <1>2, <1>3, IsOver
<1> QED BY <1>1, <1>5, WorkerInv

LEMMA BuildSound == ASSUME IndexInv, Build PROVE IndexInv'
<1> DEFINE t == Head(queue)
<1>1. /\ queue # <<>> /\ t.kind = "build" /\ UNCHANGED <<process, svc, disk, spent>>
      /\ \E ok \in BOOLEAN : Reports(Result(t, ok))
  BY Zenon DEF Build, Running, Result
<1>2. PICK ok \in BOOLEAN : Reports(Result(t, ok))
  BY <1>1
<1>3. t = queue[1] /\ t \in Tasks /\ Wear(disk, disk)
  BY <1>1, Running1
<1> DEFINE u == Result(t, ok)
<1>4. u \in Tasks /\ Is(u, t)
  BY <1>3, ResultTypes
<1> HIDE DEF u
<1>6. Reports(u)
  BY <1>2 DEF u
<1>7. Sound1
  BY <1>1, <1>3, <1>4, <1>6, IsOver
<1> QED BY <1>1, <1>7, WorkerInv

\* An index saved.
LEMMA IndexedWear ==
    ASSUME NEW d \in Disks, Kept(d), NEW k \in Keys
    PROVE  Wear(d, [d EXCEPT !.index = @ \cup {k}])
<1> DEFINE i == d.index \cup {k}
           e == [d EXCEPT !.index = i]
<1>1. i \in SUBSET Keys
  BY DEF Disks
<1> HIDE DEF i
<1>2. e = [final |-> d.final, index |-> i, writers |-> d.writers, opened |-> d.opened,
           faults |-> d.faults]
  BY DEF Disks
<1> HIDE DEF e
<1>3. e \in Disks
  BY <1>1, <1>2 DEF Disks
<1>4. e.final = d.final /\ e.writers = d.writers /\ e.opened = d.opened
  BY <1>2
<1>5. Wear(d, e)
  BY <1>3, <1>4 DEF Wear, Kept
<1> QED BY <1>5 DEF e, i

LEMMA SaveSound == ASSUME IndexInv, Save PROVE IndexInv'
<1> DEFINE t == Head(queue)
           e == [disk EXCEPT !.index = @ \cup {t.key}]
<1>1. /\ queue # <<>> /\ t.kind = "save" /\ UNCHANGED <<process, svc, spent>>
      /\ Reports(t) /\ disk' \in {disk, e}
  BY Zenon DEF Save, Running
<1>2. /\ t = queue[1] /\ t \in Tasks /\ Wear(disk, disk) /\ disk \in Disks /\ Kept(disk)
  BY <1>1, Running1
<1>3. Wear(disk, e)
  <2>1. t.key \in Keys
    BY <1>2 DEF Tasks
  <2> QED BY <1>2, <2>1, IndexedWear, Zenon
<1> HIDE DEF e
<1>5. Wear(disk, disk')
  BY <1>1, <1>2, <1>3
<1>6. Sound1
  BY <1>1, <1>2, <1>5, IsOver, SelfIs
<1> QED BY <1>1, <1>6, WorkerInv

LEMMA SlotSound == ASSUME IndexInv, Slot PROVE IndexInv'
<1> DEFINE t == Head(queue)
           w == t.writer
           f == Advertised(disk.writers[w].temp, At(t))
<1>1. /\ queue # <<>> /\ t.stage = "payload" /\ UNCHANGED <<process, svc, spent>>
      /\ Goes(Past(t))
      /\ \/ disk' = Temp(disk, w, f)
         \/ MayFail(disk) /\ disk' = Failed(Aborted(disk, w))
  BY Zenon DEF Slot, Temp
<1>2. /\ t = queue[1] /\ t \in Tasks /\ disk \in Disks /\ Kept(disk)
      /\ Fits(disk, svc, t) /\ Held(disk, t)
  BY <1>1, Running1
<1>3. /\ w # NoWriter /\ Present(disk.writers[w].temp) /\ At(t) \in Layers
      /\ At(t) \in disk.writers[w].temp.payload
  BY <1>1, <1>2 DEF Held, Writing
<1>4. w \in Writers /\ disk.writers[w].key \in Keys
  BY <1>2, <1>3 DEF Fits, Has, Disks
<1>5. Sane(f, disk.writers[w].key) /\ Present(f)
  BY <1>2, <1>3, <1>4, AdvertisedSane DEF Kept
<1> HIDE DEF f
<1>6. Wear(disk, disk')
  BY <1>1, <1>2, <1>3, <1>4, <1>5, TempWear, FailedAborted
<1>7. Past(t) \in Tasks /\ Is(Past(t), t) /\ Past(t).stage = "run"
  BY <1>2, <1>3, PastTypes
<1>9. Past(t).kind \in Lays
  BY <1>1, <1>2, <1>7 DEF Held, Is
<1>8. Sound1
  BY <1>1, <1>2, <1>6, <1>7, <1>9, GoesPast
<1> QED BY <1>1, <1>8, WorkerInv

LEMMA PrepareLayerSound == ASSUME IndexInv, PrepareLayer PROVE IndexInv'
<1> DEFINE t == Head(queue)
           l == t.at
<1>1. /\ queue # <<>> /\ t.kind = "fullprep" /\ t.stage = "run" /\ l <= MaxLayer
      /\ UNCHANGED <<process, svc, spent>>
      /\ \/ Goes(Past(t)) /\ UNCHANGED disk
         \/ Puts(t)
         \/ Goes(Refuses(Past(t), l)) /\ UNCHANGED disk
         \/ Puts(Encodes(t, l))
         \/ (\E never : Unread(never)) /\ Reports(Result(t, TRUE))
  BY Zenon DEF PrepareLayer, Running, Refuses, Encodes, Result
<1>2. /\ t = queue[1] /\ t \in Tasks /\ Wear(disk, disk) /\ disk \in Disks /\ Kept(disk)
      /\ Is(t, queue[1])
  BY <1>1, Running1, SelfIs
<1>3. At(t) \in Layers /\ l \in Layers /\ t.kind \in Lays
  <2>1. At(t) \in Layers
    BY <1>1, <1>2, AtLayer
  <2> QED BY <1>1, <2>1 DEF At, Lays
<1>4. /\ Past(t) \in Tasks /\ Is(Past(t), t) /\ Past(t).stage = "run"
      /\ Past(t).kind \in Lays
  <2>1. Past(t) \in Tasks /\ Is(Past(t), t) /\ Past(t).stage = "run"
    BY <1>2, <1>3, PastTypes
  <2> QED BY <1>3, <2>1 DEF Is
<1>5. CASE Goes(Past(t)) /\ UNCHANGED disk
  BY <1>1, <1>2, <1>4, <1>5, GoesPast, WorkerInv
<1>6. CASE Puts(t)
  BY <1>1, <1>2, <1>3, <1>6, PutsSound, WorkerInv
<1>7. CASE Goes(Refuses(Past(t), l)) /\ UNCHANGED disk
  <2> DEFINE u == Refuses(Past(t), l)
  <2>1. u \in Tasks /\ Is(u, Past(t)) /\ u.stage = "run"
    BY <1>3, <1>4, RefusesTypes
  <2>2. Is(u, t) /\ u.kind \in Lays
    BY <1>4, <2>1, IsTransitive DEF Is
  <2> HIDE DEF u
  <2>3. Goes(u)
    BY <1>7 DEF u
  <2> QED BY <1>1, <1>2, <1>7, <2>1, <2>2, <2>3, GoesPast, WorkerInv
<1>8. CASE Puts(Encodes(t, l))
  <2> DEFINE u == Encodes(t, l)
  <2>1. u \in Tasks /\ Is(u, t) /\ At(u) = At(t)
    BY <1>2, <1>3, EncodesTypes
  <2> HIDE DEF u
  <2>2. u.kind = "fullprep"
    BY <1>1, <2>1 DEF Is
  <2>3. Puts(u)
    BY <1>8 DEF u
  <2> QED BY <1>1, <1>2, <1>3, <2>1, <2>2, <2>3, PutsSound, WorkerInv DEF Lays
<1>9. CASE (\E never : Unread(never)) /\ Reports(Result(t, TRUE))
  <2> DEFINE u == Result(t, TRUE)
  <2>1. u \in Tasks /\ Is(u, t)
    BY <1>2, ResultTypes, Zenon
  <2> HIDE DEF u
  <2>2. Reports(u)
    BY <1>9 DEF u
  <2>4. Wear(disk, disk')
    BY <1>2, <1>9, FailedWear DEF Unread
  <2> QED BY <1>1, <1>2, <2>1, <2>2, <2>4, IsOver, WorkerInv
<1> QED BY <1>1, <1>5, <1>6, <1>7, <1>8, <1>9

LEMMA PrepareEndsSound == ASSUME IndexInv, PrepareEnds PROVE IndexInv'
<1> DEFINE t == Head(queue)
<1>1. /\ queue # <<>> /\ t.kind = "fullprep" /\ UNCHANGED <<process, svc, spent>>
      /\ \/ Reports(Result(t, TRUE)) /\ UNCHANGED disk
         \/ MayFail(disk) /\ disk' = Failed(disk) /\ Reports(t)
  BY Zenon DEF PrepareEnds, Running, Result
<1>2. /\ t = queue[1] /\ t \in Tasks /\ Wear(disk, disk) /\ disk \in Disks /\ Kept(disk)
  BY <1>1, Running1
<1>3. PICK u \in {t, Result(t, TRUE)} : Reports(u)
  BY <1>1
<1>4. u \in Tasks /\ Is(u, t)
  <2>1. Result(t, TRUE) \in Tasks /\ Is(Result(t, TRUE), t)
    BY <1>2, ResultTypes, Zenon
  <2> QED BY <1>2, <2>1, SelfIs
<1>6. Wear(disk, disk')
  BY <1>1, <1>2, FailedWear
<1>7. Sound1
  BY <1>1, <1>2, <1>3, <1>4, <1>6, IsOver
<1> QED BY <1>1, <1>7, WorkerInv

LEMMA HydrateLayerSound == ASSUME IndexInv, HydrateLayer PROVE IndexInv'
<1> DEFINE t == Head(queue)
           l == At(t)
<1>1. /\ queue # <<>> /\ t.kind = "hydrate" /\ t.todo # {}
      /\ UNCHANGED <<process, svc, spent>>
      /\ \/ Goes(Encodes(Past(t), l)) /\ UNCHANGED disk
         \/ Puts(Encodes(t, l))
         \/ Goes(Past(t)) /\ UNCHANGED disk
         \/ (\E never : Unread(never)) /\ Goes(Fails(Past(t), l))
  BY Zenon DEF HydrateLayer, Running, Encodes, Fails
<1>2. /\ t = queue[1] /\ t \in Tasks /\ Wear(disk, disk) /\ disk \in Disks /\ Kept(disk)
  BY <1>1, Running1
<1>3. l \in Layers /\ t.kind \in Lays
  BY <1>1, <1>2, AtLayer DEF Lays
<1>4. /\ Past(t) \in Tasks /\ Is(Past(t), t) /\ Past(t).stage = "run"
      /\ Past(t).kind \in Lays
  <2>1. Past(t) \in Tasks /\ Is(Past(t), t) /\ Past(t).stage = "run"
    BY <1>2, <1>3, PastTypes
  <2> QED BY <1>3, <2>1 DEF Is
<1> HIDE DEF l
<1>5. ASSUME NEW u \in {Past(t), Encodes(Past(t), l), Fails(Past(t), l)}, Goes(u),
             Wear(disk, disk')
      PROVE  IndexInv'
  <2>1. u \in Tasks /\ u.stage = "run" /\ Is(u, Past(t))
    BY <1>3, <1>4, EncodesTypes, FailsTypes, SelfIs
  <2>2. Is(u, t) /\ u.kind \in Lays
    BY <1>4, <2>1, IsTransitive DEF Is
  <2> QED BY <1>1, <1>2, <1>5, <2>1, <2>2, GoesPast, WorkerInv
<1>6. CASE Puts(Encodes(t, l))
  <2> DEFINE u == Encodes(t, l)
  <2>1. u \in Tasks /\ Is(u, t) /\ At(u) = At(t) /\ u.todo = t.todo
    BY <1>2, <1>3, EncodesTypes
  <2> HIDE DEF u
  <2>2. u.kind \in Lays /\ u.kind = t.kind
    BY <1>3, <2>1 DEF Is
  <2>3. Puts(u)
    BY <1>6 DEF u
  <2>4. At(u) \in Layers
    BY <1>3, <2>1 DEF l
  <2> QED BY <1>1, <1>2, <1>3, <2>1, <2>2, <2>3, <2>4, PutsSound, WorkerInv
<1>7. CASE UNCHANGED disk /\ (Goes(Past(t)) \/ Goes(Encodes(Past(t), l)))
  BY <1>2, <1>5, <1>7
<1>8. CASE (\E never : Unread(never)) /\ Goes(Fails(Past(t), l))
  <2>1. Wear(disk, disk')
    BY <1>2, <1>8, FailedWear DEF Unread
  <2> QED BY <1>5, <1>8, <2>1
<1> QED BY <1>1, <1>6, <1>7, <1>8

LEMMA HydrateEndsSound == ASSUME IndexInv, HydrateEnds PROVE IndexInv'
<1> DEFINE t == Head(queue)
<1>1. /\ queue # <<>> /\ t.kind = "hydrate" /\ UNCHANGED <<process, svc, disk, spent>>
      /\ Reports(t)
  BY Zenon DEF HydrateEnds, Running
<1>2. /\ t = queue[1] /\ t \in Tasks /\ Wear(disk, disk)
  BY <1>1, Running1
<1>4. Sound1
  BY <1>1, <1>2, IsOver, SelfIs
<1> QED BY <1>1, <1>4, WorkerInv

LEMMA FlagSound == ASSUME IndexInv, Flag PROVE IndexInv'
<1> DEFINE t == Head(queue)
           w == t.writer
           o == disk.writers[w].temp
           f == [o EXCEPT !.complete = Present(o)]
           u == Staged(t, "flagged")
<1>1. /\ queue # <<>> /\ t.kind = "prepared_save" /\ t.stage = "run"
      /\ UNCHANGED <<process, svc, spent>>
      /\ \/ Reports(t) /\ UNCHANGED disk
         \/ Goes(u) /\ disk' = Temp(disk, w, f)
  BY Zenon DEF Flag, Running, Staged, Temp
<1>2. /\ t = queue[1] /\ t \in Tasks /\ disk \in Disks /\ Kept(disk) /\ Wear(disk, disk)
      /\ Fits(disk, svc, t) /\ Held(disk, t)
  BY <1>1, Running1
<1>3. w \in Writers /\ disk.writers[w].key \in Keys
  BY <1>1, <1>2 DEF Fits, Has, Disks
<1>4. CASE Goes(u) /\ disk' = Temp(disk, w, f)
  <2>1. Sane(o, disk.writers[w].key) /\ Present(o) \in BOOLEAN
    BY <1>2, <1>3 DEF Kept, Present
  <2>2. Sane(f, disk.writers[w].key) /\ (Present(f) <=> Present(o))
    BY <1>3, <2>1, FlaggedSane, Zenon
  <2> HIDE DEF f
  <2>3. Wear(disk, disk')
    BY <1>2, <1>3, <1>4, <2>2, TempWear
  <2>4. u \in Tasks /\ Is(u, t) /\ u.stage = "flagged" /\ u.ok = t.ok
    BY <1>2, StagedTypes
  <2> HIDE DEF u
  <2>5. Held(disk', u)
    BY <1>1, <1>2, <2>4 DEF Held, Is
  <2> QED BY <1>1, <1>2, <1>4, <2>3, <2>4, <2>5, GoesOn, WorkerInv
<1>5. CASE Reports(t) /\ UNCHANGED disk
  <2> QED BY <1>1, <1>2, <1>5, IsOver, SelfIs, WorkerInv
<1> QED BY <1>1, <1>4, <1>5

-----------------------------------------------------------------------------
(* The rename of a writer's file onto the path of its print.               *)

LEMMA ReplacedFields ==
    ASSUME NEW d \in Disks, NEW w \in Writers, NEW k \in Keys
    PROVE  /\ Replaced(d, w, k) \in Disks
           /\ Replaced(d, w, k).final[k] = d.writers[w].temp
           /\ \A c \in Keys : c # k => Replaced(d, w, k).final[c] = d.final[c]
           /\ Replaced(d, w, k).opened = d.opened /\ Replaced(d, w, k).faults = d.faults
           /\ Replaced(d, w, k).writers[w].retired
           /\ Replaced(d, w, k).writers[w].temp = NoFile
           /\ Replaced(d, w, k).writers[w].key = d.writers[w].key
           /\ Replaced(d, w, k).writers[w].dead = d.writers[w].dead
           /\ \A v \in Writers : v # w => Replaced(d, w, k).writers[v] = d.writers[v]
<1> DEFINE f == d.writers[w].temp
           e == Final(d, k, f)
           g == Aborted(e, w)
<1>1. f \in Files
  BY RecFields DEF WriterRecs
<1>2. /\ e \in Disks /\ e.writers = d.writers /\ e.opened = d.opened /\ e.faults = d.faults
      /\ e.final[k] = f /\ \A c \in Keys : c # k => e.final[c] = d.final[c]
  BY <1>1, FinalFields
<1>3. Replaced(d, w, k) = g
  BY ReplacedIs
<1> HIDE DEF e
<1>4. /\ g \in Disks /\ g.final = e.final /\ g.opened = e.opened /\ g.faults = e.faults
      /\ g.writers[w].retired /\ g.writers[w].temp = NoFile
      /\ g.writers[w].key = e.writers[w].key /\ g.writers[w].dead = e.writers[w].dead
      /\ \A v \in Writers : v # w => g.writers[v] = e.writers[v]
  BY <1>2, AbortedFields
<1> HIDE DEF g
<1> QED BY <1>2, <1>3, <1>4

\* Disk e is d with the file of writer w renamed to the path of its key k.
Renamed(d, e, w, k) ==
    /\ e \in Disks /\ Kept(e) /\ e.opened = d.opened
    /\ e.final[k] = d.writers[w].temp
    /\ \A c \in Keys : c # k => e.final[c] = d.final[c]
    /\ e.writers[w].retired
    /\ \A v \in Writers :
         /\ e.writers[v].key = d.writers[v].key /\ e.writers[v].dead = d.writers[v].dead
         /\ d.writers[v].retired => e.writers[v].retired
         /\ Present(e.writers[v].temp) => Present(d.writers[v].temp)

\* A session's machine is its writer's: in its folder the writer's path is its key.
LEMMA Folder ==
    ASSUME NEW k \in Keys, NEW c \in Belongs(k)
    PROVE  c \in Keys /\ InFolder(c[1], k) = k
BY DEF Keys, Belongs, InFolder

LEMMA ReplacedRenamed ==
    ASSUME NEW d \in Disks, Kept(d), NEW w \in Writers, NEW k, d.writers[w].key = k
    PROVE  Renamed(d, Replaced(d, w, k), w, k)
<1> DEFINE e == Replaced(d, w, k)
<1>1. k \in Keys /\ Sane(NoFile, k) /\ ~Present(NoFile)
  BY NoFileSane DEF Disks
<1>2. /\ e \in Disks /\ e.final[k] = d.writers[w].temp
      /\ \A c \in Keys : c # k => e.final[c] = d.final[c]
      /\ e.opened = d.opened /\ e.writers[w].retired /\ e.writers[w].temp = NoFile
      /\ e.writers[w].key = d.writers[w].key /\ e.writers[w].dead = d.writers[w].dead
      /\ \A v \in Writers : v # w => e.writers[v] = d.writers[v]
  BY <1>1, ReplacedFields
<1> HIDE DEF e
<1>3. \A c \in Keys : Sane(e.final[c], c)
  BY <1>1, <1>2 DEF Kept
<1>4. \A v \in Writers : Sane(e.writers[v].temp, e.writers[v].key)
  BY <1>1, <1>2 DEF Kept
<1>5. Renamed(d, e, w, k)
  BY <1>1, <1>2, <1>3, <1>4 DEF Renamed, Kept
<1> QED BY <1>5 DEF e

\* The publication is over: it replaced a file nothing relies on.
LEMMA Published1 ==
    ASSUME NEW d, NEW s, NEW q, NEW p, Sound(d, s, q, p), q # <<>>,
           q[1].kind = "prepared_save", Present(d.writers[q[1].writer].temp),
           NEW e, NEW c \in Keys, Renamed(d, e, q[1].writer, c), NEW u \in Tasks, Is(u, q[1]), u.ok
    PROVE  Sound(e, s, Tail(q), Append(p, u))
<1> DEFINE r == Tail(q)
           b == Append(p, u)
           t == q[1]
<1>1. /\ r \in Seq(Tasks)
      /\ \A i \in DOMAIN r : /\ i \in Nat /\ i + 1 \in DOMAIN q /\ i + 1 # 1
                             /\ r[i] = q[i + 1]
  BY HeadGone DEF Sound
<1>2. \A i \in DOMAIN q : q[i] \in Tasks /\ Fits(d, s, q[i]) /\ Counts(s, q[i])
  BY DEF Sound
<1>3. b \in Seq(Tasks) /\ \A i \in DOMAIN p : b[i] = p[i]
  BY OneMore DEF Sound
<1>4. PICK n : n \notin DOMAIN p /\ DOMAIN b = DOMAIN p \cup {n} /\ b[n] = u
  BY OneMore DEF Sound
<1>5. 1 \in DOMAIN q
  BY HeadOf DEF Sound
<1>6. /\ ~Idle(s) /\ s.busyGen = t.gen /\ t.writer # NoWriter /\ t.writer \in Writers
      /\ t.gen = s.gen => t.key = Key(s) /\ s.open /\ ~s.saved
  BY <1>2, <1>5 DEF Fits, Counts, Has
<1> HIDE DEF r, b
<1>7. \A i \in DOMAIN r : r[i].gen # s.gen
  <2> SUFFICES ASSUME NEW i \in DOMAIN r, r[i].gen = s.gen PROVE FALSE
    OBVIOUS
  <2>1. q[i + 1].gen = s.gen /\ i + 1 \in DOMAIN q /\ i + 1 # 1
    BY <1>1
  <2>2. t.gen = s.gen
    BY <1>2, <1>6, <2>1 DEF Counts
  <2> QED BY <1>5, <2>1, <2>2 DEF Sound, Single
<1>8. \A j \in DOMAIN p : p[j].gen # s.gen
  <2> SUFFICES ASSUME NEW j \in DOMAIN p, p[j].gen = s.gen PROVE FALSE
    OBVIOUS
  <2>1. t.gen = s.gen
    BY <1>6 DEF Counts, Sound
  <2> QED BY <1>5, <2>1 DEF Sound, Single
<1>9. ASSUME NEW i \in DOMAIN r PROVE Fits(e, s, r[i]) /\ Counts(s, r[i])
  <2> DEFINE x == r[i]
  <2>1. x \in Tasks /\ Fits(d, s, x) /\ Counts(s, x) /\ x.gen # s.gen
    BY <1>1, <1>2, <1>7
  <2> HIDE DEF x
  <2>2. x.writer # NoWriter => x.writer \in Writers
    BY <2>1, WrittenIsAWriter
  <2>3. Fits(e, s, x)
    BY <2>1, <2>2 DEF Fits, Writing, Has, Renamed
  <2> QED BY <2>1, <2>3 DEF x
<1>10. Counts(s, u)
  BY <1>2, <1>5, IsCounts
<1>11. \A i \in DOMAIN b : Counts(s, b[i])
  BY <1>3, <1>4, <1>10 DEF Sound
<1>12. Single(r, b)
  <2>1. u.gen = q[1].gen
    BY DEF Is
  <2>2. \A i, j \in DOMAIN r : r[i].gen = r[j].gen => i = j
    BY <1>1 DEF Sound, Single
  <2>3. \A i, j \in DOMAIN b : b[i].gen = b[j].gen => i = j
    BY <1>3, <1>4, <1>5, <2>1 DEF Sound, Single
  <2>4. \A i \in DOMAIN r, j \in DOMAIN b : r[i].gen # b[j].gen
    BY <1>1, <1>3, <1>4, <1>5, <2>1 DEF Sound, Single
  <2> QED BY <2>2, <2>3, <2>4 DEF Single
<1>13. Lock(e, r)
  <2>1. \A i \in DOMAIN r : r[i].stage = "run" /\ (r[i].kind = "prepared_save" => ~r[i].ok)
    BY <1>1 DEF Sound, Lock, Held
  <2> QED BY <2>1 DEF Lock, Held
<1>14. e \in Disks /\ Kept(e) /\ s \in Services
  BY DEF Renamed, Sound
<1>15. Session(e, s, b)
  <2>1. Session(d, s, p) /\ ~Present(NoFile)
    BY NoFileSane DEF Sound
  <2>2. s.open => s.job # NoJob /\ s.busyGen = s.gen
    BY <1>6, <2>1 DEF Session
  <2>3. ~s.complete
    BY <1>6, <2>1, <2>2 DEF Session
  <2>4. s.writer # NoWriter => Has(e, s.writer, Key(s))
    BY <2>1 DEF Renamed, Session, Has
  <2>5. Present(s.table) => \/ s.table = e.final[Key(s)]
                            \/ \E j \in DOMAIN b : Saves(s, b[j]) /\ Present(e.final[Key(s)])
    <3> SUFFICES ASSUME Present(s.table)
                 PROVE  \/ s.table = e.final[Key(s)]
                        \/ \E j \in DOMAIN b : Saves(s, b[j]) /\ Present(e.final[Key(s)])
      OBVIOUS
    <3>1. s.open
      BY <2>1 DEF Session
    <3>2. Saves(s, u) /\ Key(s) \in Keys
      BY <1>6, <2>2, <3>1, <1>2, <1>5 DEF Saves, Is, Tasks
    <3>3. s.table = d.final[Key(s)]
      BY <1>8, <2>1 DEF Session, Saves
    <3>4. CASE c = Key(s)
      BY <1>4, <3>2, <3>4 DEF Renamed
    <3>5. CASE c # Key(s)
      BY <3>2, <3>3, <3>5 DEF Renamed
    <3> QED BY <3>4, <3>5
  <2> QED BY <2>1, <2>2, <2>3, <2>4, <2>5 DEF Session
<1>16. Sound(e, s, r, b)
  BY <1>1, <1>3, <1>9, <1>11, <1>12, <1>13, <1>14, <1>15, Zenon DEF Sound
<1> QED BY <1>16 DEF r, b

LEMMA RenameSound == ASSUME IndexInv, Rename PROVE IndexInv'
<1> DEFINE t == Head(queue)
           w == t.writer
           path == InFolder(t.key[1], disk.writers[w].key)
           u == Result(t, TRUE)
<1>1. /\ queue # <<>> /\ t.kind = "prepared_save" /\ UNCHANGED <<process, svc, spent>>
      /\ \/ /\ Present(disk.writers[w].temp)
            /\ disk' = Replaced(disk, w, path) /\ Reports(u)
         \/ disk' = Aborted(disk, w) /\ Reports(t)
         \/ MayFail(disk) /\ disk' = Failed(Aborted(disk, w)) /\ Reports(t)
  BY Zenon DEF Rename, Running, Result
<1>2. /\ t = queue[1] /\ t \in Tasks /\ disk \in Disks /\ Kept(disk)
      /\ Fits(disk, svc, t) /\ Held(disk, t)
  BY <1>1, Running1
<1>3. w \in Writers /\ path = disk.writers[w].key /\ path \in Keys
  <2>1. w \in Writers /\ t.key \in Belongs(disk.writers[w].key)
    BY <1>1, <1>2 DEF Fits, Has
  <2>2. disk.writers[w].key \in Keys
    BY <1>2, <2>1, RecFields DEF WriterRecs
  <2> QED BY <2>1, <2>2, Folder
<1>4. u \in Tasks /\ Is(u, t) /\ u.ok
  <2>1. \A b \in BOOLEAN : Result(t, b) \in Tasks /\ Is(Result(t, b), t) /\ Result(t, b).ok = b
    BY <1>2, ResultTypes
  <2>2. u \in Tasks /\ Is(u, t) /\ u.ok = TRUE
    BY <2>1, Zenon
  <2> QED BY <2>2
<1> HIDE DEF u, path
<1>5. CASE /\ Present(disk.writers[w].temp)
           /\ disk' = Replaced(disk, w, path) /\ Reports(u)
  <2>1. Renamed(disk, disk', w, path)
    BY <1>2, <1>3, <1>5, ReplacedRenamed
  <2>2. Sound(disk, svc, queue, posted)
    BY DEF IndexInv
  <2>3. Sound(disk', svc, Tail(queue), Append(posted, u))
    BY <1>1, <1>2, <1>3, <1>4, <1>5, <2>1, <2>2, Published1
  <2>4. Sound1
    BY <1>5, <2>3 DEF Reports, Sound1
  <2> QED BY <1>1, <2>4, WorkerInv
<1>6. CASE /\ disk' = Aborted(disk, w) \/ (MayFail(disk) /\ disk' = Failed(Aborted(disk, w)))
           /\ Reports(t)
  <2>1. Wear(disk, disk')
    BY <1>2, <1>3, <1>6, AbortedWear, FailedAborted
  <2> QED BY <1>1, <1>2, <1>6, <2>1, IsOver, SelfIs, WorkerInv
<1> QED BY <1>1, <1>5, <1>6

LEMMA WorkSound == ASSUME IndexInv, Work PROVE IndexInv'
BY RestoreSound, BuildSound, SaveSound, SlotSound, PrepareLayerSound, PrepareEndsSound,
   HydrateLayerSound, HydrateEndsSound, FlagSound, RenameSound DEF Work

-----------------------------------------------------------------------------
(* The service's fields.                                                   *)

\* Services r and s differ in nothing the invariant speaks of, but perhaps that the
\* metadata have come.
Alike(s, r) ==
    /\ r.gen = s.gen /\ r.machine = s.machine /\ r.job = s.job /\ r.name = s.name
    /\ r.identity \in {s.identity, "parsed"} \/ s.identity = "none"
    /\ (Idle(r) <=> Idle(s)) /\ r.busyGen = s.busyGen /\ r.open = s.open
    /\ r.table = s.table /\ r.writer = s.writer /\ r.saved = s.saved
    /\ r.complete = s.complete

LEMMA AlikeSound ==
    ASSUME NEW d, NEW s, NEW q, NEW p, Sound(d, s, q, p), NEW r \in Services, Alike(s, r)
    PROVE  Sound(d, r, q, p)
<1>1. Key(r) = Key(s)
  BY DEF Alike, Key
<1>2. Session(d, r, p)
  <2>1. \A t : Saves(r, t) <=> Saves(s, t)
    BY DEF Alike, Saves
  <2> QED BY <1>1, <2>1 DEF Alike, Sound, Session
<1>3. ASSUME NEW t PROVE /\ Fits(d, s, t) => Fits(d, r, t)
                         /\ Counts(s, t) => Counts(r, t)
  BY <1>1 DEF Alike, Fits, Counts
<1> QED BY <1>1, <1>2, <1>3 DEF Sound

\* A service that waits for nothing.
Ready(d, s, q, p) == /\ Sound(d, s, q, p) /\ Idle(s) /\ s.job # NoJob
                     /\ s.gen <= MaxGen

LEMMA AlikeReady ==
    ASSUME NEW d, NEW s, NEW q, NEW p, Ready(d, s, q, p), NEW r \in Services, Alike(s, r)
    PROVE  Ready(d, r, q, p)
BY AlikeSound DEF Ready, Alike

LEMMA ReadyFacts ==
    ASSUME NEW d, NEW s, NEW q, NEW p, Ready(d, s, q, p)
    PROVE  /\ d \in Disks /\ s \in Services /\ Kept(d) /\ Session(d, s, p)
           /\ Key(s) \in Keys /\ s.gen \in 0..MaxGen
           /\ d.final[Key(s)] \in Files /\ Valid(d.final[Key(s)])
           /\ \A i \in DOMAIN q : q[i] \in Tasks /\ q[i].gen # s.gen
           /\ \A i \in DOMAIN p : p[i] \in Tasks /\ p[i].gen # s.gen
           /\ Present(s.table) => s.table = d.final[Key(s)]
<1>1. d \in Disks /\ s \in Services /\ Kept(d) /\ Session(d, s, p)
  BY DEF Ready, Sound
<1>2. Key(s) \in Keys
  BY <1>1 DEF Ready, Key, Keys, Services
<1>3. s.gen \in 0..MaxGen
  <2>1. s.gen \in 0..(MaxGen + 1) /\ s.gen <= MaxGen
    BY <1>1 DEF Ready, Services
  <2> QED BY <2>1, ServiceAssumption
<1>4. /\ \A i \in DOMAIN q : q[i] \in Tasks /\ q[i].gen # s.gen
      /\ \A i \in DOMAIN p : p[i] \in Tasks /\ p[i].gen # s.gen
  <2>1. q \in Seq(Tasks) /\ p \in Seq(Tasks)
        /\ (\A i \in DOMAIN q : Counts(s, q[i])) /\ (\A i \in DOMAIN p : Counts(s, p[i]))
    BY DEF Ready, Sound
  <2>2. \A t : Counts(s, t) => t.gen # s.gen
    BY DEF Ready, Counts
  <2> QED BY <2>1, <2>2
<1>5. Present(s.table) => s.table = d.final[Key(s)]
  BY <1>1, <1>4 DEF Session, Saves
<1> QED BY <1>1, <1>2, <1>3, <1>4, <1>5 DEF Kept, Sane

\* What a writer takes under the fallback it takes under the identity that replaces it.
LEMMA Renames ==
    ASSUME NEW m, NEW j, NEW k, <<m, j, "fallback">> \in Belongs(k), <<m, j, "parsed">> \in Keys
    PROVE  <<m, j, "parsed">> \in Belongs(k)
BY DEF Belongs

\* The session opens, or opens again under the metadata's identity.
LEMMA OpenedSession ==
    ASSUME NEW d, NEW s, NEW q, NEW p, Ready(d, s, q, p), s.identity # "none"
    PROVE  LET r == SessionOpen(d, s)
           IN  /\ Ready(d, r, q, p) /\ r.open /\ r.gen = s.gen /\ r.machine = s.machine
               /\ r.job = s.job /\ r.identity = s.identity /\ r.name = s.identity
<1> DEFINE f == IF Reliable(s) THEN Loaded(d.final[Named(s)]) ELSE NoFile
           r == [s EXCEPT !.open = TRUE, !.name = s.identity, !.table = f]
<1>1. /\ d \in Disks /\ s \in Services /\ Kept(d) /\ Session(d, s, p) /\ s.job # NoJob
      /\ \A i \in DOMAIN q : q[i] \in Tasks /\ q[i].gen # s.gen
      /\ \A i \in DOMAIN p : p[i] \in Tasks /\ p[i].gen # s.gen
  BY ReadyFacts DEF Ready
<1>2. CASE s.open /\ s.name = s.identity
  BY <1>2 DEF SessionOpen
<1>3. CASE ~(s.open /\ s.name = s.identity)
  <2>1. NoFile \in Files /\ ~Present(NoFile)
    BY NoFileSane DEF Sane
  <2>0. s.identity \in Names /\ Named(s) \in Keys
    BY <1>1 DEF Services, Named, Keys
  <2>2. f \in Files /\ (Present(f) => f = d.final[Named(s)])
    <3>1. d.final[Named(s)] \in Files
      BY <1>1, <2>0 DEF Disks
    <3> QED BY <2>1, <3>1 DEF Loaded
  <2>3. SessionOpen(d, s) = r
    BY <1>3, Zenon DEF SessionOpen
  <2> HIDE DEF f
  <2>4. r \in Services
    BY <1>1, <2>0, <2>2, Zenon DEF Services
  <2>5. /\ r.gen = s.gen /\ r.machine = s.machine /\ r.job = s.job
        /\ r.busy = s.busy /\ r.busyGen = s.busyGen /\ r.open = TRUE
        /\ r.table = f /\ r.writer = s.writer /\ r.saved = s.saved
        /\ r.complete = s.complete /\ r.identity = s.identity /\ r.name = s.identity
    BY <1>1 DEF Services
  <2> HIDE DEF r
  <2>6. Key(r) = Named(s) /\ (Idle(r) <=> Idle(s))
    BY <2>5 DEF Key, Named, Idle
  <2>7. ASSUME NEW t, t.gen # s.gen
        PROVE  /\ Fits(d, s, t) => Fits(d, r, t)
               /\ Counts(s, t) => Counts(r, t)
               /\ ~Saves(r, t)
    BY <2>5, <2>6, <2>7 DEF Fits, Counts, Saves
  <2>8. s.open => s.name = "fallback" /\ s.identity = "parsed"
    BY <1>1, <1>3, <2>0 DEF Session, Names, Services
  <2>9. r.complete => r.saved /\ \E n \in {r.name, "fallback"} :
                                     AllResolved(d.final[<<r.machine, r.job, n>>])
    BY <1>1, <2>5, <2>8 DEF Session
  <2>10. r.writer # NoWriter => Has(d, r.writer, Key(r))
    <3> SUFFICES ASSUME r.writer # NoWriter PROVE Has(d, r.writer, Key(r))
      OBVIOUS
    <3>1. s.open /\ Has(d, s.writer, Key(s))
      BY <1>1, <2>5 DEF Session
    <3>2. Key(s) = <<s.machine, s.job, "fallback">> /\ Key(r) = <<s.machine, s.job, "parsed">>
      BY <2>6, <2>8, <3>1 DEF Key, Named
    <3>3. Key(r) \in Belongs(d.writers[s.writer].key)
      BY <2>0, <2>6, <3>1, <3>2, Renames DEF Has
    <3> QED BY <2>5, <3>1, <3>3 DEF Has
  <2>11. Session(d, r, p)
    BY <1>1, <2>0, <2>2, <2>5, <2>6, <2>9, <2>10 DEF Ready, Session, Names
  <2>12. Sound(d, r, q, p)
    BY <1>1, <2>4, <2>7, <2>11 DEF Ready, Sound
  <2> QED BY <2>3, <2>5, <2>6, <2>12 DEF Ready
<1> QED BY <1>2, <1>3

-----------------------------------------------------------------------------
(* A submission.                                                           *)

\* Service r is s with its flag up; t is a work item of it.
Follows(s, r) ==
    /\ r.gen = s.gen /\ r.machine = s.machine /\ r.job = s.job
    /\ r.identity = s.identity /\ r.name = s.name
    /\ r.table = s.table /\ ~Idle(r) /\ r.busyGen = s.gen
    /\ r.writer \in {s.writer, NoWriter}
    /\ (r.open <=> s.open) /\ (r.saved <=> s.saved) /\ (r.complete <=> s.complete)
Begins(s, t) ==
    /\ t.gen = s.gen /\ t.stage = "run" /\ ~t.ok /\ s.identity # "none"
    /\ t.kind \in Lays \cup {"prepared_save"} => t.key = Key(s)
    /\ t.kind = "prepared_save" => s.open /\ ~s.saved

\* One more work item, of the current generation, and the flag that says so.
LEMMA Added ==
    ASSUME NEW d, NEW s, NEW q, NEW p, Ready(d, s, q, p),
           NEW r \in Services, Follows(s, r), NEW t \in Tasks, Begins(s, t), Fits(d, r, t)
    PROVE  Sound(d, r, Append(q, t), p)
<1> DEFINE b == Append(q, t)
<1>1. /\ d \in Disks /\ s \in Services /\ Kept(d) /\ Session(d, s, p)
      /\ \A i \in DOMAIN q : q[i] \in Tasks /\ q[i].gen # s.gen
      /\ \A i \in DOMAIN p : p[i] \in Tasks /\ p[i].gen # s.gen
      /\ s.gen \in 0..MaxGen
  BY ReadyFacts
<1>0. Sound(d, s, q, p) /\ s.job # NoJob
  BY DEF Ready
<1>2. b \in Seq(Tasks) /\ \A i \in DOMAIN q : b[i] = q[i]
  BY <1>0, OneMore DEF Sound
<1>3. PICK n : n \notin DOMAIN q /\ DOMAIN b = DOMAIN q \cup {n} /\ b[n] = t
  BY <1>0, OneMore DEF Sound
<1> HIDE DEF b
<1>4. Key(r) = Key(s)
  BY DEF Follows, Key
<1>5. Counts(r, t)
  <2>1. t.gen = s.gen /\ r.gen = s.gen
    BY DEF Follows, Begins
  <2>2. t.gen <= r.gen
    BY <1>1, <2>1
  <2>3. /\ ~Idle(r) /\ r.busyGen = r.gen /\ r.job # NoJob /\ r.identity # "none"
        /\ t.kind \in Lays \cup {"prepared_save"} => t.key = Key(r)
    BY <1>0, <1>4 DEF Follows, Begins
  <2>4. t.kind = "prepared_save" => r.open /\ ~r.saved
    BY DEF Follows, Begins
  <2> QED BY <2>2, <2>3, <2>4 DEF Counts
<1>6. ASSUME NEW x, x.gen # s.gen, Fits(d, s, x) PROVE Fits(d, r, x)
  BY <1>6 DEF Fits, Ready, Follows
<1>7. ASSUME NEW x, x.gen # s.gen, Counts(s, x) PROVE Counts(r, x) /\ ~Saves(r, x)
  BY <1>7 DEF Counts, Saves, Follows
<1>8. \A i \in DOMAIN b : Fits(d, r, b[i]) /\ Counts(r, b[i])
  BY <1>1, <1>2, <1>3, <1>5, <1>6, <1>7 DEF Ready, Sound
<1>9. \A i \in DOMAIN p : Counts(r, p[i]) /\ ~Saves(r, p[i])
  BY <1>1, <1>7 DEF Ready, Sound
<1>10. Single(b, p)
  <2>1. t.gen = s.gen /\ Single(q, p)
    BY <1>0 DEF Begins, Sound
  <2> QED BY <1>1, <1>2, <1>3, <2>1 DEF Single
<1>11. Lock(d, b)
  <2>1. \A i \in DOMAIN q : b[i] = q[i] /\ (i # 1 => q[i].stage = "run") /\ Held(d, q[i])
    BY <1>2 DEF Ready, Sound, Lock
  <2>2. b[n].stage = "run" /\ Held(d, b[n])
    BY <1>3 DEF Held, Begins
  <2> QED BY <1>3, <2>1, <2>2 DEF Lock
<1>12. Session(d, r, p)
  <2>1. Present(s.table) => s.table = d.final[Key(s)]
    BY ReadyFacts
  <2>2. r.writer # NoWriter => Has(d, r.writer, Key(r))
    BY <1>1, <1>4 DEF Session, Follows
  <2> QED BY <1>1, <1>4, <2>1, <2>2 DEF Session, Ready, Follows
<1>13. p \in Seq(Tasks)
  BY DEF Ready, Sound
<1>14. Sound(d, r, b, p)
  BY <1>1, <1>2, <1>8, <1>9, <1>10, <1>11, <1>12, <1>13 DEF Sound
<1> QED BY <1>14 DEF b

LEMMA MarkedBusy ==
    ASSUME NEW s \in Services, NEW k \in Kinds, s.gen \in 0..MaxGen
    PROVE  LET r == [s EXCEPT !.busy = k, !.busyGen = s.gen]
           IN  /\ r \in Services /\ ~Idle(r) /\ r.busyGen = s.gen /\ r.gen = s.gen
               /\ r.machine = s.machine /\ r.job = s.job /\ (r.open <=> s.open)
               /\ r.identity = s.identity /\ r.name = s.name
               /\ r.table = s.table /\ r.writer = s.writer /\ (r.saved <=> s.saved)
               /\ r.complete <=> s.complete
<1> DEFINE r == [s EXCEPT !.busy = k, !.busyGen = s.gen]
<1>1. r \in Services
  <2>1. s.gen \in {-1} \cup 0..MaxGen /\ k \in {""} \cup Kinds
    OBVIOUS
  <2> QED BY <2>1, Zenon DEF Services
<1>3. r.busy = k /\ k # ""
  BY DEF Services, Kinds
<1>4. ~Idle(r)
  BY <1>3 DEF Idle
<1>2. /\ r.busyGen = s.gen /\ r.gen = s.gen
      /\ r.machine = s.machine /\ r.job = s.job /\ (r.open <=> s.open)
      /\ r.identity = s.identity /\ r.name = s.name
      /\ r.table = s.table /\ r.writer = s.writer /\ (r.saved <=> s.saved)
      /\ r.complete <=> s.complete
  BY DEF Services
<1> QED BY <1>1, <1>2, <1>4

\* What an outcome of _advance() is.
Outcome(x, s, p) == Sound(x[1], x[2], x[3], p) /\ x[2].gen = s.gen

LEMMA StandsStill ==
    ASSUME NEW d, NEW s, NEW q, NEW p, Sound(d, s, q, p) PROVE Outcome(<<d, s, q>>, s, p)
BY DEF Outcome

LEMMA SubmittedSound ==
    ASSUME NEW d, NEW s, NEW q, NEW p, Ready(d, s, q, p), NEW t \in Tasks,
           Begins(s, t), t.table = s.table, t.kind # "prepared_save",
           t.writer # NoWriter => t.kind \in Lays /\ t.writer = s.writer,
           NEW x \in Submitted(d, s, q, t)
    PROVE  Outcome(x, s, p)
<1> DEFINE r == [s EXCEPT !.busy = t.kind, !.busyGen = s.gen]
<1>1. /\ s \in Services /\ Session(d, s, p) /\ s.gen \in 0..MaxGen
      /\ Present(s.table) => s.table = d.final[Key(s)]
  BY ReadyFacts
<1>2. t.kind \in Kinds /\ t.kind # ""
  BY DEF Tasks, Kinds
<1>3. x = <<d, r, Append(q, t)>>
  BY DEF Submitted
<1>4. /\ r \in Services /\ ~Idle(r) /\ r.busyGen = s.gen /\ r.gen = s.gen
      /\ r.machine = s.machine /\ r.job = s.job /\ (r.open <=> s.open)
      /\ r.identity = s.identity /\ r.name = s.name
      /\ r.table = s.table /\ r.writer = s.writer /\ (r.saved <=> s.saved)
      /\ r.complete <=> s.complete
  BY <1>1, <1>2, MarkedBusy
<1> HIDE DEF r
<1>7. Follows(s, r)
  BY <1>2, <1>4 DEF Follows
<1>5. Fits(d, r, t)
  <2>1. t.kind \in Lays => t.key = Key(s)
    BY DEF Begins
  <2>2. s.writer # NoWriter => Has(d, s.writer, Key(s))
    BY <1>1 DEF Session
  <2>3. /\ r.writer = s.writer /\ r.gen = s.gen /\ t.gen = s.gen
        /\ t.kind \in Lays /\ Present(t.table) => t.table = d.final[t.key]
    BY <1>1, <1>4, <2>1 DEF Begins
  <2> QED BY <2>1, <2>2, <2>3, Zenon DEF Fits, Writing
<1>6. Sound(d, r, Append(q, t), p)
  BY <1>4, <1>5, <1>7, Added
<1> QED BY <1>3, <1>4, <1>6 DEF Outcome

-----------------------------------------------------------------------------
(* _advance().                                                             *)

\* The work items it submits.
Hydrates(t, w, b, ls) == [t EXCEPT !.writer = w, !.lease = b, !.todo = ls, !.window = ls]
Prepares(t, w, b)     == [t EXCEPT !.writer = w, !.lease = b]
Publishes(t, w)       == [t EXCEPT !.writer = w]
Builds(t)             == [t EXCEPT !.lease = TRUE]

\* The session is the one of RemoteFileService's identity.
Current(s) == s.identity # "none" /\ s.name = s.identity

LEMMA TaskTypes ==
    ASSUME NEW d, NEW s, NEW q, NEW p, Ready(d, s, q, p), NEW k \in Kinds, s.identity # "none"
    PROVE  /\ Task(s, k) \in Tasks /\ Task(s, k).kind = k /\ Task(s, k).gen = s.gen
           /\ (Current(s) => Task(s, k).key = Key(s)) /\ Task(s, k).writer = NoWriter
           /\ Task(s, k).table = s.table /\ Task(s, k).stage = "run" /\ ~Task(s, k).ok
<1>1. s \in Services /\ s.job # NoJob /\ s.gen \in 0..MaxGen
  BY ReadyFacts DEF Ready
<1>2. /\ s.store \in 0..MaxGen /\ s.table \in Files /\ s.next \in 1..(MaxLayer + 1)
      /\ s.failed \in SUBSET Layers
  BY <1>1 DEF Services
<1>5. Named(s) \in Keys
  BY <1>1 DEF Services, Named, Keys
<1>3. NoWriter \in {NoWriter} \cup Writers /\ {} \in SUBSET Layers
  OBVIOUS
<1>4. Task(s, k) \in Tasks
  BY <1>1, <1>2, <1>3, <1>5, Zenon DEF Task, Tasks
<1> QED BY <1>4 DEF Task, Current, Named, Key

LEMMA HydratesTypes ==
    ASSUME NEW t \in Tasks, NEW w \in {NoWriter} \cup Writers, NEW b \in BOOLEAN,
           NEW ls \in SUBSET Layers
    PROVE  /\ Hydrates(t, w, b, ls) \in Tasks /\ Hydrates(t, w, b, ls).kind = t.kind
           /\ Hydrates(t, w, b, ls).gen = t.gen /\ Hydrates(t, w, b, ls).key = t.key
           /\ Hydrates(t, w, b, ls).table = t.table /\ Hydrates(t, w, b, ls).writer = w
           /\ Hydrates(t, w, b, ls).stage = t.stage /\ (Hydrates(t, w, b, ls).ok <=> t.ok)
<1>1. Hydrates(t, w, b, ls) \in Tasks
  BY Zenon DEF Hydrates, Tasks
<1> QED BY <1>1 DEF Hydrates, Tasks

LEMMA PreparesTypes ==
    ASSUME NEW t \in Tasks, NEW w \in {NoWriter} \cup Writers, NEW b \in BOOLEAN
    PROVE  /\ Prepares(t, w, b) \in Tasks /\ Prepares(t, w, b).kind = t.kind
           /\ Prepares(t, w, b).gen = t.gen /\ Prepares(t, w, b).key = t.key
           /\ Prepares(t, w, b).table = t.table /\ Prepares(t, w, b).writer = w
           /\ Prepares(t, w, b).stage = t.stage /\ (Prepares(t, w, b).ok <=> t.ok)
<1>1. Prepares(t, w, b) \in Tasks
  BY Zenon DEF Prepares, Tasks
<1> QED BY <1>1 DEF Prepares, Tasks

LEMMA PublishesTypes ==
    ASSUME NEW t \in Tasks, NEW w \in {NoWriter} \cup Writers
    PROVE  /\ Publishes(t, w) \in Tasks /\ Publishes(t, w).kind = t.kind
           /\ Publishes(t, w).gen = t.gen /\ Publishes(t, w).key = t.key
           /\ Publishes(t, w).table = t.table /\ Publishes(t, w).writer = w
           /\ Publishes(t, w).stage = t.stage /\ (Publishes(t, w).ok <=> t.ok)
<1>1. Publishes(t, w) \in Tasks
  BY Zenon DEF Publishes, Tasks
<1> QED BY <1>1 DEF Publishes, Tasks

LEMMA BuildsTypes ==
    ASSUME NEW t \in Tasks
    PROVE  /\ Builds(t) \in Tasks /\ Builds(t).kind = t.kind
           /\ Builds(t).gen = t.gen /\ Builds(t).key = t.key
           /\ Builds(t).table = t.table /\ Builds(t).writer = t.writer
           /\ Builds(t).stage = t.stage /\ Builds(t).ok = t.ok
<1>1. Builds(t) \in Tasks
  BY Zenon DEF Builds, Tasks
<1> QED BY <1>1 DEF Builds, Tasks

\* A disk with one more writer, and the session that has it.
Opens(d, w, k) == With([d EXCEPT !.opened = w], w,
                       [key |-> k, retired |-> FALSE, temp |-> Opened(w), dead |-> FALSE])

LEMMA OpensFields ==
    ASSUME NEW d \in Disks, Kept(d), d.opened + 1 \in Writers, NEW k \in Keys
    PROVE  LET w == d.opened + 1
               e == Opens(d, w, k)
           IN  /\ e \in Disks /\ Kept(e) /\ e.final = d.final /\ e.opened = w
               /\ e.writers[w].key = k /\ ~e.writers[w].dead
               /\ \A v \in Writers : v # w => e.writers[v] = d.writers[v]
<1> DEFINE w == d.opened + 1
           g == [d EXCEPT !.opened = w]
           r == [key |-> k, retired |-> FALSE, temp |-> Opened(w), dead |-> FALSE]
           e == Opens(d, w, k)
<1>1. Sane(Opened(w), k) /\ Opened(w) \in Files
  BY OpenedSane DEF Sane
<1>2. r \in WriterRecs /\ r.key = k /\ r.temp = Opened(w) /\ ~r.dead
  BY <1>1, Zenon DEF WriterRecs
<1>3. w \in 0..MaxWriter /\ w \in Writers
  BY StoreAssumption DEF Writers
<1> HIDE DEF w
<1>4. /\ g \in Disks /\ g.final = d.final /\ g.writers = d.writers /\ g.opened = w
  <2>1. g = [final |-> d.final, index |-> d.index, writers |-> d.writers, opened |-> w,
             faults |-> d.faults]
    BY DEF Disks
  <2> HIDE DEF g
  <2> QED BY <1>3, <2>1 DEF Disks
<1>5. e = With(g, w, r)
  BY DEF Opens
<1> HIDE DEF g, r, e
<1>6. /\ e \in Disks /\ e.final = g.final /\ e.opened = g.opened /\ e.writers[w] = r
      /\ \A v \in Writers : v # w => e.writers[v] = g.writers[v]
  BY <1>2, <1>3, <1>4, <1>5, WithFields
<1>7. Kept(e)
  BY <1>1, <1>2, <1>4, <1>6 DEF Kept
<1> QED BY <1>2, <1>4, <1>6, <1>7 DEF w, e

\* A work item of an older generation holds no lock, and its layers go nowhere.
LEMMA OldFits ==
    ASSUME NEW d, NEW s, NEW t, Fits(d, s, t), Held(d, t), t.gen # s.gen
    PROVE  /\ t.stage # "payload"
           /\ t.kind \in Lays => ~Writing(d, t.writer)
BY DEF Fits, Held

LEMMA OpensSound ==
    ASSUME NEW d, NEW s, NEW q, NEW p, Ready(d, s, q, p), s.open, d.opened + 1 \in Writers
    PROVE  LET w == d.opened + 1
               r == [s EXCEPT !.writer = w]
           IN  /\ Ready(Opens(d, w, Key(s)), r, q, p)
               /\ r.gen = s.gen /\ r.machine = s.machine /\ r.job = s.job
               /\ r.identity = s.identity /\ r.name = s.name
               /\ r.table = s.table /\ r.writer = w
<1> DEFINE w == d.opened + 1
           r == [s EXCEPT !.writer = w]
           e == Opens(d, w, Key(s))
<1>1. /\ d \in Disks /\ s \in Services /\ Kept(d) /\ Session(d, s, p) /\ Key(s) \in Keys
      /\ \A i \in DOMAIN q : q[i] \in Tasks /\ q[i].gen # s.gen
      /\ \A i \in DOMAIN p : p[i] \in Tasks /\ p[i].gen # s.gen
      /\ Present(s.table) => s.table = d.final[Key(s)]
  BY ReadyFacts
<1>2. /\ e \in Disks /\ Kept(e) /\ e.final = d.final /\ e.opened = w
      /\ e.writers[w].key = Key(s) /\ ~e.writers[w].dead
      /\ \A v \in Writers : v # w => e.writers[v] = d.writers[v]
  BY <1>1, OpensFields
<1>3. d.opened \in Nat /\ w \in Writers /\ w > d.opened /\ w # NoWriter
  BY <1>1, StoreAssumption, WriterNumber DEF Disks
<1> HIDE DEF w, e
<1>4. r \in Services
  BY <1>1, <1>3, Zenon DEF Services
<1>5. /\ r.gen = s.gen /\ r.machine = s.machine /\ r.job = s.job
      /\ r.identity = s.identity /\ r.name = s.name
      /\ r.busy = s.busy /\ r.busyGen = s.busyGen /\ (r.open <=> s.open)
      /\ r.table = s.table /\ r.writer = w /\ (r.saved <=> s.saved)
      /\ (r.complete <=> s.complete)
  BY <1>1 DEF Services
<1> HIDE DEF r
<1>6. Key(r) = Key(s) /\ Idle(r) = Idle(s)
  BY <1>5 DEF Key, Idle
<1>7. Sound(d, s, q, p) /\ s.job # NoJob /\ Idle(s)
  BY DEF Ready
<1>8. ASSUME NEW t \in Tasks, t.gen # s.gen, Fits(d, s, t), Held(d, t)
      PROVE  Fits(e, r, t) /\ Held(e, t)
  <2>1. t.stage # "payload" /\ (t.kind \in Lays => ~Writing(d, t.writer))
    BY <1>8, OldFits
  <2>2. t.writer # NoWriter => /\ t.writer \in Writers /\ t.writer # w /\ t.writer <= w
                               /\ ~d.writers[t.writer].dead
                               /\ t.key \in Belongs(d.writers[t.writer].key)
                               /\ e.writers[t.writer] = d.writers[t.writer]
    <3>1. t.writer # NoWriter => Has(d, t.writer, t.key)
      BY <1>8 DEF Fits
    <3>2. \A v \in Writers : v \in Nat
      BY StoreAssumption DEF Writers
    <3> QED BY <1>2, <1>3, <3>1, <3>2 DEF Has
  <2>3. t.writer # NoWriter => Has(e, t.writer, t.key)
    BY <1>2, <2>2 DEF Has
  <2>4. t.kind \in Lays => ~Writing(e, t.writer)
    BY <2>1, <2>2 DEF Writing
  <2>5. t.kind = "prepared_save" =>
          /\ t.writer # NoWriter /\ t.writer # r.writer
          /\ Present(e.writers[t.writer].temp) => ~Idle(r) /\ r.busyGen = t.gen
    BY <1>5, <1>6, <1>8, <2>2 DEF Fits
  <2>6. Fits(e, r, t)
    BY <1>5, <1>8, <2>3, <2>4, <2>5 DEF Fits
  <2>7. Held(e, t)
    BY <1>8, <2>1 DEF Held
  <2> QED BY <2>6, <2>7
<1>9. ASSUME NEW t, t.gen # s.gen PROVE (Counts(s, t) => Counts(r, t)) /\ ~Saves(r, t)
  BY <1>5, <1>9 DEF Counts, Saves
<1>10. Session(e, r, p)
  <2>1. Has(e, r.writer, Key(r))
    <3>1. Key(r) \in Belongs(Key(s))
      BY <1>1, <1>6 DEF Belongs
    <3>2. r.writer \in Writers /\ r.writer <= e.opened
      BY <1>2, <1>3, <1>5 DEF Writers
    <3> QED BY <1>2, <1>5, <3>1, <3>2 DEF Has
  <2>2. r.open => r.job # NoJob /\ Idle(r)
    BY <1>5, <1>6, <1>7
  <2>3. r.complete => r.saved /\ \E n \in {r.name, "fallback"} :
                                     AllResolved(e.final[<<r.machine, r.job, n>>])
    BY <1>1, <1>2, <1>5 DEF Session
  <2>6. r.identity # "none" /\ (r.identity = "fallback" => r.name = "fallback")
    BY <1>1, <1>5 DEF Session
  <2>4. Present(r.table) => r.table = e.final[Key(r)]
    BY <1>1, <1>2, <1>5, <1>6
  <2>5. r.open
    BY <1>5
  <2> QED BY <2>1, <2>2, <2>3, <2>4, <2>5, <2>6 DEF Session
<1>11. Lock(e, q)
  BY <1>1, <1>7, <1>8 DEF Sound, Lock
<1>12. Sound(e, r, q, p)
  BY <1>1, <1>2, <1>4, <1>7, <1>8, <1>9, <1>10, <1>11 DEF Sound, Lock
<1>13. Ready(e, r, q, p)
  BY <1>5, <1>6, <1>12 DEF Ready
<1> QED BY <1>5, <1>13 DEF r, e, w

\* What writer_target() leaves.
Targeted(x, s, q, p) ==
    /\ Ready(x[1], x[2], q, p)
    /\ x[2].gen = s.gen /\ x[2].machine = s.machine /\ x[2].job = s.job
    /\ x[2].identity = s.identity /\ x[2].name = s.name /\ x[2].table = s.table
    /\ x[3] \in {NoWriter} \cup Writers /\ (x[3] # NoWriter => x[3] = x[2].writer)

LEMMA FailedReady ==
    ASSUME NEW d, NEW s, NEW q, NEW p, Ready(d, s, q, p), MayFail(d)
    PROVE  Ready(Failed(d), s, q, p)
<1> DEFINE e == Failed(d)
<1>1. Sound(d, s, q, p) /\ d \in Disks /\ Kept(d)
  BY DEF Ready, Sound
<1>2. /\ Wear(d, e) /\ e.writers = d.writers
  BY <1>1, FailedWear, FailedFields
<1> HIDE DEF e
<1>3. /\ e \in Disks /\ Kept(e) /\ e.final = d.final
  BY <1>2 DEF Wear
<1>4. Session(e, s, p)
  BY <1>1, <1>2, SessionWear DEF Sound
<1>5. ASSUME NEW i \in DOMAIN q PROVE Fits(e, s, q[i]) /\ Held(e, q[i])
  <2>1. Fits(d, s, q[i]) /\ Held(d, q[i]) /\ q[i] \in Tasks
    BY <1>1 DEF Sound, Lock
  <2> QED BY <1>2, <2>1, FitsWear DEF Held, Writing
<1>6. Lock(e, q)
  BY <1>1, <1>5 DEF Sound, Lock
<1>7. Sound(e, s, q, p)
  BY <1>1, <1>3, <1>4, <1>5, <1>6 DEF Sound
<1>8. Ready(e, s, q, p)
  BY <1>7 DEF Ready
<1> QED BY <1>8 DEF e

LEMMA TargetsSound ==
    ASSUME NEW d, NEW s, NEW q, NEW p, Ready(d, s, q, p), NEW x \in Targets(d, s)
    PROVE  Targeted(x, s, q, p)
<1> DEFINE w == d.opened + 1
           r == [s EXCEPT !.writer = w]
           e == Opens(d, w, Key(s))
           f == Failed(d)
<1>1. /\ d \in Disks /\ s \in Services
  BY ReadyFacts
<1>2. s.writer \in {NoWriter} \cup Writers
  BY <1>1 DEF Services
<1>3. \/ x = <<d, s, NoWriter>>
      \/ x = <<d, s, s.writer>>
      \/ s.open /\ w \in Writers /\ x = <<e, r, w>>
      \/ MayFail(d) /\ x = <<f, s, NoWriter>>
  <2>1. e = [d EXCEPT !.opened = w,
                      !.writers[w] = [key |-> Key(s), retired |-> FALSE,
                                      temp |-> Opened(w), dead |-> FALSE]]
    BY <1>1, Zenon DEF Opens, With, Disks
  <2> QED BY <2>1, Zenon DEF Targets
<1>4. CASE s.open /\ w \in Writers /\ x = <<e, r, w>>
  <2>1. /\ Ready(e, r, q, p) /\ r.gen = s.gen /\ r.machine = s.machine /\ r.job = s.job
        /\ r.identity = s.identity /\ r.name = s.name /\ r.table = s.table /\ r.writer = w
    BY <1>4, OpensSound
  <2> HIDE DEF e, r, w
  <2>2. x[1] = e /\ x[2] = r /\ x[3] = w
    BY <1>4
  <2> QED BY <1>4, <2>1, <2>2 DEF Targeted
<1>5. CASE MayFail(d) /\ x = <<f, s, NoWriter>>
  <2>1. Ready(f, s, q, p)
    BY <1>5, FailedReady
  <2> HIDE DEF f
  <2>2. x[1] = f /\ x[2] = s /\ x[3] = NoWriter
    BY <1>5
  <2> QED BY <2>1, <2>2 DEF Targeted
<1>6. CASE x = <<d, s, NoWriter>> \/ x = <<d, s, s.writer>>
  <2>1. x[1] = d /\ x[2] = s /\ x[3] \in {NoWriter, s.writer}
    BY <1>6
  <2> QED BY <1>2, <2>1 DEF Targeted
<1> QED BY <1>3, <1>4, <1>5, <1>6

\* One of the session's fields the invariant does not speak of.
LEMMA LayersAsked ==
    ASSUME NEW d, NEW s, NEW q, NEW p, Ready(d, s, q, p), NEW h \in SUBSET Layers
    PROVE  LET r == [s EXCEPT !.hydrate = h]
           IN  Ready(d, r, q, p) /\ Alike(s, r) /\ r.identity = s.identity
<1> DEFINE r == [s EXCEPT !.hydrate = h]
<1>1. s \in Services
  BY ReadyFacts
<1>2. r \in Services
  BY <1>1, Zenon DEF Services
<1>3. Alike(s, r) /\ r.identity = s.identity
  <2>1. r.busy = s.busy
    BY <1>1 DEF Services
  <2>2. Idle(r) <=> Idle(s)
    BY <2>1, Zenon DEF Idle
  <2> QED BY <1>1, <2>2 DEF Services, Alike
<1> HIDE DEF r
<1>4. Ready(d, r, q, p)
  BY <1>2, <1>3, AlikeReady
<1> QED BY <1>3, <1>4 DEF r

LEMMA HydrationSound ==
    ASSUME NEW d, NEW s, NEW q, NEW p, Ready(d, s, q, p), Current(s),
           NEW x \in Hydration(d, s, q)
    PROVE  Outcome(x, s, p)
<1>1. s \in Services /\ Sound(d, s, q, p)
  BY ReadyFacts DEF Ready
<1>2. s.hydrate \in SUBSET Layers
  BY <1>1 DEF Services
<1> DEFINE Of(ls) ==
             IF NeedRaw(s, ls) # {} /\ ~s.raw THEN {<<d, s, q>>}
             ELSE UNION {Submitted(y[1], [y[2] EXCEPT !.hydrate = @ \ ls], q,
                                   Hydrates(Task(s, "hydrate"), y[3], NeedRaw(s, ls) # {}, ls))
                         : y \in Targets(d, s)}
           Windows == {{l} : l \in s.hydrate} \cup {s.hydrate}
<1>3a. Hydration(d, s, q) = UNION {Of(ls) : ls \in Windows}
  BY Zenon DEF Hydration, Hydrates
<1>3b. PICK ls \in Windows : x \in Of(ls)
  <2> HIDE DEF Of, Windows
  <2> QED BY <1>3a
<1>3. \/ x = <<d, s, q>>
      \/ \E y \in Targets(d, s) :
           x \in Submitted(y[1], [y[2] EXCEPT !.hydrate = @ \ ls], q,
                           Hydrates(Task(s, "hydrate"), y[3], NeedRaw(s, ls) # {}, ls))
  BY <1>3b, Zenon DEF Of
<1>4. ls \in SUBSET Layers
  BY <1>2
<1>5. CASE x = <<d, s, q>>
  BY <1>1, <1>5, StandsStill
<1>6. ASSUME NEW y \in Targets(d, s),
             x \in Submitted(y[1], [y[2] EXCEPT !.hydrate = @ \ ls], q,
                             Hydrates(Task(s, "hydrate"), y[3], NeedRaw(s, ls) # {}, ls))
      PROVE  Outcome(x, s, p)
  <2> DEFINE e == y[1]
             a == y[2]
             h == a.hydrate \ ls
             r == [a EXCEPT !.hydrate = h]
             b == NeedRaw(s, ls) # {}
             t == Hydrates(Task(s, "hydrate"), y[3], b, ls)
  <2>1. /\ Ready(e, a, q, p) /\ a.gen = s.gen /\ a.machine = s.machine /\ a.job = s.job
        /\ a.table = s.table /\ a.identity = s.identity /\ a.name = s.name
        /\ y[3] \in {NoWriter} \cup Writers /\ (y[3] # NoWriter => y[3] = a.writer)
    BY TargetsSound DEF Targeted
  <2>2. h \in SUBSET Layers
    <3>1. a \in Services
      BY <2>1, ReadyFacts
    <3> QED BY <3>1 DEF Services
  <2>3. x \in Submitted(e, r, q, t)
    BY <1>6
  <2>4. b \in BOOLEAN
    OBVIOUS
  <2> HIDE DEF e, a, h, b
  <2>5. Ready(e, r, q, p) /\ Alike(a, r)
    BY <2>1, <2>2, LayersAsked
  <2> HIDE DEF r
  <2>6. "hydrate" \in Kinds
    BY DEF Kinds
  <2>7. /\ t \in Tasks /\ t.kind = "hydrate" /\ t.gen = s.gen /\ t.key = Key(s)
        /\ t.table = s.table /\ t.writer = y[3] /\ t.stage = "run" /\ ~t.ok
    <3>1. /\ Task(s, "hydrate") \in Tasks /\ Task(s, "hydrate").kind = "hydrate"
          /\ Task(s, "hydrate").gen = s.gen /\ Task(s, "hydrate").key = Key(s)
          /\ Task(s, "hydrate").table = s.table /\ Task(s, "hydrate").stage = "run"
          /\ ~Task(s, "hydrate").ok
      BY <2>6, TaskTypes DEF Current
    <3> QED BY <1>4, <2>1, <2>4, <3>1, HydratesTypes
  <2> HIDE DEF t
  <2>8. Key(r) = Key(s)
    BY <2>1, <2>5 DEF Alike, Key
  <2>9. Begins(r, t) /\ t.table = r.table /\ (t.writer # NoWriter => t.kind \in Lays /\ t.writer = r.writer)
    BY <2>1, <2>5, <2>7, <2>8 DEF Alike, Begins, Current, Lays
  <2>10. Outcome(x, r, p)
    BY <2>3, <2>5, <2>7, <2>9, SubmittedSound
  <2>11. r.gen = s.gen
    BY <2>1, <2>5 DEF Alike
  <2> QED BY <2>10, <2>11 DEF Outcome
<1> QED BY <1>3, <1>5, <1>6

LEMMA PreparingSound ==
    ASSUME NEW d, NEW s, NEW q, NEW p, Ready(d, s, q, p), Current(s),
           NEW x \in Preparing(d, s, q)
    PROVE  Outcome(x, s, p)
<1>1. Sound(d, s, q, p)
  BY DEF Ready
<1>2. \/ x = <<d, s, q>>
      \/ \E y \in Targets(d, s), b \in BOOLEAN :
           x \in Submitted(y[1], y[2], q, Prepares(Task(s, "fullprep"), y[3], b))
  BY Zenon DEF Preparing, Prepares
<1>3. CASE x = <<d, s, q>>
  BY <1>1, <1>3, StandsStill
<1>4. ASSUME NEW y \in Targets(d, s), NEW b \in BOOLEAN,
             x \in Submitted(y[1], y[2], q, Prepares(Task(s, "fullprep"), y[3], b))
      PROVE  Outcome(x, s, p)
  <2> DEFINE e == y[1]
             r == y[2]
             t == Prepares(Task(s, "fullprep"), y[3], b)
  <2>1. /\ Ready(e, r, q, p) /\ r.gen = s.gen /\ r.machine = s.machine /\ r.job = s.job
        /\ r.table = s.table /\ r.identity = s.identity /\ r.name = s.name
        /\ y[3] \in {NoWriter} \cup Writers /\ (y[3] # NoWriter => y[3] = r.writer)
    BY TargetsSound DEF Targeted
  <2>2. x \in Submitted(e, r, q, t)
    BY <1>4
  <2> HIDE DEF e, r
  <2>3. "fullprep" \in Kinds /\ {} \in SUBSET Layers
    BY DEF Kinds
  <2>4. /\ t \in Tasks /\ t.kind = "fullprep" /\ t.gen = s.gen /\ t.key = Key(s)
        /\ t.table = s.table /\ t.writer = y[3] /\ t.stage = "run" /\ ~t.ok
    <3>1. /\ Task(s, "fullprep") \in Tasks /\ Task(s, "fullprep").kind = "fullprep"
          /\ Task(s, "fullprep").gen = s.gen /\ Task(s, "fullprep").key = Key(s)
          /\ Task(s, "fullprep").table = s.table /\ Task(s, "fullprep").stage = "run"
          /\ ~Task(s, "fullprep").ok
      BY <2>3, TaskTypes DEF Current
    <3>2. y[3] \in {NoWriter} \cup Writers
      BY <2>1
    <3> QED BY <3>1, <3>2, PreparesTypes
  <2> HIDE DEF t
  <2>5. Key(r) = Key(s)
    BY <2>1 DEF Key
  <2>6. Begins(r, t) /\ t.table = r.table /\ (t.writer # NoWriter => t.kind \in Lays /\ t.writer = r.writer)
    BY <2>1, <2>4, <2>5 DEF Begins, Current, Lays
  <2>7. Outcome(x, r, p)
    BY <2>1, <2>2, <2>4, <2>6, SubmittedSound
  <2> QED BY <2>1, <2>7 DEF Outcome
<1> QED BY <1>2, <1>3, <1>4

LEMMA FinishingSound ==
    ASSUME NEW d, NEW s, NEW q, NEW p, Ready(d, s, q, p), Current(s), s.open, ~s.saved,
           NEW x \in Finishing(d, s, q)
    PROVE  Outcome(x, s, p)
<1> DEFINE a == [s EXCEPT !.writer = NoWriter]
           r == [a EXCEPT !.busy = "prepared_save", !.busyGen = a.gen]
           t == Publishes(Task(s, "prepared_save"), s.writer)
<1>1. /\ d \in Disks /\ s \in Services /\ Session(d, s, p) /\ s.gen \in 0..MaxGen
      /\ Sound(d, s, q, p)
  BY ReadyFacts DEF Ready
<1>2. CASE s.writer = NoWriter
  <2>1. x = <<d, s, q>>
    BY <1>2 DEF Finishing
  <2> QED BY <1>1, <2>1, StandsStill
<1>3. CASE s.writer # NoWriter
  <2>1. "prepared_save" \in Kinds /\ s.writer \in {NoWriter} \cup Writers /\ {} \in SUBSET Layers
        /\ TRUE \in BOOLEAN
    BY <1>1 DEF Kinds, Services
  <2>2. /\ t \in Tasks /\ t.kind = "prepared_save" /\ t.gen = s.gen /\ t.key = Key(s)
        /\ t.table = s.table /\ t.writer = s.writer /\ t.stage = "run" /\ ~t.ok
    <3>1. /\ Task(s, "prepared_save") \in Tasks
          /\ Task(s, "prepared_save").kind = "prepared_save"
          /\ Task(s, "prepared_save").gen = s.gen /\ Task(s, "prepared_save").key = Key(s)
          /\ Task(s, "prepared_save").table = s.table
          /\ Task(s, "prepared_save").stage = "run" /\ ~Task(s, "prepared_save").ok
      BY <2>1, TaskTypes DEF Current
    <3> QED BY <2>1, <3>1, PublishesTypes
  <2>3. a \in Services
    BY <1>1, Zenon DEF Services
  <2>4. /\ a.gen = s.gen /\ a.machine = s.machine /\ a.job = s.job
        /\ a.identity = s.identity /\ a.name = s.name /\ a.table = s.table /\ a.writer = NoWriter
        /\ (a.open <=> s.open) /\ (a.saved <=> s.saved) /\ (a.complete <=> s.complete)
    BY <1>1 DEF Services
  <2>5. x = <<d, r, Append(q, t)>>
    <3>1. t.kind = "prepared_save" /\ t = [Task(s, "prepared_save") EXCEPT !.writer = s.writer]
      BY <2>2 DEF Publishes
    <3>2. x = <<d, [a EXCEPT !.busy = t.kind, !.busyGen = a.gen], Append(q, t)>>
      BY <1>3, <3>1, Zenon DEF Finishing, Submitted
    <3> HIDE DEF t, a
    <3> QED BY <3>1, <3>2
  <2> HIDE DEF t, a
  <2>6. /\ r \in Services /\ ~Idle(r) /\ r.busyGen = a.gen /\ r.gen = a.gen
        /\ r.machine = a.machine /\ r.job = a.job /\ (r.open <=> a.open)
        /\ r.identity = a.identity /\ r.name = a.name
        /\ r.table = a.table /\ r.writer = a.writer /\ (r.saved <=> a.saved)
        /\ (r.complete <=> a.complete)
    BY <1>1, <2>1, <2>3, <2>4, MarkedBusy
  <2> HIDE DEF r
  <2>7. Follows(s, r) /\ Begins(s, t)
    BY <2>2, <2>4, <2>6 DEF Follows, Begins, Current
  <2>8. Fits(d, r, t)
    <3>1. Has(d, s.writer, Key(s)) /\ t.kind \notin Lays
      BY <1>1, <1>3, <2>2 DEF Session, Lays
    <3>2. t.writer # NoWriter /\ t.writer # r.writer /\ r.busyGen = t.gen
      BY <1>3, <2>2, <2>4, <2>6
    <3> QED BY <2>2, <2>6, <3>1, <3>2 DEF Fits
  <2>9. Sound(d, r, Append(q, t), p)
    BY <2>2, <2>6, <2>7, <2>8, Added
  <2> QED BY <2>4, <2>5, <2>6, <2>9 DEF Outcome
<1> QED BY <1>2, <1>3

LEMMA WithViewSound ==
    ASSUME NEW d, NEW s, NEW q, NEW p, Ready(d, s, q, p), Current(s), s.open,
           NEW x \in WithView(d, s, q)
    PROVE  Outcome(x, s, p)
<1> DEFINE a == [s EXCEPT !.save = FALSE]
           t == Task(s, "save")
<1>1. s \in Services /\ Sound(d, s, q, p)
  BY ReadyFacts DEF Ready
<1>2. \/ x \in Hydration(d, s, q)
      \/ x \in Submitted(d, a, q, t)
      \/ ~s.saved /\ x \in Finishing(d, s, q)
      \/ x \in Preparing(d, s, q)
      \/ x = <<d, s, q>>
  BY Zenon DEF WithView
<1>3. CASE x \in Submitted(d, a, q, t)
  <2>1. a \in Services
    BY <1>1, Zenon DEF Services
  <2>2. Alike(s, a)
    <3>1. a.busy = s.busy
      BY <1>1 DEF Services
    <3>2. Idle(a) <=> Idle(s)
      BY <3>1, Zenon DEF Idle
    <3> QED BY <1>1, <3>2 DEF Services, Alike
  <2> HIDE DEF a
  <2>3. Ready(d, a, q, p)
    BY <2>1, <2>2, AlikeReady
  <2>4. "save" \in Kinds
    BY DEF Kinds
  <2>5. /\ t \in Tasks /\ t.kind = "save" /\ t.gen = s.gen /\ t.key = Key(s)
        /\ t.table = s.table /\ t.writer = NoWriter /\ t.stage = "run" /\ ~t.ok
    BY <2>4, TaskTypes DEF Current
  <2> HIDE DEF t
  <2>6. Key(a) = Key(s)
    BY <2>2 DEF Alike, Key
  <2>7. Begins(a, t) /\ t.table = a.table
    BY <2>2, <2>5, <2>6 DEF Alike, Begins, Current
  <2>8. Outcome(x, a, p)
    BY <1>3, <2>3, <2>5, <2>7, SubmittedSound
  <2> QED BY <2>2, <2>8 DEF Outcome, Alike
<1> QED BY <1>1, <1>2, <1>3, HydrationSound, FinishingSound, PreparingSound, StandsStill

LEMMA AdvancedSound ==
    ASSUME NEW d, NEW s, NEW q, NEW p, Sound(d, s, q, p), s.gen <= MaxGen,
           NEW x \in Advanced(d, s, q)
    PROVE  Outcome(x, s, p)
<1> DEFINE a == [s EXCEPT !.restored = TRUE]
           o == SessionOpen(d, a)
           v == [o EXCEPT !.hydrate = o.hydrate \ s.failed]
<1>1. CASE Waits(s)
  <2>1. x = <<d, s, q>>
    BY <1>1 DEF Advanced
  <2> QED BY <2>1, StandsStill
<1>2. CASE ~Waits(s)
  <2>1. Ready(d, s, q, p) /\ s.identity # "none"
    <3>1. Idle(s) /\ s.job # NoJob /\ s.identity # "none"
      BY <1>2, Zenon DEF Waits, Idle
    <3> QED BY <3>1 DEF Ready
  <2>2. s \in Services
    BY DEF Sound
  <2>3. a \in Services
    BY <2>2, Zenon DEF Services
  <2>4. Alike(s, a)
    <3>1. a.busy = s.busy
      BY <2>2 DEF Services
    <3>2. Idle(a) <=> Idle(s)
      BY <3>1, Zenon DEF Idle
    <3> QED BY <2>2, <3>2 DEF Services, Alike
  <2>5. \/ x \in Submitted(d, a, q, Task(s, "restore"))
        \/ x \in WithView(d, v, q)
        \/ x \in Submitted(d, o, q, Builds(Task(o, "build")))
        \/ x = <<d, o, q>>
    <3>1. Builds(Task(o, "build")) = [Task(o, "build") EXCEPT !.lease = TRUE]
      BY DEF Builds
    <3>2. v = [o EXCEPT !.hydrate = @ \ s.failed]
      OBVIOUS
    <3>3. x \in IF ~s.restored /\ Reliable(s)
                THEN Submitted(d, a, q, Task(s, "restore"))
                ELSE IF s.view THEN WithView(d, v, q)
                ELSE IF s.raw THEN Submitted(d, o, q, Builds(Task(o, "build")))
                ELSE {<<d, o, q>>}
      BY <1>2, <3>1, Zenon DEF Advanced
    <3> HIDE DEF o, v, a
    <3> QED BY <3>3
  <2> HIDE DEF a
  <2>6. /\ Ready(d, a, q, p) /\ a.gen = s.gen /\ a.table = s.table
        /\ a.identity # "none"
    BY <2>1, <2>3, <2>4, AlikeReady DEF Alike
  <2>7. /\ Ready(d, o, q, p) /\ o.open /\ o.gen = a.gen /\ Current(o)
    BY <2>6, OpenedSession DEF Current
  <2> HIDE DEF o
  <2>8. CASE x \in Submitted(d, a, q, Task(s, "restore"))
    <3> DEFINE t == Task(s, "restore")
    <3>1. "restore" \in Kinds
      BY DEF Kinds
    <3>2. /\ t \in Tasks /\ t.kind = "restore" /\ t.gen = s.gen
          /\ t.table = s.table /\ t.writer = NoWriter /\ t.stage = "run" /\ ~t.ok
      BY <2>1, <3>1, TaskTypes
    <3> HIDE DEF t
    <3>3. Begins(a, t) /\ t.table = a.table
      BY <2>6, <3>2 DEF Begins, Lays
    <3>4. x \in Submitted(d, a, q, t)
      BY <2>8 DEF t
    <3>5. Outcome(x, a, p)
      BY <2>6, <3>2, <3>3, <3>4, SubmittedSound
    <3> QED BY <2>6, <3>5 DEF Outcome
  <2>9. CASE x \in WithView(d, v, q)
    <3> DEFINE k == o.hydrate \ s.failed
    <3>1. k \in SUBSET Layers
      <4>1. o \in Services
        BY <2>7, ReadyFacts
      <4> QED BY <4>1 DEF Services
    <3>2. v = [o EXCEPT !.hydrate = k]
      OBVIOUS
    <3> HIDE DEF k
    <3>3. Ready(d, v, q, p) /\ Alike(o, v) /\ v.identity = o.identity
      BY <2>7, <3>1, <3>2, LayersAsked
    <3> HIDE DEF v
    <3>4. v.open /\ v.gen = s.gen /\ Current(v)
      BY <2>6, <2>7, <3>3 DEF Alike, Current
    <3>5. Outcome(x, v, p)
      BY <2>9, <3>3, <3>4, WithViewSound
    <3> QED BY <3>4, <3>5 DEF Outcome
  <2>10. CASE x \in Submitted(d, o, q, Builds(Task(o, "build")))
    <3> DEFINE t == Builds(Task(o, "build"))
    <3>1. "build" \in Kinds
      BY DEF Kinds
    <3>2. /\ t \in Tasks /\ t.kind = "build" /\ t.gen = o.gen
          /\ t.table = o.table /\ t.writer = NoWriter /\ t.stage = "run" /\ ~t.ok
      BY <2>7, <3>1, TaskTypes, BuildsTypes DEF Current
    <3> HIDE DEF t
    <3>3. Begins(o, t)
      BY <2>7, <3>2 DEF Begins, Lays, Current
    <3>4. x \in Submitted(d, o, q, t)
      BY <2>10 DEF t
    <3>5. Outcome(x, o, p)
      BY <2>7, <3>2, <3>3, <3>4, SubmittedSound
    <3> QED BY <2>6, <2>7, <3>5 DEF Outcome
  <2>11. CASE x = <<d, o, q>>
    <3>1. Sound(d, o, q, p)
      BY <2>7 DEF Ready
    <3>2. Outcome(x, o, p)
      BY <2>11, <3>1, StandsStill
    <3> QED BY <2>6, <2>7, <3>2 DEF Outcome
  <2> QED BY <2>5, <2>8, <2>9, <2>10, <2>11
<1> QED BY <1>1, <1>2

-----------------------------------------------------------------------------
(* The owner's steps: what _finish() commits.                              *)

\* Another session of the same generation, while nothing of it is out.
LEMMA Retold ==
    ASSUME NEW d, NEW s, NEW q, NEW p, Ready(d, s, q, p), NEW r \in Services,
           r.gen = s.gen, r.job = s.job, r.writer = s.writer, Idle(r), Session(d, r, p)
    PROVE  Ready(d, r, q, p)
<1>1. /\ d \in Disks /\ Kept(d)
      /\ \A i \in DOMAIN q : q[i] \in Tasks /\ q[i].gen # s.gen
      /\ \A i \in DOMAIN p : p[i] \in Tasks /\ p[i].gen # s.gen
  BY ReadyFacts
<1>2. Sound(d, s, q, p) /\ Idle(s)
  BY DEF Ready
<1>3. ASSUME NEW t, t.gen # s.gen
      PROVE  /\ Fits(d, s, t) => Fits(d, r, t)
             /\ Counts(s, t) => Counts(r, t)
             /\ ~Saves(r, t)
  BY <1>2, <1>3 DEF Fits, Counts, Saves
<1>4. Sound(d, r, q, p)
  BY <1>1, <1>2, <1>3 DEF Sound
<1> QED BY <1>4 DEF Ready

\* The session's writer writes, or ends, while nothing of its generation is out.
LEMMA WearReady ==
    ASSUME NEW d, NEW s, NEW q, NEW p, Ready(d, s, q, p), NEW e, Wear(d, e)
    PROVE  Ready(e, s, q, p)
<1>1. Sound(d, s, q, p) /\ d \in Disks /\ Kept(d)
  BY DEF Ready, Sound
<1>2. /\ e \in Disks /\ Kept(e) /\ e.final = d.final
  BY DEF Wear
<1>3. Session(e, s, p)
  BY <1>1, SessionWear DEF Sound
<1>4. ASSUME NEW i \in DOMAIN q PROVE Fits(e, s, q[i]) /\ Held(e, q[i])
  <2>1. Fits(d, s, q[i]) /\ Held(d, q[i]) /\ q[i] \in Tasks /\ q[i].gen # s.gen
    BY <1>1, ReadyFacts DEF Sound, Lock
  <2>2. q[i].stage # "payload"
    BY <2>1, OldFits
  <2> QED BY <2>1, <2>2, FitsWear DEF Held
<1>5. Lock(e, q)
  BY <1>1, <1>4 DEF Sound, Lock
<1>6. Sound(e, s, q, p)
  BY <1>1, <1>2, <1>3, <1>4, <1>5 DEF Sound
<1> QED BY <1>6 DEF Ready

LEMMA MarkedReady ==
    ASSUME NEW d, NEW s, NEW q, NEW p, Ready(d, s, q, p), NEW ls,
           NEW e \in Marked(d, s.writer, ls)
    PROVE  Ready(e, s, q, p)
<1> DEFINE w == s.writer
           f == d.writers[w].temp
<1>1. d \in Disks /\ Kept(d) /\ s \in Services
  BY ReadyFacts
<1>2. \/ e = d
      \/ Writing(d, w) /\ e = [d EXCEPT !.writers[w].temp = Refused(@, ls)]
      \/ Writing(d, w) /\ MayFail(d) /\ e = Failed(Aborted(d, w))
  BY Zenon DEF Marked
<1>3. Writing(d, w) => w \in Writers
  BY <1>1 DEF Writing, Services
<1>4. CASE Writing(d, w) /\ e = [d EXCEPT !.writers[w].temp = Refused(@, ls)]
  <2>1. e = Temp(d, w, Refused(f, ls))
    BY <1>4, Zenon DEF Temp
  <2>2. Sane(f, d.writers[w].key) /\ d.writers[w].key \in Keys
    BY <1>1, <1>3, <1>4, RecFields DEF Kept, WriterRecs
  <2>5. Present(f)
    BY <1>4 DEF Writing
  <2>3. /\ Sane(Refused(f, ls), d.writers[w].key)
        /\ Present(Refused(f, ls)) <=> Present(f)
    BY <2>2, <2>5, RefusedSane
  <2>4. Wear(d, e)
    BY <1>1, <1>3, <1>4, <2>1, <2>3, TempWear
  <2> QED BY <2>4, WearReady
<1>5. CASE Writing(d, w) /\ MayFail(d) /\ e = Failed(Aborted(d, w))
  <2>1. Wear(d, e)
    BY <1>1, <1>3, <1>5, FailedAborted
  <2> QED BY <2>1, WearReady
<1> QED BY <1>2, <1>4, <1>5

\* adopt()
LEMMA AdoptReady ==
    ASSUME NEW d, NEW s, NEW q, NEW p, Ready(d, s, q, p), s.open
    PROVE  Ready(d, SessionAdopt(s), q, p) /\ SessionAdopt(s).gen = s.gen
<1> DEFINE a == [s EXCEPT !.complete = TRUE, !.saved = TRUE, !.next = MaxLayer + 1]
           b == [s EXCEPT !.complete = FALSE]
<1>1. /\ s \in Services /\ Session(d, s, p) /\ Idle(s)
      /\ Present(s.table) => s.table = d.final[Key(s)]
  BY ReadyFacts DEF Ready
<1>2. CASE Whole(s.table)
  <2>1. SessionAdopt(s) = a
    BY <1>2 DEF SessionAdopt
  <2>2. MaxLayer + 1 \in 1..(MaxLayer + 1)
    BY StoreAssumption
  <2>3. a \in Services
    BY <1>1, <2>2, Zenon DEF Services
  <2>4. /\ a.gen = s.gen /\ a.machine = s.machine /\ a.job = s.job /\ a.busy = s.busy
        /\ a.busyGen = s.busyGen /\ (a.open <=> s.open) /\ a.table = s.table
        /\ a.writer = s.writer /\ a.saved /\ a.name = s.name /\ a.identity = s.identity
    BY <1>1 DEF Services
  <2> HIDE DEF a
  <2>5. Key(a) = Key(s) /\ (Idle(a) <=> Idle(s))
    BY <2>4, Zenon DEF Key, Idle
  <2>6. AllResolved(d.final[Key(a)]) /\ s.table = d.final[Key(a)]
    BY <1>1, <1>2, <2>5 DEF Whole
  <2>9. \E n \in {a.name, "fallback"} : AllResolved(d.final[<<a.machine, a.job, n>>])
    BY <2>6 DEF Key
  <2>7. Session(d, a, p)
    BY <1>1, <2>4, <2>5, <2>6, <2>9 DEF Session
  <2>8. Ready(d, a, q, p)
    BY <1>1, <2>3, <2>4, <2>5, <2>7, Retold
  <2> QED BY <2>1, <2>4, <2>8
<1>3. CASE ~Whole(s.table)
  <2>1. SessionAdopt(s) = b
    BY <1>3 DEF SessionAdopt
  <2>3. b \in Services
    BY <1>1, Zenon DEF Services
  <2>4. /\ b.gen = s.gen /\ b.machine = s.machine /\ b.job = s.job /\ b.busy = s.busy
        /\ b.busyGen = s.busyGen /\ (b.open <=> s.open) /\ b.table = s.table
        /\ b.writer = s.writer /\ ~b.complete /\ b.name = s.name /\ b.identity = s.identity
    BY <1>1 DEF Services
  <2> HIDE DEF b
  <2>5. Key(b) = Key(s) /\ (Idle(b) <=> Idle(s))
    BY <2>4, Zenon DEF Key, Idle
  <2>7. Session(d, b, p)
    BY <1>1, <2>4, <2>5 DEF Session
  <2>8. Ready(d, b, q, p)
    BY <1>1, <2>3, <2>4, <2>5, <2>7, Retold
  <2> QED BY <2>1, <2>4, <2>8
<1> QED BY <1>2, <1>3

\* arm_retry(): the pass starts over.
LEMMA RetryReady ==
    ASSUME NEW d, NEW s, NEW q, NEW p, Ready(d, s, q, p)
    PROVE  Ready(d, Published(d, s, FALSE), q, p) /\ Published(d, s, FALSE).gen = s.gen
<1> DEFINE a == [s EXCEPT !.retried = TRUE, !.saved = FALSE, !.complete = FALSE, !.next = 1]
<1>1. /\ s \in Services /\ Session(d, s, p) /\ Idle(s)
      /\ Present(s.table) => s.table = d.final[Key(s)]
  BY ReadyFacts DEF Ready
<1>2. Published(d, s, FALSE) \in {a, s}
  BY Zenon DEF Published
<1>3. 1 \in 1..(MaxLayer + 1)
  BY StoreAssumption
<1>4. a \in Services
  BY <1>1, <1>3, Zenon DEF Services
<1>5. /\ a.gen = s.gen /\ a.machine = s.machine /\ a.job = s.job /\ a.busy = s.busy
      /\ a.busyGen = s.busyGen /\ (a.open <=> s.open) /\ a.table = s.table
      /\ a.writer = s.writer /\ ~a.complete /\ a.name = s.name /\ a.identity = s.identity
  BY <1>1 DEF Services
<1> HIDE DEF a
<1>6. Key(a) = Key(s) /\ (Idle(a) <=> Idle(s))
  BY <1>5, Zenon DEF Key, Idle
<1>7. Session(d, a, p)
  BY <1>1, <1>5, <1>6 DEF Session
<1>8. Ready(d, a, q, p)
  BY <1>1, <1>4, <1>5, <1>6, <1>7, Retold
<1> QED BY <1>2, <1>5, <1>8

\* The fields the terminals write that the invariant does not speak of.
Indexed(s, b)        == [s EXCEPT !.view = TRUE, !.failed = {}, !.save = b, !.passError = FALSE]
Hydrated(s, c, f, b) == [s EXCEPT !.packed = c, !.failed = f, !.save = b]
Prepared(s, c, n)    == [s EXCEPT !.packed = c, !.passError = FALSE, !.next = n]
Errs(s, b, c)        == [s EXCEPT !.error = b, !.passError = c]

LEMMA IndexedAlike ==
    ASSUME NEW s \in Services, NEW b \in BOOLEAN
    PROVE  Indexed(s, b) \in Services /\ Alike(s, Indexed(s, b))
<1> DEFINE r == Indexed(s, b)
<1>1. {} \in SUBSET Layers
  OBVIOUS
<1>2. r \in Services
  BY <1>1, Zenon DEF Services, Indexed
<1>3. r.busy = s.busy
  BY DEF Services, Indexed
<1>4. Idle(r) <=> Idle(s)
  BY <1>3, Zenon DEF Idle
<1> QED BY <1>2, <1>4 DEF Services, Alike, Indexed

LEMMA HydratedAlike ==
    ASSUME NEW s \in Services, NEW c \in SUBSET Layers, NEW f \in SUBSET Layers,
           NEW b \in BOOLEAN
    PROVE  Hydrated(s, c, f, b) \in Services /\ Alike(s, Hydrated(s, c, f, b))
<1> DEFINE r == Hydrated(s, c, f, b)
<1>2. r \in Services
  BY Zenon DEF Services, Hydrated
<1>3. r.busy = s.busy
  BY DEF Services, Hydrated
<1>4. Idle(r) <=> Idle(s)
  BY <1>3, Zenon DEF Idle
<1> QED BY <1>2, <1>4 DEF Services, Alike, Hydrated

LEMMA PreparedAlike ==
    ASSUME NEW s \in Services, NEW c \in SUBSET Layers, NEW n \in 1..(MaxLayer + 1)
    PROVE  Prepared(s, c, n) \in Services /\ Alike(s, Prepared(s, c, n))
<1> DEFINE r == Prepared(s, c, n)
<1>2. r \in Services
  BY Zenon DEF Services, Prepared
<1>3. r.busy = s.busy
  BY DEF Services, Prepared
<1>4. Idle(r) <=> Idle(s)
  BY <1>3, Zenon DEF Idle
<1> QED BY <1>2, <1>4 DEF Services, Alike, Prepared

LEMMA ErrsAlike ==
    ASSUME NEW s \in Services, NEW b \in BOOLEAN, NEW c \in BOOLEAN
    PROVE  Errs(s, b, c) \in Services /\ Alike(s, Errs(s, b, c))
<1> DEFINE r == Errs(s, b, c)
<1>2. r \in Services
  BY Zenon DEF Services, Errs
<1>3. r.busy = s.busy
  BY DEF Services, Errs
<1>4. Idle(r) <=> Idle(s)
  BY <1>3, Zenon DEF Idle
<1> QED BY <1>2, <1>4 DEF Services, Alike, Errs

LEMMA PackedTypes ==
    ASSUME NEW s \in Services, NEW ls \in SUBSET Layers, NEW c \in Packed(s, ls)
    PROVE  c \in SUBSET Layers
<1>1. s.packed \in SUBSET Layers
  BY DEF Services
<1>2. PICK gone : c = (s.packed \ gone) \cup ls
  BY Zenon DEF Packed
<1> QED BY <1>1, <1>2

\* What a publication's terminal commits.
LEMMA SavedCommitted ==
    ASSUME NEW d, NEW s, NEW t, t.kind = "prepared_save", t.ok, NEW x \in Committed(d, s, t)
    PROVE  x = <<d, Published(d, s, TRUE)>>
<1> DEFINE CIndexed  == {<<d, SessionAdopt(SessionOpen(d, [s EXCEPT !.view = TRUE, !.failed = {},
                                 !.save = t.kind = "build", !.passError = FALSE]))>>}
           CUnbuilt  == {<<d, [s EXCEPT !.error = TRUE]>>}
           CHydrated == {<<d, [s EXCEPT !.packed = c, !.failed = @ \cup t.failed,
                                  !.save = @ \/ t.failed # t.window]>> : c \in Packed(s, t.encoded)}
           Sessions  == {[s EXCEPT !.packed = c, !.passError = FALSE,
                                  !.next = IF t.at > @ THEN t.at ELSE @] : c \in Packed(s, t.encoded)}
           CPrepared == Marked(d, s.writer, t.refused) \X Sessions
           CRaised   == {<<d, [s EXCEPT !.passError = TRUE]>>}
           CSaved    == {<<d, Published(d, s, t.ok)>>}
<1>1. x \in CASE t.kind \in {"build", "restore"} /\ t.ok -> CIndexed
            [] t.kind = "build" /\ ~t.ok -> CUnbuilt
            [] t.kind = "hydrate" -> CHydrated
            [] t.kind = "fullprep" /\ t.ok -> CPrepared
            [] t.kind = "fullprep" /\ ~t.ok -> CRaised
            [] t.kind = "prepared_save" -> CSaved
            [] OTHER -> {<<d, s>>}
  BY Zenon DEF Committed
<1> HIDE DEF CIndexed, CUnbuilt, CHydrated, CPrepared, CRaised, CSaved, Sessions
<1>2. x \in CSaved
  BY <1>1
<1>3. x = <<d, Published(d, s, t.ok)>>
  BY <1>2, Zenon DEF CSaved
<1> QED BY <1>3 DEF Published

\* A terminal of this generation, but for a publication's.
LEMMA CommittedReady ==
    ASSUME NEW d, NEW s, NEW q, NEW p, Ready(d, s, q, p), s.identity # "none", NEW t \in Tasks,
           t.kind = "prepared_save" => ~t.ok, NEW x \in Committed(d, s, t)
    PROVE  Ready(x[1], x[2], q, p) /\ x[2].gen = s.gen
<1>1. s \in Services
  BY ReadyFacts
<1>2. /\ t.encoded \in SUBSET Layers /\ t.failed \in SUBSET Layers /\ t.at \in 1..(MaxLayer + 1)
      /\ s.failed \in SUBSET Layers /\ s.next \in 1..(MaxLayer + 1)
      /\ s.save \in BOOLEAN /\ s.error \in BOOLEAN /\ s.passError \in BOOLEAN
  BY <1>1 DEF Services, Tasks
<1> DEFINE i == Indexed(s, t.kind = "build")
           n == IF t.at > s.next THEN t.at ELSE s.next
           f == s.failed \cup t.failed
           b == s.save \/ t.failed # t.window
<1>3. ASSUME NEW r \in Services, Alike(s, r), NEW e, Ready(e, s, q, p), x = <<e, r>>
      PROVE  Ready(x[1], x[2], q, p) /\ x[2].gen = s.gen
  <2>1. Ready(e, r, q, p) /\ r.gen = s.gen
    BY <1>3, AlikeReady DEF Alike
  <2> QED BY <1>3, <2>1
<1> DEFINE CIndexed  == {<<d, SessionAdopt(SessionOpen(d, [s EXCEPT !.view = TRUE, !.failed = {},
                                 !.save = t.kind = "build", !.passError = FALSE]))>>}
           CUnbuilt  == {<<d, [s EXCEPT !.error = TRUE]>>}
           CHydrated == {<<d, [s EXCEPT !.packed = c, !.failed = @ \cup t.failed,
                                  !.save = @ \/ t.failed # t.window]>> : c \in Packed(s, t.encoded)}
           Sessions  == {[s EXCEPT !.packed = c, !.passError = FALSE,
                                  !.next = IF t.at > @ THEN t.at ELSE @] : c \in Packed(s, t.encoded)}
           CPrepared == Marked(d, s.writer, t.refused) \X Sessions
           CRaised   == {<<d, [s EXCEPT !.passError = TRUE]>>}
           CSaved    == {<<d, Published(d, s, t.ok)>>}
<1>0. /\ t.kind \in {"build", "restore"} /\ t.ok => x \in CIndexed
      /\ t.kind = "build" /\ ~t.ok => x \in CUnbuilt
      /\ t.kind = "hydrate" => x \in CHydrated
      /\ t.kind = "fullprep" /\ t.ok => x \in CPrepared
      /\ t.kind = "fullprep" /\ ~t.ok => x \in CRaised
      /\ t.kind = "prepared_save" => x \in CSaved
      /\ t.kind = "save" \/ (t.kind = "restore" /\ ~t.ok) => x \in {<<d, s>>}
  <2>1. x \in CASE t.kind \in {"build", "restore"} /\ t.ok -> CIndexed
              [] t.kind = "build" /\ ~t.ok -> CUnbuilt
              [] t.kind = "hydrate" -> CHydrated
              [] t.kind = "fullprep" /\ t.ok -> CPrepared
              [] t.kind = "fullprep" /\ ~t.ok -> CRaised
              [] t.kind = "prepared_save" -> CSaved
              [] OTHER -> {<<d, s>>}
    BY Zenon DEF Committed
  <2> HIDE DEF CIndexed, CUnbuilt, CHydrated, CPrepared, CRaised, CSaved
  <2> QED BY <2>1
<1> HIDE DEF CIndexed, CUnbuilt, CHydrated, CPrepared, CRaised, CSaved, Sessions
<1>4. CASE t.kind \in {"build", "restore"} /\ t.ok
  <2>1. x = <<d, SessionAdopt(SessionOpen(d, i))>>
    BY <1>0, <1>4, Zenon DEF CIndexed, Indexed
  <2>2. i \in Services /\ Alike(s, i)
    <3>1. (t.kind = "build") \in BOOLEAN
      OBVIOUS
    <3> QED BY <1>1, <3>1, IndexedAlike
  <2> HIDE DEF i
  <2>3. Ready(d, i, q, p) /\ i.gen = s.gen /\ i.identity # "none"
    BY <2>2, AlikeReady DEF Alike
  <2> DEFINE o == SessionOpen(d, i)
  <2>4. Ready(d, o, q, p) /\ o.open /\ o.gen = i.gen
    BY <2>3, OpenedSession
  <2> HIDE DEF o
  <2>5. Ready(d, SessionAdopt(o), q, p) /\ SessionAdopt(o).gen = o.gen
    BY <2>4, AdoptReady
  <2>6. x = <<d, SessionAdopt(o)>>
    BY <2>1 DEF o
  <2> QED BY <2>3, <2>4, <2>5, <2>6
<1>5. CASE t.kind = "build" /\ ~t.ok
  <2>1. x = <<d, [s EXCEPT !.error = TRUE]>>
    BY <1>0, <1>5, Zenon DEF CUnbuilt
  <2>2. [s EXCEPT !.error = TRUE] = Errs(s, TRUE, s.passError)
    BY <1>1, <1>2 DEF Errs, Services
  <2>3. Errs(s, TRUE, s.passError) \in Services /\ Alike(s, Errs(s, TRUE, s.passError))
    <3>1. \A y, z \in BOOLEAN : Errs(s, y, z) \in Services /\ Alike(s, Errs(s, y, z))
      BY <1>1, ErrsAlike
    <3>2. TRUE \in BOOLEAN
      OBVIOUS
    <3> QED BY <1>2, <3>1, <3>2, Zenon
  <2> QED BY <1>3, <2>1, <2>2, <2>3
<1>6. CASE t.kind = "hydrate"
  <2>1. PICK c \in Packed(s, t.encoded) : x = <<d, Hydrated(s, c, f, b)>>
    BY <1>0, <1>6, Zenon DEF CHydrated, Hydrated
  <2>2. c \in SUBSET Layers /\ f \in SUBSET Layers /\ b \in BOOLEAN
    BY <1>1, <1>2, PackedTypes
  <2> HIDE DEF f, b
  <2>3. Hydrated(s, c, f, b) \in Services /\ Alike(s, Hydrated(s, c, f, b))
    BY <1>1, <2>2, HydratedAlike
  <2> QED BY <1>3, <2>1, <2>3
<1>7. CASE t.kind = "fullprep" /\ t.ok
  <2>1. PICK e \in Marked(d, s.writer, t.refused), c \in Packed(s, t.encoded) :
          x = <<e, Prepared(s, c, n)>>
    <3>1. PICK e \in Marked(d, s.writer, t.refused), r \in Sessions : x = <<e, r>>
      BY <1>0, <1>7 DEF CPrepared
    <3>2. PICK c \in Packed(s, t.encoded) : r = Prepared(s, c, n)
      BY Zenon DEF Sessions, Prepared
    <3> QED BY <3>1, <3>2, Zenon
  <2>2. c \in SUBSET Layers /\ n \in 1..(MaxLayer + 1)
    BY <1>1, <1>2, PackedTypes
  <2> HIDE DEF n
  <2>3. Prepared(s, c, n) \in Services /\ Alike(s, Prepared(s, c, n))
    BY <1>1, <2>2, PreparedAlike
  <2>4. Ready(e, s, q, p)
    BY MarkedReady
  <2> QED BY <1>3, <2>1, <2>3, <2>4
<1>8. CASE t.kind = "fullprep" /\ ~t.ok
  <2>1. x = <<d, [s EXCEPT !.passError = TRUE]>>
    BY <1>0, <1>8, Zenon DEF CRaised
  <2>2. [s EXCEPT !.passError = TRUE] = Errs(s, s.error, TRUE)
    BY <1>1, <1>2 DEF Errs, Services
  <2>3. Errs(s, s.error, TRUE) \in Services /\ Alike(s, Errs(s, s.error, TRUE))
    <3>1. \A y, z \in BOOLEAN : Errs(s, y, z) \in Services /\ Alike(s, Errs(s, y, z))
      BY <1>1, ErrsAlike
    <3>2. TRUE \in BOOLEAN
      OBVIOUS
    <3> QED BY <1>2, <3>1, <3>2, Zenon
  <2> QED BY <1>3, <2>1, <2>2, <2>3
<1>9. CASE t.kind = "prepared_save" /\ ~t.ok
  <2>1. x = <<d, Published(d, s, t.ok)>>
    BY <1>0, <1>9, Zenon DEF CSaved
  <2>2. x = <<d, Published(d, s, FALSE)>>
    BY <1>9, <2>1 DEF Published
  <2> QED BY <2>2, RetryReady
<1>10. CASE t.kind = "save" \/ (t.kind = "restore" /\ ~t.ok)
  <2>1. x = <<d, s>>
    BY <1>0, <1>10, Zenon
  <2> QED BY <2>1
<1>11. t.kind \in Kinds
  BY DEF Tasks
<1> QED BY <1>4, <1>5, <1>6, <1>7, <1>8, <1>9, <1>10, <1>11 DEF Kinds

-----------------------------------------------------------------------------
(* The owner's steps: _finish().                                           *)

\* Service s with its busy flag down.
Quiet(s) == [s EXCEPT !.busy = ""]

LEMMA QuietFields ==
    ASSUME NEW s \in Services
    PROVE  LET r == Quiet(s)
           IN  /\ r \in Services /\ Idle(r) /\ r.gen = s.gen /\ r.machine = s.machine
               /\ r.job = s.job /\ r.busyGen = s.busyGen /\ (r.open <=> s.open)
               /\ r.table = s.table /\ r.writer = s.writer /\ (r.saved <=> s.saved)
               /\ (r.complete <=> s.complete) /\ Key(r) = Key(s)
               /\ r.identity = s.identity /\ r.name = s.name
<1> DEFINE r == Quiet(s)
<1>1. ASSUME NEW e \in {""} \cup Kinds
      PROVE  [s EXCEPT !.busy = e] \in Services /\ [s EXCEPT !.busy = e].busy = e
  <2>1. [s EXCEPT !.busy = e] \in Services
    BY <1>1, Zenon DEF Services
  <2> QED BY <2>1 DEF Services
<1>2. "" \in {""} \cup Kinds
  OBVIOUS
<1>3. r \in Services /\ Idle(r)
  BY <1>1, <1>2, Zenon DEF Quiet, Idle
<1>4. /\ r.gen = s.gen /\ r.machine = s.machine
      /\ r.job = s.job /\ r.busyGen = s.busyGen /\ (r.open <=> s.open)
      /\ r.table = s.table /\ r.writer = s.writer /\ (r.saved <=> s.saved)
      /\ (r.complete <=> s.complete) /\ r.identity = s.identity /\ r.name = s.name
  BY DEF Quiet, Services
<1> HIDE DEF r
<1>5. Key(r) = Key(s)
  BY <1>4 DEF Key
<1> QED BY <1>3, <1>4, <1>5 DEF r

\* Terminals not delivered, but for the first.
LEMMA Rest ==
    ASSUME NEW d, NEW s, NEW q, NEW p, Sound(d, s, q, p), p # <<>>
    PROVE  /\ p[1] \in Tasks /\ Counts(s, p[1])
           /\ Tail(p) \in Seq(Tasks) /\ Single(q, Tail(p))
           /\ \A i \in DOMAIN Tail(p) :
                /\ Tail(p)[i] \in Tasks /\ Counts(s, Tail(p)[i])
                /\ Tail(p)[i].gen # p[1].gen
           /\ \A i \in DOMAIN q : q[i].gen # p[1].gen
           /\ \A j \in DOMAIN p : j # 1 => \E i \in DOMAIN Tail(p) : Tail(p)[i] = p[j]
<1> DEFINE r == Tail(p)
<1>1. /\ 1 \in DOMAIN p /\ DOMAIN p = 1..Len(p) /\ Len(p) \in Nat /\ p \in Seq(Tasks)
      /\ Single(q, p)
  BY HeadOf DEF Sound
<1>2. /\ r \in Seq(Tasks)
      /\ \A i \in DOMAIN r : /\ i \in Nat /\ i + 1 \in DOMAIN p /\ i + 1 # 1
                             /\ r[i] = p[i + 1]
  BY HeadGone DEF Sound
<1>3. \A i \in DOMAIN p : p[i] \in Tasks /\ Counts(s, p[i])
  BY DEF Sound
<1>4. \A j \in DOMAIN p : j # 1 => \E i \in DOMAIN r : r[i] = p[j]
  <2> SUFFICES ASSUME NEW j \in DOMAIN p, j # 1 PROVE \E i \in DOMAIN r : r[i] = p[j]
    OBVIOUS
  <2>1. DOMAIN r = 1..(Len(p) - 1)
    BY <1>1, HeadTailProperties
  <2>2. j - 1 \in DOMAIN r /\ (j - 1) + 1 = j
    BY <1>1, <2>1
  <2> QED BY <1>2, <2>2
<1> HIDE DEF r
<1>5. Single(q, r)
  <2>1. \A i, j \in DOMAIN r : r[i].gen = r[j].gen => i = j
    BY <1>1, <1>2 DEF Single
  <2>2. \A i \in DOMAIN q, j \in DOMAIN r : q[i].gen # r[j].gen
    BY <1>1, <1>2 DEF Single
  <2> QED BY <1>1, <2>1, <2>2 DEF Single
<1>6. /\ \A i \in DOMAIN r : r[i].gen # p[1].gen
      /\ \A i \in DOMAIN q : q[i].gen # p[1].gen
  BY <1>1, <1>2 DEF Single
<1>7. \A i \in DOMAIN r : r[i] \in Tasks /\ Counts(s, r[i])
  BY <1>2, <1>3
<1> QED BY <1>1, <1>2, <1>3, <1>4, <1>5, <1>6, <1>7 DEF r

\* A terminal that is delivered and changes nothing.
LEMMA Dropped ==
    ASSUME NEW d, NEW s, NEW q, NEW p, Sound(d, s, q, p), p # <<>>, ~Saves(s, p[1])
    PROVE  Sound(d, s, q, Tail(p))
<1>1. /\ Tail(p) \in Seq(Tasks) /\ Single(q, Tail(p))
      /\ \A i \in DOMAIN Tail(p) : Counts(s, Tail(p)[i])
      /\ \A j \in DOMAIN p : j # 1 => \E i \in DOMAIN Tail(p) : Tail(p)[i] = p[j]
  BY Rest
<1> DEFINE r == Tail(p)
<1> HIDE DEF r
<1>2. Session(d, s, r)
  <2>1. (\E j \in DOMAIN p : Saves(s, p[j])) => \E i \in DOMAIN r : Saves(s, r[i])
    BY <1>1 DEF r
  <2> QED BY <2>1 DEF Sound, Session
<1>4. Sound(d, s, q, r)
  BY <1>1, <1>2 DEF Sound, r
<1> QED BY <1>4 DEF r

\* A terminal of an older generation clears the flag that is its own.
LEMMA Quieted ==
    ASSUME NEW d, NEW s, NEW q, NEW p, Sound(d, s, q, p), p # <<>>,
           p[1].gen = s.busyGen, p[1].gen # s.gen
    PROVE  Sound(d, Quiet(s), q, p)
<1> DEFINE r == Quiet(s)
<1>1. /\ r \in Services /\ Idle(r) /\ r.gen = s.gen /\ r.machine = s.machine
      /\ r.job = s.job /\ r.busyGen = s.busyGen /\ (r.open <=> s.open)
      /\ r.table = s.table /\ r.writer = s.writer /\ (r.saved <=> s.saved)
      /\ (r.complete <=> s.complete) /\ Key(r) = Key(s)
      /\ r.identity = s.identity /\ r.name = s.name
  BY QuietFields DEF Sound
<1> HIDE DEF r
<1>2. \A i \in DOMAIN q : q[i].gen # s.busyGen
  BY Rest
<1>3. ASSUME NEW t, Counts(s, t) PROVE t.gen # s.gen /\ Counts(r, t)
  BY <1>1, <1>3 DEF Counts
<1>4. ASSUME NEW t, Fits(d, s, t), t.gen # s.busyGen PROVE Fits(d, r, t)
  BY <1>1, <1>4 DEF Fits
<1>5. \A t : Saves(r, t) <=> Saves(s, t)
  BY <1>1 DEF Saves
<1>6. Session(d, r, p)
  BY <1>1, <1>5 DEF Sound, Session
<1>7. Sound(d, r, q, p)
  BY <1>1, <1>2, <1>3, <1>4, <1>5, <1>6 DEF Sound
<1> QED BY <1>7 DEF r

\* A terminal of this generation: nothing else of it is out.
LEMMA Delivered ==
    ASSUME NEW d, NEW s, NEW q, NEW p, Sound(d, s, q, p), p # <<>>, p[1].gen = s.gen,
           NEW r \in Services, r.gen = s.gen, r.job = s.job, r.writer = s.writer, Idle(r),
           Session(d, r, Tail(p))
    PROVE  Sound(d, r, q, Tail(p))
<1> DEFINE b == Tail(p)
<1>1. /\ b \in Seq(Tasks) /\ Single(q, b) /\ Counts(s, p[1])
      /\ \A i \in DOMAIN b : Counts(s, b[i]) /\ b[i].gen # s.gen
      /\ \A i \in DOMAIN q : q[i].gen # s.gen
  BY Rest
<1> HIDE DEF b
<1>2. s.busyGen = s.gen
  BY <1>1 DEF Counts
<1>3. ASSUME NEW t, t.gen # s.gen
      PROVE  /\ Fits(d, s, t) => Fits(d, r, t)
             /\ Counts(s, t) => Counts(r, t)
             /\ ~Saves(r, t)
  BY <1>2, <1>3 DEF Fits, Counts, Saves
<1>4. Session(d, r, b)
  BY DEF b
<1>5. Sound(d, r, q, b)
  BY <1>1, <1>3, <1>4 DEF Sound
<1> QED BY <1>5 DEF b

LEMMA DeliveredReady ==
    ASSUME NEW d, NEW s, NEW q, NEW p, Sound(d, s, q, p), p # <<>>, p[1].gen = s.gen,
           ~Saves(s, p[1]), s.gen <= MaxGen
    PROVE  Ready(d, Quiet(s), q, Tail(p))
<1> DEFINE r == Quiet(s)
<1>1. /\ r \in Services /\ Idle(r) /\ r.gen = s.gen /\ r.machine = s.machine
      /\ r.job = s.job /\ r.busyGen = s.busyGen /\ (r.open <=> s.open)
      /\ r.table = s.table /\ r.writer = s.writer /\ (r.saved <=> s.saved)
      /\ (r.complete <=> s.complete) /\ Key(r) = Key(s)
      /\ r.identity = s.identity /\ r.name = s.name
  BY QuietFields DEF Sound
<1> HIDE DEF r
<1>2. Sound(d, s, q, Tail(p)) /\ Counts(s, p[1])
  BY Rest, Dropped
<1>3. \A t : Saves(r, t) <=> Saves(s, t)
  BY <1>1 DEF Saves
<1>4. Session(d, r, Tail(p))
  BY <1>1, <1>2, <1>3 DEF Sound, Session
<1>5. Sound(d, r, q, Tail(p))
  BY <1>1, <1>4, Delivered
<1>6. r.job # NoJob
  BY <1>1, <1>2 DEF Counts
<1> QED BY <1>1, <1>5, <1>6 DEF Ready, r

\* publish(): the session takes the table of the file it has published.
LEMMA PublishedSound ==
    ASSUME NEW d, NEW s, NEW q, NEW p, Sound(d, s, q, p), p # <<>>, Saves(s, p[1])
    PROVE  LET r == Published(d, Quiet(s), TRUE)
           IN  /\ Sound(d, r, q, Tail(p)) /\ r.gen = s.gen /\ r.job # NoJob
               /\ r.identity # "none"
<1> DEFINE a == Quiet(s)
           f == d.final[Key(s)]
           c == [a EXCEPT !.saved = TRUE, !.retried = FALSE]
           g == AllResolved(f)
           r == [c EXCEPT !.table = f, !.complete = g]
<1>1. /\ a \in Services /\ Idle(a) /\ a.gen = s.gen /\ a.machine = s.machine
      /\ a.job = s.job /\ a.busyGen = s.busyGen /\ (a.open <=> s.open)
      /\ a.table = s.table /\ a.writer = s.writer /\ (a.saved <=> s.saved)
      /\ (a.complete <=> s.complete) /\ Key(a) = Key(s)
      /\ a.identity = s.identity /\ a.name = s.name
  BY QuietFields DEF Sound
<1>2. /\ p[1].gen = s.gen /\ p[1].kind = "prepared_save" /\ Counts(s, p[1]) /\ s \in Services
      /\ Session(d, s, p) /\ Kept(d)
  BY Rest DEF Saves, Sound
<1>3. s.open /\ s.job # NoJob /\ s.busyGen = s.gen /\ s.identity # "none" /\ ~s.saved
  BY <1>2 DEF Counts
<1>4. Key(s) \in Keys
  BY <1>2, <1>3 DEF Key, Keys, Services
<1>5. f \in Files /\ Valid(f)
  BY <1>2, <1>4 DEF Kept, Sane
<1> HIDE DEF a
<1>6. /\ Present(f) => Published(d, a, TRUE) = r
      /\ ~Present(f) => Published(d, a, TRUE) = c
  <2>1. Published(d, a, TRUE) = Reloaded(c, Loaded(f))
    BY <1>1 DEF Published
  <2>2. /\ Present(f) => Present(Loaded(f)) /\ Loaded(f) = f
        /\ ~Present(f) => ~Present(Loaded(f))
    BY <1>5, NoFileSane DEF Loaded
  <2> QED BY <2>1, <2>2 DEF Reloaded
<1> HIDE DEF f
<1>7. c \in Services
  BY <1>1, Zenon DEF Services
<1>8. /\ c.gen = a.gen /\ c.machine = a.machine /\ c.job = a.job /\ c.busy = a.busy
      /\ c.busyGen = a.busyGen /\ (c.open <=> a.open) /\ c.writer = a.writer /\ c.saved
      /\ c.table = a.table /\ (c.complete <=> a.complete)
      /\ c.identity = a.identity /\ c.name = a.name
  BY <1>1 DEF Services
<1>9. g \in BOOLEAN
  BY DEF AllResolved, f, Files, Sane
<1> HIDE DEF c, g
<1>10. r \in Services
  BY <1>5, <1>7, <1>9, Zenon DEF Services
<1>11. /\ r.gen = c.gen /\ r.machine = c.machine /\ r.job = c.job /\ r.busy = c.busy
       /\ r.busyGen = c.busyGen /\ (r.open <=> c.open) /\ r.writer = c.writer
       /\ (r.saved <=> c.saved) /\ r.table = f /\ (r.complete <=> g)
       /\ r.identity = c.identity /\ r.name = c.name
  BY <1>7, <1>9 DEF Services
<1> HIDE DEF r
<1>12. Key(r) = Key(s) /\ Key(c) = Key(s)
  BY <1>1, <1>8, <1>11 DEF Key
<1>13. Idle(r) /\ Idle(c)
  <2>1. r.busy = a.busy /\ c.busy = a.busy
    BY <1>8, <1>11
  <2> QED BY <1>1, <2>1, Zenon DEF Idle
<1>14. CASE Present(f)
  <2>1. g => \E n \in {r.name, "fallback"} : AllResolved(d.final[<<r.machine, r.job, n>>])
    BY <1>12 DEF Key, f, g
  <2>2. Session(d, r, Tail(p))
    BY <1>1, <1>2, <1>3, <1>8, <1>11, <1>12, <1>13, <2>1 DEF Session, f
  <2>3. Sound(d, r, q, Tail(p))
    BY <1>1, <1>2, <1>8, <1>10, <1>11, <1>13, <2>2, Delivered
  <2> QED BY <1>1, <1>3, <1>6, <1>8, <1>11, <1>14, <2>3 DEF a
<1>15. CASE ~Present(f)
  <2>1. ~c.complete
    BY <1>1, <1>2, <1>3, <1>8 DEF Session
  <2>2. Present(c.table) => c.table = d.final[Key(c)]
    BY <1>1, <1>2, <1>8, <1>12, <1>15 DEF Session, f
  <2>3. Session(d, c, Tail(p))
    BY <1>1, <1>2, <1>3, <1>8, <1>12, <1>13, <2>1, <2>2 DEF Session
  <2>4. Sound(d, c, q, Tail(p))
    BY <1>1, <1>2, <1>7, <1>8, <1>13, <2>3, Delivered
  <2> QED BY <1>1, <1>3, <1>6, <1>8, <1>15, <2>4 DEF a
<1> QED BY <1>14, <1>15

-----------------------------------------------------------------------------
(* The owner's steps: those that end in _advance().                        *)

\* What a step of the owner leaves, when it neither starts nor ends the process.
LEMMA OwnerInv ==
    ASSUME IndexInv, process = "running", process' = process, spent' \in
             [turns : 0..MaxGen, demands : 0..MaxDemand,
              unnamed : 0..MaxUnnamed, crashes : 0..MaxCrash],
           svc'.gen <= spent'.turns, Sound(disk', svc', queue', posted')
    PROVE  IndexInv'
<1>1. Started'
  BY DEF Started
<1>2. TypeOK'
  BY DEF Sound, IndexInv, TypeOK
<1> QED BY <1>1, <1>2 DEF IndexInv

LEMMA AdvanceSound ==
    ASSUME IndexInv, process = "running", UNCHANGED process,
           NEW d, NEW s, NEW p, Sound(d, s, queue, p), s.gen = svc.gen,
           Advance(d, s, queue), posted' = p,
           spent'.turns = spent.turns, spent' \in
             [turns : 0..MaxGen, demands : 0..MaxDemand,
              unnamed : 0..MaxUnnamed, crashes : 0..MaxCrash]
    PROVE  IndexInv'
<1>1. svc.gen <= spent.turns /\ spent.turns \in 0..MaxGen /\ svc.gen \in 0..(MaxGen + 1)
  BY DEF IndexInv, Started, TypeOK, Services
<1>2. s.gen <= MaxGen
  BY <1>1, ServiceAssumption
<1>3. PICK x \in Advanced(d, s, queue) : disk' = x[1] /\ svc' = x[2] /\ queue' = x[3]
  BY Zenon DEF Advance
<1>4. Outcome(x, s, p)
  BY <1>2, <1>3, AdvancedSound
<1>5. Sound(disk', svc', queue', posted') /\ svc'.gen = svc.gen
  BY <1>3, <1>4 DEF Outcome
<1> QED BY <1>1, <1>5, OwnerInv

LEMMA SameSpent ==
    ASSUME IndexInv, UNCHANGED spent
    PROVE  spent'.turns = spent.turns /\ spent' \in
             [turns : 0..MaxGen, demands : 0..MaxDemand,
              unnamed : 0..MaxUnnamed, crashes : 0..MaxCrash]
BY DEF IndexInv, TypeOK

\* request(), _on_files_changed(), and the metadata's two answers
Asks(s)    == [s EXCEPT !.wanted = TRUE]
HasFile(s) == [s EXCEPT !.raw = TRUE, !.failed = {}, !.passError = FALSE]
Answered(s, n, b) == [s EXCEPT !.identity = n, !.raw = b, !.failed = {}, !.passError = FALSE]

LEMMA AsksAlike ==
    ASSUME NEW s \in Services
    PROVE  /\ Asks(s) \in Services /\ Alike(s, Asks(s))
           /\ HasFile(s) \in Services /\ Alike(s, HasFile(s))
<1>1. {} \in SUBSET Layers
  OBVIOUS
<1>2. Asks(s) \in Services
  BY Zenon DEF Services, Asks
<1>3. HasFile(s) \in Services
  BY <1>1, Zenon DEF Services, HasFile
<1>4. Asks(s).busy = s.busy /\ HasFile(s).busy = s.busy
  BY DEF Services, Asks, HasFile
<1>5. (Idle(Asks(s)) <=> Idle(s)) /\ (Idle(HasFile(s)) <=> Idle(s))
  BY <1>4, Zenon DEF Idle
<1>6. Alike(s, Asks(s))
  BY <1>5 DEF Services, Alike, Asks
<1>7. Alike(s, HasFile(s))
  BY <1>5 DEF Services, Alike, HasFile
<1> QED BY <1>2, <1>3, <1>6, <1>7

LEMMA AnswerAlike ==
    ASSUME NEW s \in Services, s.identity # "parsed", NEW n \in Names, NEW b \in BOOLEAN
    PROVE  Answered(s, n, b) \in Services /\ Alike(s, Answered(s, n, b))
<1> DEFINE r == Answered(s, n, b)
<1>1. {} \in SUBSET Layers /\ n \in {"none"} \cup Names
  OBVIOUS
<1>2. r \in Services
  BY <1>1, Zenon DEF Services, Answered
<1>3. r.busy = s.busy
  BY DEF Services, Answered
<1>4. Idle(r) <=> Idle(s)
  BY <1>3, Zenon DEF Idle
<1>5. s.identity \in {"none"} \cup Names
  BY DEF Services
<1>6. n \in {s.identity, "parsed"} \/ s.identity = "none"
  BY <1>5 DEF Names
<1> QED BY <1>2, <1>4, <1>6 DEF Services, Alike, Answered

LEMMA RequestSound == ASSUME IndexInv, Request PROVE IndexInv'
<1> DEFINE s == Asks(svc)
<1>1. /\ process = "running" /\ UNCHANGED <<process, posted, spent>>
      /\ Advance(disk, s, queue)
  BY Zenon DEF Request, Asks
<1>2. Sound(disk, svc, queue, posted) /\ svc \in Services
  BY DEF IndexInv, Sound
<1>3. s \in Services /\ Alike(svc, s)
  BY <1>2, AsksAlike
<1> HIDE DEF s
<1>4. Sound(disk, s, queue, posted) /\ s.gen = svc.gen
  BY <1>2, <1>3, AlikeSound DEF Alike
<1> QED BY <1>1, <1>4, SameSpent, AdvanceSound

LEMMA FileArrivesSound == ASSUME IndexInv, FileArrives PROVE IndexInv'
<1> DEFINE s == HasFile(svc)
<1>1. /\ process = "running" /\ UNCHANGED <<process, posted, spent>>
      /\ Advance(disk, s, queue)
  BY Zenon DEF FileArrives, HasFile
<1>2. Sound(disk, svc, queue, posted) /\ svc \in Services
  BY DEF IndexInv, Sound
<1>3. s \in Services /\ Alike(svc, s)
  BY <1>2, AsksAlike
<1> HIDE DEF s
<1>4. Sound(disk, s, queue, posted) /\ s.gen = svc.gen
  BY <1>2, <1>3, AlikeSound DEF Alike
<1> QED BY <1>1, <1>4, SameSpent, AdvanceSound

LEMMA MetadataFailsSound == ASSUME IndexInv, MetadataFails PROVE IndexInv'
<1> DEFINE s == Answered(svc, "fallback", svc.raw)
<1>1. /\ process = "running" /\ UNCHANGED <<process, posted>>
      /\ svc.identity # "parsed" /\ spent.unnamed < MaxUnnamed
      /\ spent' = [spent EXCEPT !.unnamed = @ + 1]
      /\ Advance(disk, [svc EXCEPT !.identity = "fallback", !.failed = {},
                                   !.passError = FALSE], queue)
  BY Zenon DEF MetadataFails
<1>2. Sound(disk, svc, queue, posted) /\ svc \in Services
  BY DEF IndexInv, Sound
<1>3. [svc EXCEPT !.identity = "fallback", !.failed = {}, !.passError = FALSE] = s
  BY <1>2 DEF Answered, Services
<1>4. s \in Services /\ Alike(svc, s)
  <2>1. "fallback" \in Names /\ svc.raw \in BOOLEAN
    BY <1>2 DEF Names, Services
  <2>2. \A n \in Names, b \in BOOLEAN :
          Answered(svc, n, b) \in Services /\ Alike(svc, Answered(svc, n, b))
    BY <1>1, <1>2, AnswerAlike
  <2> QED BY <2>1, <2>2, Zenon
<1>5. Advance(disk, s, queue)
  BY <1>1, <1>3
<1> HIDE DEF s
<1>6. Sound(disk, s, queue, posted) /\ s.gen = svc.gen
  BY <1>2, <1>4, AlikeSound DEF Alike
<1>7. spent'.turns = spent.turns /\ spent' \in
        [turns : 0..MaxGen, demands : 0..MaxDemand,
         unnamed : 0..MaxUnnamed, crashes : 0..MaxCrash]
  <2>1. spent \in [turns : 0..MaxGen, demands : 0..MaxDemand,
                   unnamed : 0..MaxUnnamed, crashes : 0..MaxCrash]
    BY DEF IndexInv, TypeOK
  <2>2. spent' = [turns |-> spent.turns, demands |-> spent.demands,
                  unnamed |-> spent.unnamed + 1, crashes |-> spent.crashes]
    BY <1>1, <2>1
  <2> QED BY <1>1, <2>1, <2>2, ServiceAssumption
<1> QED BY <1>1, <1>5, <1>6, <1>7, AdvanceSound

LEMMA MetadataComesSound == ASSUME IndexInv, MetadataComes PROVE IndexInv'
<1> DEFINE s == Answered(svc, "parsed", FALSE)
<1>1. /\ process = "running" /\ UNCHANGED <<process, posted, spent>>
      /\ svc.identity # "parsed" /\ Advance(disk, s, queue)
  BY Zenon DEF MetadataComes, Answered
<1>2. Sound(disk, svc, queue, posted) /\ svc \in Services
  BY DEF IndexInv, Sound
<1>3. s \in Services /\ Alike(svc, s)
  BY <1>1, <1>2, AnswerAlike DEF Names
<1> HIDE DEF s
<1>4. Sound(disk, s, queue, posted) /\ s.gen = svc.gen
  BY <1>2, <1>3, AlikeSound DEF Alike
<1> QED BY <1>1, <1>4, SameSpent, AdvanceSound

LEMMA DemandSound == ASSUME IndexInv, NEW l \in Layers, Demand(l) PROVE IndexInv'
<1> DEFINE h == svc.hydrate \cup (((l - 1)..(l + 1) \cap Layers) \ svc.failed)
           s == [svc EXCEPT !.hydrate = h]
<1>1. /\ process = "running" /\ UNCHANGED <<process, posted>> /\ spent.demands < MaxDemand
      /\ spent' = [spent EXCEPT !.demands = @ + 1]
      /\ Advance(disk, s, queue)
  BY Zenon DEF Demand
<1>2. Sound(disk, svc, queue, posted) /\ svc \in Services
  BY DEF IndexInv, Sound
<1>3. h \in SUBSET Layers
  BY <1>2 DEF Services
<1> HIDE DEF h
<1>4. s \in Services
  BY <1>2, <1>3, Zenon DEF Services
<1>5. Alike(svc, s)
  <2>1. s.busy = svc.busy
    BY <1>2 DEF Services
  <2>2. Idle(s) <=> Idle(svc)
    BY <2>1, Zenon DEF Idle
  <2> QED BY <1>2, <2>2 DEF Services, Alike
<1> HIDE DEF s
<1>6. Sound(disk, s, queue, posted) /\ s.gen = svc.gen
  BY <1>2, <1>4, <1>5, AlikeSound DEF Alike
<1>7. spent'.turns = spent.turns /\ spent' \in
        [turns : 0..MaxGen, demands : 0..MaxDemand,
         unnamed : 0..MaxUnnamed, crashes : 0..MaxCrash]
  <2>1. spent \in [turns : 0..MaxGen, demands : 0..MaxDemand,
                   unnamed : 0..MaxUnnamed, crashes : 0..MaxCrash]
    BY DEF IndexInv, TypeOK
  <2>2. spent' = [turns |-> spent.turns, demands |-> spent.demands + 1,
                  unnamed |-> spent.unnamed, crashes |-> spent.crashes]
    BY <1>1, <2>1
  <2> QED BY <1>1, <2>1, <2>2, ServiceAssumption
<1> QED BY <1>1, <1>6, <1>7, AdvanceSound

LEMMA FinishSound == ASSUME IndexInv, Finish PROVE IndexInv'
<1> DEFINE t == Head(posted)
           p == Tail(posted)
           s == IF Owned(svc, t) THEN Quiet(svc) ELSE svc
<1>1. /\ process = "running" /\ posted # <<>> /\ posted' = p
      /\ UNCHANGED <<process, spent>>
  BY Zenon DEF Finish
<1>2. PICK x \in (IF t.gen = s.gen THEN Committed(disk, s, t) ELSE {<<disk, s>>}) :
        Advance(x[1], x[2], queue)
  BY Zenon DEF Finish, Quiet
<1>3. Sound(disk, svc, queue, posted) /\ svc \in Services
  BY DEF IndexInv, Sound
<1>4. t = posted[1] /\ t \in Tasks /\ Counts(svc, t)
  BY <1>1, <1>3, HeadOf, Rest DEF Sound
<1>5. Quiet(svc).gen = svc.gen
  BY <1>3, QuietFields
<1>6. svc.gen <= MaxGen
  <2>1. svc.gen <= spent.turns /\ spent.turns \in 0..MaxGen /\ svc.gen \in 0..(MaxGen + 1)
    BY <1>1 DEF IndexInv, Started, TypeOK, Services
  <2> QED BY <2>1, ServiceAssumption
<1> HIDE DEF t
<1>7. s.gen = svc.gen
  BY <1>5
<1>8. Sound(x[1], x[2], queue, p) /\ x[2].gen = svc.gen
  <2>1. CASE t.gen = svc.gen
    <3>1. s = Quiet(svc)
      BY <1>4, <2>1 DEF Owned, Counts
    <3>2. x \in Committed(disk, s, t)
      BY <1>2, <1>7, <2>1
    <3> HIDE DEF s
    <3>3. CASE ~Saves(svc, t)
      <4>1. Ready(disk, s, queue, p) /\ s.identity # "none"
        BY <1>1, <1>3, <1>4, <1>6, <2>1, <3>1, <3>3, DeliveredReady, QuietFields DEF Counts
      <4>2. Ready(x[1], x[2], queue, p) /\ x[2].gen = s.gen
        BY <1>4, <2>1, <3>2, <3>3, <4>1, CommittedReady DEF Saves
      <4> QED BY <1>7, <4>2 DEF Ready
    <3>4. CASE Saves(svc, t)
      <4>1. t.kind = "prepared_save" /\ t.ok
        BY <3>4 DEF Saves
      <4>2. x = <<disk, Published(disk, s, TRUE)>>
        BY <3>2, <4>1, SavedCommitted
      <4>3. /\ Sound(disk, Published(disk, s, TRUE), queue, p)
            /\ Published(disk, s, TRUE).gen = svc.gen
        BY <1>1, <1>3, <1>4, <3>1, <3>4, PublishedSound
      <4> QED BY <4>2, <4>3
    <3> QED BY <3>3, <3>4
  <2>2. CASE t.gen # svc.gen
    <3>1. x = <<disk, s>>
      BY <1>2, <1>7, <2>2
    <3>2. Sound(disk, s, queue, posted)
      BY <1>1, <1>3, <1>4, <2>2, Quieted DEF Owned
    <3> HIDE DEF s
    <3>3. ~Saves(s, posted[1])
      BY <1>4, <1>7, <2>2 DEF Saves
    <3>4. Sound(disk, s, queue, p)
      BY <1>1, <3>2, <3>3, Dropped
    <3> QED BY <1>7, <3>1, <3>4
  <2> QED BY <2>1, <2>2
<1>9. spent'.turns = spent.turns /\ spent' \in
        [turns : 0..MaxGen, demands : 0..MaxDemand,
         unnamed : 0..MaxUnnamed, crashes : 0..MaxCrash]
  BY <1>1, SameSpent
<1> QED BY <1>1, <1>2, <1>8, <1>9, AdvanceSound

-----------------------------------------------------------------------------
(* The owner's steps: a new generation.                                    *)

\* Disk e is d with some files gone, and the writer w ended.
Ends(d, e, w) ==
    /\ e \in Disks /\ Kept(e) /\ e.opened = d.opened
    /\ w # NoWriter => e.writers[w].retired
    /\ \A v \in Writers :
         /\ e.writers[v].key = d.writers[v].key /\ e.writers[v].dead = d.writers[v].dead
         /\ d.writers[v].retired => e.writers[v].retired
         /\ Present(e.writers[v].temp) => Present(d.writers[v].temp)

\* retire(): the session's writer is ended, whatever the disk says.
LEMMA SuspendedEnds ==
    ASSUME NEW d, NEW s, NEW q, NEW p, Sound(d, s, q, p), NEW e \in Suspended(d, s)
    PROVE  Ends(d, e, s.writer)
<1> DEFINE w == s.writer
           k == InFolder(s.machine, d.writers[w].key)
<1>1. d \in Disks /\ Kept(d) /\ s \in Services /\ Session(d, s, p)
  BY DEF Sound
<1>2. \/ w = NoWriter /\ e = d
      \/ w # NoWriter /\ e = Aborted(d, w)
      \/ w # NoWriter /\ e = Replaced(d, w, k)
      \/ w # NoWriter /\ MayFail(d) /\ e = Failed(Aborted(d, w))
  BY Zenon DEF Suspended
<1>3. CASE w = NoWriter /\ e = d
  BY <1>1, <1>3 DEF Ends
<1>4. CASE w # NoWriter /\ e = Replaced(d, w, k)
  <2>1. w \in Writers /\ Key(s) \in Belongs(d.writers[w].key)
    BY <1>1, <1>4 DEF Session, Has
  <2>2. k = d.writers[w].key
    <3>1. d.writers[w].key \in Keys
      BY <1>1, <2>1 DEF Disks
    <3> QED BY <2>1, <3>1, Folder DEF Key
  <2>3. Renamed(d, e, w, k)
    BY <1>1, <1>4, <2>1, <2>2, ReplacedRenamed
  <2> QED BY <2>3 DEF Renamed, Ends
<1>5. CASE w # NoWriter /\ e = Aborted(d, w)
  <2>1. w \in Writers
    BY <1>1, <1>5 DEF Session, Has
  <2>2. Wear(d, e) /\ e.writers[w].retired
    BY <1>1, <1>5, <2>1, AbortedWear, AbortedFields
  <2> QED BY <2>2 DEF Wear, Ends
<1>6. CASE w # NoWriter /\ MayFail(d) /\ e = Failed(Aborted(d, w))
  <2>1. w \in Writers
    BY <1>1, <1>6 DEF Session, Has
  <2> DEFINE g == Aborted(d, w)
  <2>2. g \in Disks /\ g.faults = d.faults /\ g.writers[w].retired
    BY <1>1, <2>1, AbortedFields
  <2>3. Wear(d, e)
    BY <1>1, <1>6, <2>1, FailedAborted
  <2> HIDE DEF g
  <2>4. e = Failed(g) /\ MayFail(g)
    BY <1>6, <2>2 DEF MayFail, Spare, g
  <2>5. e.writers[w].retired
    BY <2>2, <2>4, FailedFields
  <2> QED BY <2>3, <2>5 DEF Wear, Ends
<1> QED BY <1>2, <1>3, <1>4, <1>5, <1>6

\* A service of the next generation, with nothing bound to it yet.
Next1(s, r) == /\ r \in Services /\ r.gen = s.gen + 1 /\ ~r.open /\ ~r.complete
               /\ r.table = NoFile /\ r.writer = NoWriter

\* The cutover: what is out belongs to an older generation, and goes nowhere.
LEMMA Cutover ==
    ASSUME NEW d, NEW s, NEW q, NEW p, Sound(d, s, q, p), NEW e, Ends(d, e, s.writer),
           s.writer = NoWriter \/ q = <<>> \/ q[1].stage = "run", NEW r, Next1(s, r),
           \/ (Idle(r) <=> Idle(s)) /\ r.busyGen = s.busyGen
           \/ \A w \in Writers : ~Present(e.writers[w].temp)
    PROVE  Sound(e, r, q, p)
<1>1. /\ d \in Disks /\ s \in Services /\ q \in Seq(Tasks) /\ p \in Seq(Tasks)
      /\ Single(q, p) /\ e \in Disks /\ Kept(e) /\ r \in Services
      /\ s.gen \in Int /\ ~Present(NoFile)
  <2>1. /\ d \in Disks /\ s \in Services /\ q \in Seq(Tasks) /\ p \in Seq(Tasks)
        /\ Single(q, p)
    BY DEF Sound
  <2>2. s.gen \in Int
    <3>1. s.gen \in 0..(MaxGen + 1)
      BY <2>1 DEF Services
    <3> QED BY <3>1, ServiceAssumption
  <2> QED BY <2>1, <2>2, NoFileSane DEF Ends, Next1
<1>2. ASSUME NEW t \in Tasks, Counts(s, t) PROVE Counts(r, t) /\ ~Saves(r, t) /\ t.gen # r.gen
  <2>1. t.gen <= s.gen /\ r.gen = s.gen + 1 /\ t.gen \in Int
    BY <1>2 DEF Counts, Next1, Tasks
  <2>2. t.gen <= r.gen /\ t.gen # r.gen
    BY <1>1, <2>1
  <2> QED BY <2>2 DEF Counts, Saves
<1>3. ASSUME NEW t \in Tasks, Fits(d, s, t), Counts(s, t) PROVE Fits(e, r, t)
  <2>1. t.gen # r.gen
    BY <1>2, <1>3
  <2>2. t.writer # NoWriter => t.writer \in Writers /\ Has(e, t.writer, t.key)
    BY <1>3 DEF Fits, Has, Ends
  <2>3. ~(t.kind \in Lays /\ Writing(e, t.writer))
    <3> SUFFICES ASSUME t.kind \in Lays, Writing(e, t.writer) PROVE FALSE
      OBVIOUS
    <3>1. t.writer # NoWriter /\ ~e.writers[t.writer].retired
          /\ Present(e.writers[t.writer].temp)
      BY DEF Writing
    <3>2. Writing(d, t.writer)
      BY <2>2, <3>1 DEF Ends, Writing
    <3>3. t.writer = s.writer
      BY <1>3, <3>2 DEF Fits
    <3> QED BY <3>1, <3>3 DEF Ends
  <2>4. t.kind = "prepared_save" =>
          /\ t.writer # NoWriter /\ t.writer # r.writer
          /\ Present(e.writers[t.writer].temp) => ~Idle(r) /\ r.busyGen = t.gen
    BY <1>3, <2>2 DEF Fits, Ends, Next1
  <2> QED BY <2>1, <2>2, <2>3, <2>4 DEF Fits
<1>4. ASSUME NEW i \in DOMAIN q PROVE Held(e, q[i])
  <2>1. Fits(d, s, q[i]) /\ Held(d, q[i]) /\ (i # 1 => q[i].stage = "run")
    BY DEF Sound, Lock
  <2>2. q[i].stage # "payload"
    <3> SUFFICES ASSUME q[i].stage = "payload" PROVE FALSE
      OBVIOUS
    <3>1. i = 1 /\ q # <<>>
      BY <1>1, <2>1
    <3>2. q[i].kind \in Lays /\ Writing(d, q[i].writer)
      BY <2>1 DEF Held
    <3>3. q[i].writer = s.writer /\ q[i].writer # NoWriter
      BY <2>1, <3>2 DEF Fits, Writing
    <3> QED BY <3>1, <3>3
  <2> QED BY <2>1, <2>2 DEF Held
<1>5. Lock(e, q)
  BY <1>4 DEF Sound, Lock
<1>6. Session(e, r, p)
  BY <1>1 DEF Session, Next1
<1>7. \A i \in DOMAIN q : q[i] \in Tasks /\ Fits(d, s, q[i]) /\ Counts(s, q[i])
  BY DEF Sound
<1>8. \A i \in DOMAIN p : p[i] \in Tasks /\ Counts(s, p[i])
  BY DEF Sound
<1> QED BY <1>1, <1>2, <1>3, <1>5, <1>6, <1>7, <1>8 DEF Sound

LEMMA Unlocks ==
    ASSUME IndexInv, Unlocked
    PROVE  svc.writer = NoWriter \/ queue = <<>> \/ queue[1].stage = "run"
BY Running1 DEF Unlocked, Locked

\* What the generation may become.
LEMMA Turning ==
    ASSUME IndexInv, process = "running", Turns
    PROVE  /\ svc.gen + 1 \in 0..MaxGen /\ svc.gen + 1 <= spent'.turns
           /\ spent' \in [turns : 0..MaxGen, demands : 0..MaxDemand,
                          unnamed : 0..MaxUnnamed, crashes : 0..MaxCrash]
<1>1. /\ svc.gen <= spent.turns /\ svc.gen \in 0..(MaxGen + 1)
      /\ spent \in [turns : 0..MaxGen, demands : 0..MaxDemand,
                    unnamed : 0..MaxUnnamed, crashes : 0..MaxCrash]
  BY DEF IndexInv, Started, TypeOK, Services
<1>2. spent' = [turns |-> spent.turns + 1, demands |-> spent.demands,
                unnamed |-> spent.unnamed, crashes |-> spent.crashes] /\ spent.turns < MaxGen
  BY <1>1 DEF Turns
<1> QED BY <1>1, <1>2, ServiceAssumption

\* Fresh(), by what it writes.
Blank(s, b, e, n, f, w, i, m) ==
    [s EXCEPT !.identity = i, !.raw = b, !.view = b, !.wanted = b, !.restored = b,
              !.save = b, !.error = b,
              !.passError = b, !.hydrate = e, !.failed = e, !.next = n, !.packed = e,
              !.open = b, !.name = m, !.table = f, !.writer = w, !.saved = b, !.retried = b,
              !.complete = b]

LEMMA BlankTypes ==
    ASSUME NEW s \in Services, NEW b \in BOOLEAN, NEW e \in SUBSET Layers,
           NEW n \in 1..(MaxLayer + 1), NEW f \in Files, NEW w \in {NoWriter} \cup Writers,
           NEW i \in {"none"} \cup Names, NEW m \in Names
    PROVE  LET r == Blank(s, b, e, n, f, w, i, m)
           IN  /\ r \in Services /\ r.gen = s.gen /\ r.busy = s.busy
               /\ r.busyGen = s.busyGen /\ r.machine = s.machine /\ r.store = s.store
               /\ (r.open <=> b) /\ (r.complete <=> b) /\ r.table = f /\ r.writer = w
<1>1. Blank(s, b, e, n, f, w, i, m) \in Services
  BY ZenonT(60) DEF Blank, Services
<1> QED BY <1>1 DEF Blank, Services

LEMMA FreshFields ==
    ASSUME NEW s \in Services, s.gen + 1 \in 0..(MaxGen + 1)
    PROVE  LET r == Fresh(Turned(s))
           IN  /\ Next1(s, r) /\ (Idle(r) <=> Idle(s)) /\ r.busyGen = s.busyGen
               /\ r.machine = s.machine /\ r.store = s.store
<1> DEFINE g == s.gen + 1
           a == [s EXCEPT !.gen = g]
           r == Fresh(a)
<1>1. Turned(s) = a
  BY DEF Turned
<1> HIDE DEF g
<1>2. a \in Services
  BY Zenon DEF Services, g
<1>3. a.gen = g /\ a.busy = s.busy /\ a.busyGen = s.busyGen /\ a.machine = s.machine
      /\ a.store = s.store
  BY DEF Services
<1> HIDE DEF a
<1>4. /\ {} \in SUBSET Layers /\ 1 \in 1..(MaxLayer + 1) /\ NoFile \in Files
      /\ NoWriter \in {NoWriter} \cup Writers /\ FALSE \in BOOLEAN
      /\ "none" \in {"none"} \cup Names /\ "fallback" \in Names
  BY StoreAssumption, NoFileSane DEF Sane, Names
<1>5. r = Blank(a, FALSE, {}, 1, NoFile, NoWriter, "none", "fallback")
  BY Zenon DEF Fresh, Blank
<1> HIDE DEF r
<1>6. /\ r \in Services /\ r.gen = a.gen /\ r.busy = a.busy
      /\ r.busyGen = a.busyGen /\ r.machine = a.machine /\ r.store = a.store
      /\ ~r.open /\ ~r.complete /\ r.table = NoFile /\ r.writer = NoWriter
  <2>1. ASSUME NEW b \in BOOLEAN, NEW x, ~b,
               x = Blank(a, b, {}, 1, NoFile, NoWriter, "none", "fallback")
        PROVE  /\ x \in Services /\ x.gen = a.gen /\ x.busy = a.busy
               /\ x.busyGen = a.busyGen /\ x.machine = a.machine /\ x.store = a.store
               /\ ~x.open /\ ~x.complete /\ x.table = NoFile /\ x.writer = NoWriter
    BY <1>2, <1>4, <2>1, BlankTypes
  <2> QED BY <1>4, <1>5, <2>1, Zenon
<1>7. r.busy = s.busy
  BY <1>3, <1>6
<1>8. Idle(r) <=> Idle(s)
  BY <1>7, Zenon DEF Idle
<1> QED BY <1>1, <1>3, <1>6, <1>8 DEF Next1, r, g

\* What the calls write after that.
Bound(r, j)            == [r EXCEPT !.job = j]
Rebound(r, j, g)       == [r EXCEPT !.job = j, !.store = g]
Cleared(r, j, t, b, g) == [r EXCEPT !.job = j, !.swept = t, !.busy = b, !.busyGen = g]

LEMMA BoundFields ==
    ASSUME NEW s, NEW r, Next1(s, r), NEW j \in Prints \cup {NoJob}
    PROVE  LET x == Bound(r, j)
           IN  Next1(s, x) /\ (Idle(x) <=> Idle(r)) /\ x.busyGen = r.busyGen
<1> DEFINE x == Bound(r, j)
<1>1. r \in Services
  BY DEF Next1
<1>2. x \in Services
  BY <1>1, Zenon DEF Bound, Services
<1>3. /\ x.gen = r.gen /\ (x.open <=> r.open) /\ (x.complete <=> r.complete)
      /\ x.table = r.table /\ x.writer = r.writer /\ x.busy = r.busy
      /\ x.busyGen = r.busyGen
  BY <1>1 DEF Bound, Services
<1> HIDE DEF x
<1>4. Idle(x) <=> Idle(r)
  BY <1>3, Zenon DEF Idle
<1> QED BY <1>2, <1>3, <1>4 DEF Next1, x

LEMMA ReboundFields ==
    ASSUME NEW s, NEW r, Next1(s, r), NEW j \in Prints \cup {NoJob}, NEW g \in 0..MaxGen
    PROVE  LET x == Rebound(r, j, g)
           IN  Next1(s, x) /\ (Idle(x) <=> Idle(r)) /\ x.busyGen = r.busyGen
<1> DEFINE x == Rebound(r, j, g)
<1>1. r \in Services
  BY DEF Next1
<1>2. x \in Services
  BY <1>1, Zenon DEF Rebound, Services
<1>3. /\ x.gen = r.gen /\ (x.open <=> r.open) /\ (x.complete <=> r.complete)
      /\ x.table = r.table /\ x.writer = r.writer /\ x.busy = r.busy
      /\ x.busyGen = r.busyGen
  BY <1>1 DEF Rebound, Services
<1> HIDE DEF x
<1>4. Idle(x) <=> Idle(r)
  BY <1>3, Zenon DEF Idle
<1> QED BY <1>2, <1>3, <1>4 DEF Next1, x

LEMMA ClearedFields ==
    ASSUME NEW s, NEW r, Next1(s, r), NEW j \in Prints \cup {NoJob},
           NEW t \in {-1} \cup 0..MaxGen, NEW b \in {""} \cup Kinds,
           NEW g \in {-1} \cup 0..MaxGen
    PROVE  Next1(s, Cleared(r, j, t, b, g))
<1> DEFINE x == Cleared(r, j, t, b, g)
<1>1. r \in Services
  BY DEF Next1
<1>2. x \in Services
  BY <1>1, ZenonT(60) DEF Cleared, Services
<1>3. /\ x.gen = r.gen /\ (x.open <=> r.open) /\ (x.complete <=> r.complete)
      /\ x.table = r.table /\ x.writer = r.writer
  BY <1>1 DEF Cleared, Services
<1> HIDE DEF x
<1> QED BY <1>2, <1>3 DEF Next1, x

LEMMA BindSound == ASSUME IndexInv, NEW j \in Prints \cup {NoJob}, Bind(j) PROVE IndexInv'
<1> DEFINE r == Fresh(Turned(svc))
<1>1. /\ process = "running" /\ Unlocked /\ Turns /\ UNCHANGED <<process, queue, posted>>
      /\ disk' \in Suspended(disk, svc) /\ svc' = Bound(r, j)
  BY Zenon DEF Bind, Bound
<1>2. Sound(disk, svc, queue, posted) /\ svc \in Services
  BY DEF IndexInv, Sound
<1>3. /\ svc.gen + 1 \in 0..MaxGen /\ svc.gen + 1 <= spent'.turns
      /\ spent' \in [turns : 0..MaxGen, demands : 0..MaxDemand,
                     unnamed : 0..MaxUnnamed, crashes : 0..MaxCrash]
  BY <1>1, Turning
<1>4. Next1(svc, r) /\ (Idle(r) <=> Idle(svc)) /\ r.busyGen = svc.busyGen
  <2>1. svc.gen + 1 \in 0..(MaxGen + 1)
    BY <1>3, ServiceAssumption
  <2> QED BY <1>2, <2>1, FreshFields
<1> HIDE DEF r
<1>5. Next1(svc, svc') /\ (Idle(svc') <=> Idle(svc)) /\ svc'.busyGen = svc.busyGen
  <2>1. Next1(svc, svc') /\ (Idle(svc') <=> Idle(r)) /\ svc'.busyGen = r.busyGen
    BY <1>1, <1>4, BoundFields
  <2> QED BY <1>4, <2>1
<1>6. Ends(disk, disk', svc.writer)
  BY <1>1, <1>2, SuspendedEnds
<1>7. Sound(disk', svc', queue, posted)
  BY <1>1, <1>2, <1>5, <1>6, Unlocks, Cutover
<1>8. Sound(disk', svc', queue', posted') /\ svc'.gen <= spent'.turns
  BY <1>1, <1>3, <1>5, <1>7 DEF Next1
<1> QED BY <1>1, <1>3, <1>8, OwnerInv

LEMMA RebindSound == ASSUME IndexInv, NEW m \in Machines, Rebind(m) PROVE IndexInv'
<1> DEFINE s == [svc EXCEPT !.machine = m]
           r == Fresh(Turned(s))
           g == svc.gen + 1
<1>1. /\ process = "running" /\ Unlocked /\ Turns /\ UNCHANGED <<process, queue, posted>>
      /\ disk' \in Suspended(disk, svc) /\ svc' = Rebound(r, NoJob, g)
  <2>1. PICK x \in Moved(svc, m) :
          /\ disk' = x[1]
          /\ svc' = [Fresh(Turned(x[2])) EXCEPT !.job = NoJob, !.store = svc.gen + 1]
    BY Zenon DEF Rebind
  <2>2. PICK d \in Suspended(disk, svc) : x = <<d, s>>
    BY Zenon DEF Moved
  <2>3. x[1] = d /\ x[2] = s
    BY <2>2
  <2>4. disk' = d /\ svc' = Rebound(r, NoJob, g)
    BY <2>1, <2>3, Zenon DEF Rebound
  <2> QED BY <2>2, <2>4, Zenon DEF Rebind
<1>2. Sound(disk, svc, queue, posted) /\ svc \in Services
  BY DEF IndexInv, Sound
<1>3. /\ g \in 0..MaxGen /\ g <= spent'.turns
      /\ spent' \in [turns : 0..MaxGen, demands : 0..MaxDemand,
                     unnamed : 0..MaxUnnamed, crashes : 0..MaxCrash]
  BY <1>1, Turning
<1>4. s \in Services
  BY <1>2, Zenon DEF Services
<1>5. s.gen = svc.gen /\ s.busy = svc.busy /\ s.busyGen = svc.busyGen
  BY <1>2 DEF Services
<1> HIDE DEF s
<1>6. Idle(s) <=> Idle(svc)
  BY <1>5, Zenon DEF Idle
<1>7. Next1(s, r) /\ (Idle(r) <=> Idle(s)) /\ r.busyGen = s.busyGen
  <2>1. s.gen + 1 \in 0..(MaxGen + 1)
    BY <1>3, <1>5, ServiceAssumption
  <2> QED BY <1>4, <2>1, FreshFields
<1>8. Next1(svc, r)
  BY <1>5, <1>7 DEF Next1
<1> HIDE DEF r, g
<1>9. Next1(svc, svc') /\ (Idle(svc') <=> Idle(svc)) /\ svc'.busyGen = svc.busyGen
  <2>1. NoJob \in Prints \cup {NoJob}
    OBVIOUS
  <2>2. Next1(svc, svc') /\ (Idle(svc') <=> Idle(r)) /\ svc'.busyGen = r.busyGen
    BY <1>1, <1>3, <1>8, <2>1, ReboundFields
  <2> QED BY <1>5, <1>6, <1>7, <2>2
<1>10. Ends(disk, disk', svc.writer)
  BY <1>1, <1>2, SuspendedEnds
<1>11. Sound(disk', svc', queue, posted)
  BY <1>1, <1>2, <1>9, <1>10, Unlocks, Cutover
<1>12. Sound(disk', svc', queue', posted') /\ svc'.gen <= spent'.turns
  BY <1>1, <1>3, <1>9, <1>11 DEF Next1, g
<1> QED BY <1>1, <1>3, <1>12, OwnerInv

\* A disk with no file in any folder.
Emptied(d) == [d EXCEPT !.final = [k \in Keys |-> NoFile], !.index = {},
                        !.writers = [w \in Writers |-> [@[w] EXCEPT !.temp = NoFile]]]

LEMMA EmptiedEnds ==
    ASSUME NEW d, NEW e, NEW w \in {NoWriter} \cup Writers, Ends(d, e, w)
    PROVE  /\ Ends(d, Emptied(e), w)
           /\ \A v \in Writers : ~Present(Emptied(e).writers[v].temp)
<1> DEFINE f == [k \in Keys |-> NoFile]
           Of(v) == [key |-> e.writers[v].key, retired |-> e.writers[v].retired,
                     temp |-> NoFile, dead |-> e.writers[v].dead]
           u == [v \in Writers |-> Of(v)]
           g == Emptied(e)
<1>1. e \in Disks /\ Kept(e) /\ e.opened = d.opened
  BY DEF Ends
<1>2. NoFile \in Files /\ ~Present(NoFile) /\ \A k : Sane(NoFile, k)
  BY NoFileSane DEF Sane
<1>3. f \in [Keys -> Files] /\ \A k \in Keys : f[k] = NoFile
  BY <1>2
<1>4. \A v \in Writers : Of(v) \in WriterRecs
  <2> SUFFICES ASSUME NEW v \in Writers PROVE Of(v) \in WriterRecs
    OBVIOUS
  <2>1. e.writers[v] \in WriterRecs
    BY <1>1, RecFields
  <2> QED BY <1>2, <2>1 DEF WriterRecs
<1>5. /\ u \in [Writers -> WriterRecs]
      /\ \A v \in Writers : /\ u[v].key = e.writers[v].key /\ u[v].retired = e.writers[v].retired
                            /\ u[v].temp = NoFile /\ u[v].dead = e.writers[v].dead
  BY <1>4
<1>6. g = [final |-> f, index |-> {}, writers |-> u, opened |-> e.opened, faults |-> e.faults]
  <2>1. \A v \in Writers : [e.writers[v] EXCEPT !.temp = NoFile] = Of(v)
    <3> SUFFICES ASSUME NEW v \in Writers
                 PROVE  [e.writers[v] EXCEPT !.temp = NoFile] = Of(v)
      OBVIOUS
    <3>1. e.writers[v] \in WriterRecs
      BY <1>1, RecFields
    <3> QED BY <3>1 DEF WriterRecs
  <2>2. [v \in Writers |-> [e.writers[v] EXCEPT !.temp = NoFile]] = u
    BY <2>1
  <2> DEFINE z == [v \in Writers |-> [e.writers[v] EXCEPT !.temp = NoFile]]
  <2>3. g = [e EXCEPT !.final = f, !.index = {}, !.writers = z]
    BY DEF Emptied
  <2> HIDE DEF f, u, z, g
  <2>4. g = [final |-> f, index |-> {}, writers |-> z, opened |-> e.opened, faults |-> e.faults]
    BY <1>1, <2>3 DEF Disks
  <2> QED BY <2>2, <2>4 DEF z
<1> HIDE DEF f, u, g
<1>7. g \in Disks
  <2>1. e.opened \in 0..MaxWriter /\ e.faults \in 0..MaxFault
    BY <1>1 DEF Disks
  <2> QED BY <1>3, <1>5, <1>6, <2>1 DEF Disks, WriterRecs
<1>8. g.final = f /\ g.writers = u /\ g.opened = e.opened
  BY <1>6
<1>9. Kept(g)
  BY <1>2, <1>3, <1>5, <1>8 DEF Kept
<1>10. Ends(d, g, w) /\ \A v \in Writers : ~Present(g.writers[v].temp)
  <2>1. w # NoWriter => w \in Writers /\ e.writers[w].retired
    BY DEF Ends
  <2> QED BY <1>2, <1>5, <1>7, <1>8, <1>9, <2>1 DEF Ends
<1> QED BY <1>10 DEF g

LEMMA ClearSound == ASSUME IndexInv, Clear PROVE IndexInv'
<1> DEFINE r == Fresh(Turned(svc))
           g == svc.gen + 1
<1>1. /\ process = "running" /\ Unlocked /\ Turns /\ UNCHANGED <<process, queue, posted>>
      /\ \E d \in Suspended(disk, svc) : disk' = Emptied(d)
      /\ svc' = Cleared(r, NoJob, svc.store, "", g)
  BY Zenon DEF Clear, Cleared, Emptied
<1>2. Sound(disk, svc, queue, posted) /\ svc \in Services
  BY DEF IndexInv, Sound
<1>3. /\ g \in 0..MaxGen /\ g <= spent'.turns
      /\ spent' \in [turns : 0..MaxGen, demands : 0..MaxDemand,
                     unnamed : 0..MaxUnnamed, crashes : 0..MaxCrash]
  BY <1>1, Turning
<1>4. Next1(svc, r)
  <2>1. svc.gen + 1 \in 0..(MaxGen + 1)
    BY <1>3, ServiceAssumption
  <2> QED BY <1>2, <2>1, FreshFields
<1> HIDE DEF r, g
<1>5. Next1(svc, svc')
  <2>1. \A b \in {""} \cup Kinds : Next1(svc, Cleared(r, NoJob, svc.store, b, g))
    <3>1. svc.store \in {-1} \cup 0..MaxGen /\ g \in {-1} \cup 0..MaxGen
      BY <1>2, <1>3 DEF Services
    <3> QED BY <1>4, <3>1, ClearedFields
  <2>2. "" \in {""} \cup Kinds
    OBVIOUS
  <2> QED BY <1>1, <2>1, <2>2, Zenon
<1>6. /\ Ends(disk, disk', svc.writer)
      /\ \A w \in Writers : ~Present(disk'.writers[w].temp)
  <2>1. PICK d \in Suspended(disk, svc) : disk' = Emptied(d)
    BY <1>1
  <2>2. Ends(disk, d, svc.writer)
    BY <1>2, SuspendedEnds
  <2>3. svc.writer \in {NoWriter} \cup Writers
    BY <1>2 DEF Services
  <2> QED BY <2>1, <2>2, <2>3, EmptiedEnds
<1>7. Sound(disk', svc', queue, posted)
  BY <1>1, <1>2, <1>5, <1>6, Unlocks, Cutover
<1>8. Sound(disk', svc', queue', posted') /\ svc'.gen <= spent'.turns
  BY <1>1, <1>3, <1>5, <1>7 DEF Next1, g
<1> QED BY <1>1, <1>3, <1>8, OwnerInv

-----------------------------------------------------------------------------
(* The ends of the process, and its starts.                                *)

\* Of the queue, only what runs is waited for.
LEMMA Shortened ==
    ASSUME NEW d, NEW s, NEW q, NEW p, Sound(d, s, q, p), q # <<>>
    PROVE  Sound(d, s, <<Head(q)>>, p)
<1> DEFINE r == <<Head(q)>>
<1>1. Head(q) = q[1] /\ q[1] \in Tasks /\ 1 \in DOMAIN q
  BY HeadOf DEF Sound
<1>2. r \in Seq(Tasks) /\ DOMAIN r = {1} /\ r[1] = q[1]
  BY <1>1
<1> HIDE DEF r
<1>3. \A i \in DOMAIN r : i \in DOMAIN q /\ r[i] = q[i]
  BY <1>1, <1>2
<1>4. Single(r, p)
  BY <1>3 DEF Sound, Single
<1>5. Lock(d, r)
  BY <1>3 DEF Sound, Lock
<1>6. Sound(d, s, r, p)
  BY <1>2, <1>3, <1>4, <1>5 DEF Sound
<1> QED BY <1>6 DEF r

\* The bound on the ends of the process.
LEMMA Ending ==
    ASSUME IndexInv, spent.crashes < MaxCrash, spent' = [spent EXCEPT !.crashes = @ + 1]
    PROVE  spent' \in [turns : 0..MaxGen, demands : 0..MaxDemand,
                       unnamed : 0..MaxUnnamed, crashes : 0..MaxCrash]
<1>1. spent \in [turns : 0..MaxGen, demands : 0..MaxDemand,
                 unnamed : 0..MaxUnnamed, crashes : 0..MaxCrash]
  BY DEF IndexInv, TypeOK
<1>2. spent' = [turns |-> spent.turns, demands |-> spent.demands,
                unnamed |-> spent.unnamed, crashes |-> spent.crashes + 1]
  BY <1>1
<1> QED BY <1>1, <1>2, ServiceAssumption

LEMMA CloseSound == ASSUME IndexInv, Close PROVE IndexInv'
<1> DEFINE r == Fresh(Turned(svc))
<1>1. /\ process = "running" /\ process' = "closing" /\ Unlocked
      /\ disk' \in Suspended(disk, svc) /\ svc' = r
      /\ queue' = (IF queue = <<>> THEN <<>> ELSE <<Head(queue)>>) /\ posted' = posted
      /\ spent.crashes < MaxCrash /\ spent' = [spent EXCEPT !.crashes = @ + 1]
  BY Zenon DEF Close
<1>2. Sound(disk, svc, queue, posted) /\ svc \in Services
  BY DEF IndexInv, Sound
<1>3. Next1(svc, r) /\ (Idle(r) <=> Idle(svc)) /\ r.busyGen = svc.busyGen
  <2>1. svc.gen <= spent.turns /\ spent.turns \in 0..MaxGen /\ svc.gen \in 0..(MaxGen + 1)
    BY <1>1 DEF IndexInv, Started, TypeOK, Services
  <2>2. svc.gen + 1 \in 0..(MaxGen + 1)
    BY <2>1, ServiceAssumption
  <2> QED BY <1>2, <2>2, FreshFields
<1> HIDE DEF r
<1>4. Ends(disk, disk', svc.writer)
  BY <1>1, <1>2, SuspendedEnds
<1>5. Sound(disk', svc', queue, posted)
  BY <1>1, <1>2, <1>3, <1>4, Unlocks, Cutover
<1>6. Sound(disk', svc', queue', posted')
  BY <1>1, <1>5, Shortened
<1>7. Started'
  BY <1>1 DEF Started
<1>8. TypeOK'
  BY <1>1, <1>6, Ending DEF Sound, TypeOK
<1> QED BY <1>6, <1>7, <1>8 DEF IndexInv

\* A process that has just started: nothing is bound, nothing is out.
LEMMA NewSound ==
    ASSUME NEW d, d \in Disks, Kept(d), NEW m \in Machines
    PROVE  /\ Sound(d, NewService(m), <<>>, <<>>)
           /\ NewService(m).gen = 0 /\ NewService(m).machine = m
<1> DEFINE s == NewService(m)
<1>1. /\ {} \in SUBSET Layers /\ 1 \in 1..(MaxLayer + 1) /\ NoFile \in Files
      /\ NoWriter \in {NoWriter} \cup Writers /\ 0 \in 0..MaxGen /\ 0 \in 0..(MaxGen + 1)
      /\ "" \in {""} \cup Kinds /\ NoJob \in Prints \cup {NoJob}
      /\ -1 \in {-1} \cup 0..MaxGen /\ FALSE \in BOOLEAN
      /\ "none" \in {"none"} \cup Names /\ "fallback" \in Names
  BY StoreAssumption, ServiceAssumption, NoFileSane DEF Sane, Names
<1>2. s \in Services
  BY <1>1, Zenon DEF NewService, Services
<1>3. /\ s.gen = 0 /\ s.machine = m /\ ~s.open /\ ~s.complete /\ s.table = NoFile
      /\ s.writer = NoWriter
  BY DEF NewService
<1> HIDE DEF s
<1>4. Session(d, s, <<>>)
  BY <1>3, NoFileSane DEF Session
<1>5. /\ <<>> \in Seq(Tasks) /\ DOMAIN <<>> = {}
  OBVIOUS
<1>6. Sound(d, s, <<>>, <<>>)
  BY <1>2, <1>4, <1>5 DEF Sound, Single, Lock
<1> QED BY <1>3, <1>6 DEF s

\* The writers of a process that is gone have no owner.
Orphaned(d) == [d EXCEPT !.writers = [w \in Writers |-> [@[w] EXCEPT !.dead = TRUE]]]

LEMMA OrphanedKept ==
    ASSUME NEW d \in Disks, Kept(d)
    PROVE  Orphaned(d) \in Disks /\ Kept(Orphaned(d))
<1> DEFINE Of(v) == [key |-> d.writers[v].key, retired |-> d.writers[v].retired,
                     temp |-> d.writers[v].temp, dead |-> TRUE]
           u == [v \in Writers |-> Of(v)]
           z == [v \in Writers |-> [d.writers[v] EXCEPT !.dead = TRUE]]
           g == Orphaned(d)
<1>1. \A v \in Writers : Of(v) \in WriterRecs /\ [d.writers[v] EXCEPT !.dead = TRUE] = Of(v)
  <2> SUFFICES ASSUME NEW v \in Writers
               PROVE  Of(v) \in WriterRecs /\ [d.writers[v] EXCEPT !.dead = TRUE] = Of(v)
    OBVIOUS
  <2>1. d.writers[v] \in WriterRecs
    BY RecFields
  <2>2. Of(v) \in WriterRecs
    <3>1. TRUE \in BOOLEAN
      OBVIOUS
    <3>2. /\ d.writers[v].key \in Keys /\ d.writers[v].retired \in BOOLEAN
          /\ d.writers[v].temp \in Files
      BY <2>1, Zenon DEF WriterRecs
    <3> QED BY <3>1, <3>2, Zenon DEF WriterRecs
  <2>3. [d.writers[v] EXCEPT !.dead = TRUE] = Of(v)
    <3> DEFINE o == d.writers[v]
    <3>1. o \in WriterRecs
      BY <2>1
    <3> HIDE DEF o
    <3>2. \A b \in BOOLEAN : [o EXCEPT !.dead = b] = [key |-> o.key, retired |-> o.retired,
                                                     temp |-> o.temp, dead |-> b]
      BY <3>1 DEF WriterRecs
    <3>3. TRUE \in BOOLEAN
      OBVIOUS
    <3>4. [o EXCEPT !.dead = TRUE] = [key |-> o.key, retired |-> o.retired,
                                      temp |-> o.temp, dead |-> TRUE]
      BY <3>2, <3>3, Zenon
    <3> QED BY <3>4, Zenon DEF o
  <2> QED BY <2>2, <2>3
<1>2. /\ u \in [Writers -> WriterRecs]
      /\ \A v \in Writers : u[v].key = d.writers[v].key /\ u[v].temp = d.writers[v].temp
  BY <1>1
<1>3. z = u
  BY <1>1
<1>4. g = [d EXCEPT !.writers = z]
  BY DEF Orphaned
<1> HIDE DEF u, z, g
<1>5. g = [final |-> d.final, index |-> d.index, writers |-> u, opened |-> d.opened,
           faults |-> d.faults]
  BY <1>3, <1>4 DEF Disks
<1>6. g \in Disks
  BY <1>2, <1>5 DEF Disks, WriterRecs
<1>7. Kept(g)
  BY <1>2, <1>5 DEF Kept
<1> QED BY <1>6, <1>7 DEF g

LEMMA OverSound ==
    ASSUME IndexInv, Over,
           spent' \in [turns : 0..MaxGen, demands : 0..MaxDemand,
                       unnamed : 0..MaxUnnamed, crashes : 0..MaxCrash]
    PROVE  IndexInv'
<1>1. /\ process' = "booting" /\ svc' = NewService(svc.machine) /\ disk' = Orphaned(disk)
      /\ queue' = <<>> /\ posted' = <<>>
  BY Zenon DEF Over, Orphaned
<1>2. disk \in Disks /\ Kept(disk) /\ svc.machine \in Machines
  BY DEF IndexInv, Sound, Services
<1>3. /\ Sound(disk', svc', queue', posted') /\ svc'.gen = 0 /\ svc'.machine = svc.machine
  BY <1>1, <1>2, OrphanedKept, NewSound
<1>4. Started'
  <2>1. spent'.turns \in Nat
    BY ServiceAssumption
  <2> QED BY <1>1, <1>3, <2>1 DEF Started
<1>5. TypeOK'
  BY <1>1, <1>3 DEF Sound, TypeOK
<1> QED BY <1>3, <1>4, <1>5 DEF IndexInv

LEMMA ExitSound == ASSUME IndexInv, Exit PROVE IndexInv'
BY SameSpent, OverSound DEF Exit

LEMMA CrashSound == ASSUME IndexInv, Crash PROVE IndexInv'
BY Ending, OverSound DEF Crash

LEMMA BootSound == ASSUME IndexInv, Boot PROVE IndexInv'
<1>1. /\ process = "booting" /\ process' = "running"
      /\ UNCHANGED <<svc, disk, queue, posted, spent>>
  BY DEF Boot
<1>2. Sound(disk', svc', queue', posted')
  BY <1>1 DEF IndexInv
<1>3. Started'
  BY <1>1 DEF IndexInv, Started
<1>4. TypeOK'
  BY <1>1 DEF IndexInv, TypeOK
<1> QED BY <1>2, <1>3, <1>4 DEF IndexInv

\* One of two files, of which none is the session's, is the published one now.
LEMMA ChosenSound ==
    ASSUME NEW d, NEW s, NEW q, NEW p, Sound(d, s, q, p), NEW w \in Writers,
           d.writers[w].dead, d.writers[w].key[1] # s.machine,
           NEW f, Sane(f, d.writers[w].key),
           NEW e, e = [d EXCEPT !.final[d.writers[w].key] = f, !.writers[w].temp = NoFile]
    PROVE  Sound(e, s, q, p)
<1> DEFINE k == d.writers[w].key
           g == Final(d, k, f)
<1>1. /\ d \in Disks /\ s \in Services /\ Kept(d) /\ f \in Files /\ k \in Keys
      /\ Sane(NoFile, k) /\ ~Present(NoFile)
  <2>1. d \in Disks
    BY DEF Sound
  <2>2. d.writers[w] \in WriterRecs
    BY <2>1, RecFields
  <2> QED BY <2>2, NoFileSane DEF Sound, Sane, WriterRecs
<1>2. /\ g \in Disks /\ g.writers = d.writers /\ g.opened = d.opened /\ g.faults = d.faults
      /\ g.final[k] = f /\ \A c \in Keys : c # k => g.final[c] = d.final[c]
  BY <1>1, FinalFields
<1>3. e = Temp(g, w, NoFile)
  BY Zenon DEF Temp, Final
<1> HIDE DEF g
<1>4. Kept(g)
  BY <1>1, <1>2 DEF Kept
<1>5. /\ Wear(g, e)
      /\ \A v \in Writers : v # w => e.writers[v] = g.writers[v]
  <2>1. Wear(g, e)
    BY <1>1, <1>2, <1>3, <1>4, TempWear
  <2>2. \A v \in Writers : v # w => e.writers[v] = g.writers[v]
    <3>1. e = With(g, w, Rec(g, w, g.writers[w].retired, NoFile))
      BY <1>2, <1>3, TempIs
    <3>2. g.writers[w].retired \in BOOLEAN
      BY <1>2, RecFields DEF WriterRecs
    <3>3. Rec(g, w, g.writers[w].retired, NoFile) \in WriterRecs
      BY <1>1, <1>2, <3>2, NoFileSane, RecTypes DEF Sane
    <3> QED BY <1>2, <3>1, <3>3, WithFields
  <2> QED BY <2>1, <2>2
<1>6. \A n : <<s.machine, s.job, n>> # k
  OBVIOUS
<1>7. s.job # NoJob => \A n \in Names : <<s.machine, s.job, n>> \in Keys
  BY <1>1 DEF Keys, Services
<1>15. s.job # NoJob => \A n \in Names : e.final[<<s.machine, s.job, n>>]
                                        = d.final[<<s.machine, s.job, n>>]
  BY <1>2, <1>5, <1>6, <1>7 DEF Wear
<1>8. s.job # NoJob => e.final[Key(s)] = d.final[Key(s)]
  BY <1>1, <1>15 DEF Key, Services
<1>9. ASSUME NEW t \in Tasks, Fits(d, s, t), Counts(s, t)
      PROVE  Fits(e, s, t) /\ (Held(d, t) => Held(e, t))
  <2>1. t.writer # NoWriter => t.writer \in Writers /\ t.writer # w
    BY <1>9 DEF Fits, Has
  <2>2. t.writer # NoWriter => e.writers[t.writer] = d.writers[t.writer]
    BY <1>2, <1>5, <2>1
  <2>3. e.opened = d.opened
    BY <1>2, <1>5 DEF Wear
  <2>4. Writing(e, t.writer) <=> Writing(d, t.writer)
    BY <2>2 DEF Writing
  <2>5. t.gen = s.gen /\ t.kind \in Lays => e.final[t.key] = d.final[t.key]
    BY <1>8, <1>9 DEF Counts
  <2>6. Fits(e, s, t)
    BY <1>9, <2>1, <2>2, <2>3, <2>4, <2>5 DEF Fits, Has
  <2>7. Held(d, t) => Held(e, t)
    BY <2>2, <2>4 DEF Held, Writing
  <2> QED BY <2>6, <2>7
<1>10. Session(e, s, p)
  <2>1. Session(d, s, p)
    BY DEF Sound
  <2>2. s.writer # NoWriter => Has(e, s.writer, Key(s))
    <3>1. e.opened = d.opened
      BY <1>2, <1>5 DEF Wear
    <3>2. s.writer # NoWriter => s.writer \in Writers /\ s.writer # w
      BY <2>1 DEF Session, Has
    <3> QED BY <1>2, <1>5, <2>1, <3>1, <3>2 DEF Session, Has
  <2>3. Present(s.table) \/ s.complete => s.job # NoJob
    BY <1>1, <2>1 DEF Session
  <2>4. s.complete => \E n \in {s.name, "fallback"} :
                          AllResolved(e.final[<<s.machine, s.job, n>>])
    <3>1. s.name \in Names /\ "fallback" \in Names
      BY <1>1 DEF Services, Names
    <3> QED BY <1>15, <2>1, <2>3, <3>1 DEF Session
  <2> QED BY <1>8, <2>1, <2>2, <2>3, <2>4 DEF Session
<1>11. Lock(e, q)
  <2>1. \A i \in DOMAIN q : q[i] \in Tasks /\ Fits(d, s, q[i]) /\ Counts(s, q[i])
                            /\ Held(d, q[i]) /\ (i # 1 => q[i].stage = "run")
    BY DEF Sound, Lock
  <2> QED BY <1>9, <2>1 DEF Lock
<1>12. \A i \in DOMAIN q : Fits(e, s, q[i]) /\ Counts(s, q[i])
  <2>1. \A i \in DOMAIN q : q[i] \in Tasks /\ Fits(d, s, q[i]) /\ Counts(s, q[i])
    BY DEF Sound
  <2> QED BY <1>9, <2>1
<1>13. \A i \in DOMAIN p : Counts(s, p[i])
  BY DEF Sound
<1>14. e \in Disks /\ Kept(e)
  BY <1>5 DEF Wear
<1> QED BY <1>10, <1>11, <1>12, <1>13, <1>14 DEF Sound

LEMMA AdoptSound == ASSUME IndexInv, NEW w \in Writers, Adopt(w) PROVE IndexInv'
<1> DEFINE k == disk.writers[w].key
<1>1. /\ process # "closing" /\ UNCHANGED <<process, svc, queue, posted, spent>>
      /\ disk.writers[w].dead /\ (process = "booting" <=> k[1] = svc.machine)
      /\ \E f \in Adopted(disk.final[k], disk.writers[w].temp) :
           disk' = [disk EXCEPT !.final[k] = f, !.writers[w].temp = NoFile]
  BY Zenon DEF Adopt, Left
<1>2. PICK f : /\ f \in {disk.final[k], disk.writers[w].temp}
               /\ disk' = [disk EXCEPT !.final[k] = f, !.writers[w].temp = NoFile]
  BY <1>1 DEF Adopted
<1>3. Sound(disk, svc, queue, posted) /\ disk \in Disks /\ Kept(disk)
  BY DEF IndexInv, Sound
<1>4. k \in Keys
  BY <1>3, RecFields DEF WriterRecs
<1>5. Sane(f, k)
  BY <1>2, <1>3, <1>4 DEF Kept
<1>6. Sound(disk', svc', queue', posted')
  <2>1. CASE process # "booting"
    <3>1. k[1] # svc.machine /\ disk.writers[w].dead
      BY <1>1, <2>1
    <3>2. Sound(disk', svc, queue, posted)
      BY <1>2, <1>3, <1>5, <3>1, ChosenSound
    <3> QED BY <1>1, <3>2
  <2>2. CASE process = "booting"
    <3> DEFINE g == Final(disk, k, f)
    <3>1. /\ g \in Disks /\ g.writers = disk.writers
          /\ g.final[k] = f /\ \A c \in Keys : c # k => g.final[c] = disk.final[c]
      BY <1>3, <1>4, <1>5, FinalFields DEF Sane
    <3>2. disk' = Temp(g, w, NoFile)
      BY <1>2, Zenon DEF Temp, Final
    <3> HIDE DEF g
    <3>3. Kept(g)
      BY <1>3, <1>5, <3>1 DEF Kept
    <3>4. Wear(g, disk')
      BY <3>1, <3>2, <3>3, NoFileSane, TempWear
    <3>5. /\ svc = NewService(svc.machine) /\ queue = <<>> /\ posted = <<>>
          /\ svc.machine \in Machines
      BY <2>2 DEF IndexInv, Started, Sound, Services
    <3>6. Sound(disk', NewService(svc.machine), <<>>, <<>>)
      BY <3>4, <3>5, NewSound DEF Wear
    <3> QED BY <1>1, <3>5, <3>6
  <2> QED BY <2>1, <2>2
<1>7. Started'
  BY <1>1 DEF IndexInv, Started
<1>8. TypeOK'
  BY <1>1, <1>6 DEF Sound, IndexInv, TypeOK
<1> QED BY <1>6, <1>7, <1>8 DEF IndexInv

-----------------------------------------------------------------------------
(* The theorems.                                                           *)

LEMMA InitSound == ASSUME Init PROVE IndexInv
<1> DEFINE one == CHOOSE p \in Prints : TRUE
           rec == [key |-> <<Home, one, "fallback">>, retired |-> FALSE, temp |-> NoFile,
                   dead |-> FALSE]
           f == [k \in Keys |-> NoFile]
           u == [w \in Writers |-> rec]
<1>1. /\ process = "running" /\ svc = NewService(Home) /\ queue = <<>> /\ posted = <<>>
      /\ disk = [final |-> f, index |-> {}, writers |-> u, opened |-> 0, faults |-> 0]
      /\ spent = [turns |-> 0, demands |-> 0, unnamed |-> 0, crashes |-> 0]
  BY Zenon DEF Init
<1>2. one \in Prints /\ Home \in Machines
  BY ServiceAssumption
<1>3. NoFile \in Files /\ \A k : Sane(NoFile, k)
  BY NoFileSane DEF Sane
<1> HIDE DEF one
<1>4. rec \in WriterRecs /\ rec.temp = NoFile
  <2>1. <<Home, one, "fallback">> \in Keys /\ FALSE \in BOOLEAN
    BY <1>2 DEF Keys, Names
  <2>2. rec \in WriterRecs
    BY <1>3, <2>1, Zenon DEF WriterRecs
  <2> QED BY <2>2
<1> HIDE DEF rec
<1>5. /\ f \in [Keys -> Files] /\ u \in [Writers -> WriterRecs]
      /\ (\A k \in Keys : f[k] = NoFile) /\ \A w \in Writers : u[w].temp = NoFile
  BY <1>3, <1>4
<1> HIDE DEF f, u
<1>6. disk \in Disks
  <2>1. 0 \in 0..MaxWriter /\ 0 \in 0..MaxFault
    BY StoreAssumption, ServiceAssumption
  <2> QED BY <1>1, <1>5, <2>1 DEF Disks, WriterRecs
<1>7. Kept(disk)
  BY <1>1, <1>3, <1>5 DEF Kept
<1>8. Sound(disk, svc, queue, posted) /\ svc.gen = 0
  BY <1>1, <1>2, <1>6, <1>7, NewSound
<1>9. spent \in [turns : 0..MaxGen, demands : 0..MaxDemand,
                 unnamed : 0..MaxUnnamed, crashes : 0..MaxCrash]
      /\ spent.turns = 0
  BY <1>1, ServiceAssumption
<1>10. Started
  BY <1>1, <1>8, <1>9 DEF Started
<1>11. TypeOK
  BY <1>1, <1>8, <1>9 DEF TypeOK, Sound
<1> QED BY <1>8, <1>10, <1>11 DEF IndexInv

\* The invariant is inductive.
LEMMA NextSound == ASSUME IndexInv, Next PROVE IndexInv'
<1>1. CASE \E j \in Prints \cup {NoJob} : Bind(j)
  BY <1>1, BindSound
<1>2. CASE \E m \in Machines : Rebind(m)
  BY <1>2, RebindSound
<1>3. CASE \E l \in Layers : Demand(l)
  BY <1>3, DemandSound
<1>4. CASE \E w \in Writers : Adopt(w)
  BY <1>4, AdoptSound
<1>5. CASE Request \/ FileArrives \/ Clear \/ Work \/ Finish
  BY <1>5, RequestSound, FileArrivesSound, ClearSound, WorkSound, FinishSound
<1>7. CASE MetadataFails \/ MetadataComes
  BY <1>7, MetadataFailsSound, MetadataComesSound
<1>6. CASE Close \/ Exit \/ Crash \/ Boot
  BY <1>6, CloseSound, ExitSound, CrashSound, BootSound
<1> QED BY <1>1, <1>2, <1>3, <1>4, <1>5, <1>6, <1>7 DEF Next

LEMMA StutterSound == ASSUME IndexInv, UNCHANGED vars PROVE IndexInv'
<1>1. UNCHANGED <<process, svc, disk, queue, posted, spent>>
  BY DEF vars
<1>2. Sound(disk', svc', queue', posted') /\ TypeOK' /\ Started'
  BY <1>1 DEF IndexInv, TypeOK, Started
<1> QED BY <1>2 DEF IndexInv

LEMMA IndexInvariant == Spec => []IndexInv
<1>1. Init => IndexInv
  BY InitSound
<1>2. IndexInv /\ [Next]_vars => IndexInv'
  BY NextSound, StutterSound
<1> QED BY <1>1, <1>2, PTL DEF Spec

\* Every field of the service, of its session, of the disk and of every work item keeps
\* its type, across bindings, machine switches, clears, faults and restarts.
THEOREM IndexTypeCorrect == Spec => []TypeOK
<1>1. IndexInv => TypeOK
  BY DEF IndexInv
<1> QED BY <1>1, IndexInvariant, PTL

\* append() writes a payload before its slot and publishes by renaming: whenever Cura
\* dies, no file on the disk advertises a layer that is not in it.
THEOREM LayersAreThere == Spec => []FilesAreWhole
<1>1. IndexInv => FilesAreWhole
  <2> SUFFICES ASSUME IndexInv, NEW f \in Onto PROVE Valid(f)
    BY DEF FilesAreWhole
  <2>1. Kept(disk)
    BY DEF IndexInv, Sound
  <2> QED BY <2>1 DEF Onto, Kept, Sane
<1> QED BY <1>1, IndexInvariant, PTL

\* A worker's layers reach a file of its own print and machine or none, whatever was bound,
\* switched, cleared or identified anew while it was preparing them; those prepared under
\* the fallback identity never reach the file of the identity that replaces it.
THEOREM LayersStayHome == Spec => []FilesAreTheirOwn
<1>1. IndexInv => FilesAreTheirOwn
  BY DEF IndexInv, Sound, Kept, Sane, FilesAreTheirOwn
<1> QED BY <1>1, IndexInvariant, PTL

\* A work item whose results still count was given the table of the file that is at the
\* path while it reads there.
THEOREM OffsetsAreTheFiles == Spec => []TablesMatchFiles
<1>1. IndexInv => TablesMatchFiles
  <2> SUFFICES ASSUME IndexInv, NEW i \in 1..Len(queue),
                      queue[i].gen = svc.gen, queue[i].kind \in {"hydrate", "fullprep"},
                      Present(queue[i].table)
               PROVE  queue[i].table.by = disk.final[queue[i].key].by
    BY DEF TablesMatchFiles
  <2>1. i \in DOMAIN queue
    BY DEF IndexInv, Sound
  <2>2. Fits(disk, svc, queue[i])
    BY <2>1 DEF IndexInv, Sound
  <2>3. queue[i].table = disk.final[queue[i].key]
    BY <2>2 DEF Fits, Lays
  <2> QED BY <2>3
<1> QED BY <1>1, IndexInvariant, PTL

\* The pass calls itself complete only when every layer is in a file at the path of the
\* session's identity, or at that of the fallback identity it has replaced.
THEOREM CompleteIsOnTheDisk == Spec => []CompleteMeansPublished
<1>1. IndexInv => CompleteMeansPublished
  BY DEF IndexInv, Sound, Session, CompleteMeansPublished
<1> QED BY <1>1, IndexInvariant, PTL

\* Never two work items of one generation, nor one of the current generation behind a
\* busy flag that is down.
THEOREM WorkIsAlone == Spec => []OneWorkItem
<1>1. IndexInv => OneWorkItem
  <2> SUFFICES ASSUME IndexInv PROVE OneWorkItem
    OBVIOUS
  <2> DEFINE out == queue \o posted
             n == Len(queue)
  <2>1. /\ queue \in Seq(Tasks) /\ posted \in Seq(Tasks) /\ Single(queue, posted)
        /\ \A i \in DOMAIN queue : Counts(svc, queue[i])
        /\ \A i \in DOMAIN posted : Counts(svc, posted[i])
    BY DEF IndexInv, Sound
  <2>2. /\ n \in Nat /\ DOMAIN queue = 1..n /\ Len(posted) \in Nat
        /\ DOMAIN posted = 1..Len(posted)
    BY <2>1
  <2>3. DOMAIN out = 1..(n + Len(posted))
    BY <2>1, <2>2
  <2>4. \A i \in DOMAIN out :
          \/ i \in DOMAIN queue /\ out[i] = queue[i]
          \/ i \notin DOMAIN queue /\ i - n \in DOMAIN posted /\ out[i] = posted[i - n]
    <3> SUFFICES ASSUME NEW i \in DOMAIN out
                 PROVE  \/ i \in DOMAIN queue /\ out[i] = queue[i]
                        \/ /\ i \notin DOMAIN queue /\ i - n \in DOMAIN posted
                           /\ out[i] = posted[i - n]
      OBVIOUS
    <3>1. i \in 1..(n + Len(posted))
      BY <2>3
    <3>2. out[i] = IF i <= n THEN queue[i] ELSE posted[i - n]
      BY <2>1, <3>1, ConcatProperties
    <3> QED BY <2>2, <3>1, <3>2
  <2> HIDE DEF out
  <2>5. ASSUME NEW i \in DOMAIN out, NEW j \in DOMAIN out, out[j].gen = out[i].gen
        PROVE  j = i
    <3>1. i \in Int /\ j \in Int
      BY <2>2, <2>3
    <3>2. CASE i \in DOMAIN queue /\ j \in DOMAIN queue
      BY <2>1, <2>4, <2>5, <3>2 DEF Single
    <3>3. CASE i \notin DOMAIN queue /\ j \notin DOMAIN queue
      <4>1. i - n = j - n
        BY <2>1, <2>4, <2>5, <3>3 DEF Single
      <4> QED BY <2>2, <3>1, <4>1
    <3>4. CASE i \in DOMAIN queue /\ j \notin DOMAIN queue
      BY <2>1, <2>4, <2>5, <3>4 DEF Single
    <3>5. CASE i \notin DOMAIN queue /\ j \in DOMAIN queue
      BY <2>1, <2>4, <2>5, <3>5 DEF Single
    <3> QED BY <3>2, <3>3, <3>4, <3>5
  <2>6. ASSUME NEW i \in DOMAIN out, out[i].gen = svc.gen PROVE svc.busy # ""
    <3>1. Counts(svc, out[i])
      BY <2>1, <2>4
    <3>2. ~Idle(svc)
      BY <2>6, <3>1 DEF Counts
    <3> QED BY <3>2, Zenon DEF Idle
  <2>7. OneWorkItem
    BY <2>5, <2>6, Zenon DEF OneWorkItem, out
  <2> QED BY <2>7
<1> QED BY <1>1, IndexInvariant, PTL

\* What is published of two files that are whole has as many layers as either.
LEMMA TheMost ==
    ASSUME NEW f, NEW t, NEW k, Sane(f, k), Sane(t, k), NEW g \in Adopted(f, t)
    PROVE  /\ Cardinality(Resolved(f)) <= Cardinality(Resolved(g))
           /\ Cardinality(Resolved(t)) <= Cardinality(Resolved(g))
<1>1. /\ Valid(f) /\ Valid(t) /\ (Present(f) \/ Resolved(f) = {})
  BY DEF Sane
<1>2. IsFiniteSet(Layers)
  BY StoreAssumption, FS_Interval DEF Layers
<1>3. ASSUME NEW x
      PROVE  /\ IsFiniteSet(Resolved(x)) /\ Cardinality(Resolved(x)) \in Nat
             /\ Cardinality(Resolved(x)) <= Cardinality(Layers)
  <2>1. Resolved(x) \subseteq Layers
    BY DEF Resolved
  <2>2. IsFiniteSet(Resolved(x)) /\ Cardinality(Resolved(x)) <= Cardinality(Layers)
    BY <1>2, <2>1, FS_Subset
  <2> QED BY <2>2, FS_CardinalityType
<1>4. CASE ~Present(f)
  <2>1. g = t
    BY <1>1, <1>4 DEF Adopted
  <2>2. Cardinality(Resolved(f)) = 0
    BY <1>1, <1>4, FS_EmptySet
  <2> QED BY <1>3, <2>1, <2>2
<1>5. CASE Present(f)
  <2>1. \/ AllResolved(f) /\ g = f
        \/ AllResolved(t) /\ g = t
        \/ Cardinality(Resolved(t)) > Cardinality(Resolved(f)) /\ g = t
        \/ Cardinality(Resolved(f)) > Cardinality(Resolved(t)) /\ g = f
        \/ /\ ~(Cardinality(Resolved(t)) > Cardinality(Resolved(f)))
           /\ ~(Cardinality(Resolved(f)) > Cardinality(Resolved(t)))
           /\ g \in {f, t}
    BY <1>1, <1>5 DEF Adopted
  <2>2. AllResolved(g) => Resolved(g) = Layers
    BY DEF AllResolved
  <2> QED BY <1>3, <2>1, <2>2
<1> QED BY <1>4, <1>5

\* A start after a crash publishes no fewer layers than any file it found had.
THEOREM AdoptionLosesNothing == Spec => AdoptionKeepsTheMost
<1> DEFINE Most(w) ==
             LET k == disk.writers[w].key
                 most(f) == Cardinality(Resolved(f)) <= Cardinality(Resolved(disk'.final[k]))
             IN  Adopt(w) => most(disk.final[k]) /\ most(disk.writers[w].temp)
<1>1. IndexInv => \A w \in Writers : Most(w)
  <2> SUFFICES ASSUME IndexInv, NEW w \in Writers, Adopt(w)
               PROVE  Most(w)
    OBVIOUS
  <2> DEFINE k == disk.writers[w].key
  <2>1. PICK f \in Adopted(disk.final[k], disk.writers[w].temp) :
          disk' = [disk EXCEPT !.final[k] = f, !.writers[w].temp = NoFile]
    BY Zenon DEF Adopt
  <2>2. disk \in Disks /\ Kept(disk)
    BY DEF IndexInv, Sound
  <2>3. k \in Keys
    BY <2>2, RecFields DEF WriterRecs
  <2>4. Sane(disk.final[k], k) /\ Sane(disk.writers[w].temp, k)
    BY <2>2, <2>3 DEF Kept
  <2>5. /\ Cardinality(Resolved(disk.final[k])) <= Cardinality(Resolved(f))
        /\ Cardinality(Resolved(disk.writers[w].temp)) <= Cardinality(Resolved(f))
    BY <2>1, <2>4, TheMost
  <2>6. disk'.final[k] = f
    <3>1. disk'.final = [disk.final EXCEPT ![k] = f]
      BY <2>1, <2>2 DEF Disks
    <3> QED BY <2>2, <2>3, <3>1 DEF Disks
  <2> HIDE DEF k
  <2>7. k = disk.writers[w].key
    BY DEF k
  <2> QED BY <2>5, <2>6, <2>7
<1>2. IndexInv /\ [Next]_vars => [\A w \in Writers : Most(w)]_vars
  BY <1>1
<1>3. [][\A w \in Writers : Most(w)]_vars => AdoptionKeepsTheMost
  BY DEF AdoptionKeepsTheMost
<1> HIDE DEF Most
<1> QED BY <1>2, <1>3, IndexInvariant, PTL DEF Spec
==================================================================================
