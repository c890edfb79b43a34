-------------------------- MODULE StatusFeed_proofs --------------------------
(***************************************************************************)
(* Theorems about StatusFeed, for every set of fields and every bound: the *)
(* type invariant, that a rebind leaves nothing of the last printer, the   *)
(* bookkeeping of the socket and of the coalescer's slot, and that nothing *)
(* shown goes backwards.                                                   *)
(***************************************************************************)
EXTENDS StatusFeed, FiniteSetTheorems, WellFoundedInduction, TLAPS

-----------------------------------------------------------------------------
(* Maxima and ranks.                                                       *)

LessPairs == {p \in Nat \X Nat : p[1] < p[2]}

LEMMA LessPairsWF == IsWellFoundedOn(LessPairs, Nat)
BY NatLessThanWellFounded DEF OpToRel, LessPairs

\* A set of naturals below a bound has a greatest element, and Max is it.
LEMMA Greatest ==
    ASSUME NEW S \in SUBSET Nat, S # {}, NEW b \in Nat, \A s \in S : s <= b
    PROVE  Max(S) \in S /\ \A y \in S : Max(S) >= y
<1> DEFINE T == {t \in Nat : b - t \in S}
<1>1. PICK s \in S : TRUE
  OBVIOUS
<1>2. b - s \in T
  OBVIOUS
<1>3. PICK t \in T : \A u \in T : <<u, t>> \notin LessPairs
  BY <1>2, LessPairsWF, WFMin
<1>4. ASSUME NEW y \in S PROVE b - t >= y
  <2>1. b - y \in T
    OBVIOUS
  <2>2. ~(b - y < t)
    BY <2>1, <1>3 DEF LessPairs
  <2> QED BY <2>2
<1>5. b - t \in S
  OBVIOUS
<1> QED BY <1>4, <1>5 DEF Max

LEMMA PairMax ==
    ASSUME NEW a \in Nat, NEW b \in Nat
    PROVE  /\ Max({a, b}) \in Nat /\ Max({a, b}) \in {a, b}
           /\ Max({a, b}) >= a /\ Max({a, b}) >= b
<1>1. {a, b} \in SUBSET Nat /\ {a, b} # {} /\ a + b \in Nat /\ \A s \in {a, b} : s <= a + b
  OBVIOUS
<1> QED BY <1>1, Greatest

\* Now is later than every stamp.
LEMMA NowType ==
    ASSUME NEW f, f.stamps \in Stamps
    PROVE  /\ Now(f) \in Nat
           /\ f.stamps.http < Now(f) /\ f.stamps.sub < Now(f)
           /\ f.stamps.core < Now(f) /\ f.stamps.applied < Now(f)
<1> DEFINE S == {f.stamps[k] : k \in DOMAIN f.stamps}
           b == f.stamps.http + f.stamps.sub + f.stamps.core + f.stamps.applied
<1>1. DOMAIN f.stamps = {"http", "sub", "core", "applied"}
  BY DEF Stamps
<1>2. S = {f.stamps.http, f.stamps.sub, f.stamps.core, f.stamps.applied}
  BY <1>1
<1>3. /\ f.stamps.http \in Nat /\ f.stamps.sub \in Nat
      /\ f.stamps.core \in Nat /\ f.stamps.applied \in Nat
  BY DEF Stamps
<1>4. S \in SUBSET Nat /\ S # {} /\ b \in Nat /\ \A s \in S : s <= b
  <2> HIDE DEF S
  <2> QED BY <1>2, <1>3
<1>5. Max(S) \in S /\ \A y \in S : Max(S) >= y
  <2> HIDE DEF S, b
  <2> QED BY <1>4, Greatest
<1>6. Now(f) = 1 + Max(S)
  BY DEF Now
<1> HIDE DEF S
<1> QED BY <1>2, <1>3, <1>5, <1>6

LEMMA RankedType == ASSUME NEW stamps \in Stamps PROVE Ranked(stamps) \in Stamps
<1> DEFINE V == {stamps[j] : j \in DOMAIN stamps}
<1>1. DOMAIN stamps = {"http", "sub", "core", "applied"}
  BY DEF Stamps
<1>2. ASSUME NEW k \in DOMAIN stamps PROVE Cardinality(V \cap 1 .. stamps[k]) \in Nat
  <2>1. stamps[k] \in Nat
    BY <1>1 DEF Stamps
  <2>2. IsFiniteSet(1 .. stamps[k])
    BY <2>1, FS_Interval
  <2>3. IsFiniteSet(V \cap 1 .. stamps[k])
    BY <2>2, FS_Subset
  <2> QED BY <2>3, FS_CardinalityType
<1> HIDE DEF V
<1>3. Ranked(stamps) = [k \in DOMAIN stamps |-> Cardinality(V \cap 1 .. stamps[k])]
  BY DEF Ranked, V
<1> QED BY <1>1, <1>2, <1>3 DEF Stamps

LEMMA MergedType ==
    ASSUME NEW old \in Statuses, NEW patch \in Statuses
    PROVE  Merged(old, patch) \in Statuses
BY DEF Merged, Statuses

LEMMA NothingType == Nothing \in Statuses
BY BoundsAssumption DEF Nothing, Statuses, Versions

-----------------------------------------------------------------------------
(* What every function of the feed keeps.  Beside the types: a socket is   *)
(* kept only by a feed that runs on the websocket and was configured to,   *)
(* and only an upgraded one carries anything; and nothing is older than    *)
(* this printer's first version.                                           *)

Wanted(f) ==
    /\ f.link # "none" \/ f.core # Nothing => f.mode = "websocket" /\ f.configured = "websocket"
    /\ f.enabled /\ f.configured = "http" => f.mode = "http"
    /\ f.link # "upgraded" => f.asks = 0 /\ f.subscribed = FALSE /\ f.down = <<>>

Slotted(f) == (f.slot # "free") <=> (f.http.at # "none")

Own(status, bound) == \A x \in Fields : status[x] = 0 \/ status[x] >= bound

Carries(message, bound) ==
    message.kind \in {"patch", "sync"} => Own(message.status, bound)

Clean(f, bound) ==
    /\ Own(f.snap, bound) /\ Own(f.core, bound) /\ Own(f.http.status, bound)
    /\ \A i \in 1 .. Len(f.down) : Carries(f.down[i], bound)

Fit(f, bound) == f \in Feeds /\ Wanted(f) /\ Slotted(f) /\ Clean(f, bound)

LEMMA OwnNothing == ASSUME NEW bound PROVE Own(Nothing, bound)
BY DEF Own, Nothing

LEMMA OwnMerged ==
    ASSUME NEW old \in Statuses, NEW patch \in Statuses, NEW bound,
           Own(old, bound), Own(patch, bound)
    PROVE  Own(Merged(old, patch), bound)
BY DEF Own, Merged

LEMMA SilentLink == <<>> \in Seq(Messages)
OBVIOUS

LEMMA RequestTypes ==
    /\ NoRequest \in Requests
    /\ NoRequest.at = "none" /\ NoRequest.status = Nothing
BY NothingType DEF NoRequest, Requests

LEMMA UnlinkedFit ==
    ASSUME NEW f, NEW bound, Fit(f, bound), NEW link \in {"none", "dead"},
           (f.mode = "websocket" /\ f.configured = "websocket") \/ link = "none"
    PROVE  Fit(Unlinked(f, link), bound)
<1>1. Unlinked(f, link) \in Feeds
  BY SilentLink DEF Fit, Feeds, Unlinked, Links
<1>2. Wanted(Unlinked(f, link)) /\ Slotted(Unlinked(f, link))
  BY DEF Fit, Feeds, Unlinked, Wanted, Slotted
<1>3. Clean(Unlinked(f, link), bound)
  BY DEF Fit, Feeds, Unlinked, Clean
<1> QED BY <1>1, <1>2, <1>3 DEF Fit

LEMMA SocketStoppedFit ==
    ASSUME NEW f, NEW bound, Fit(f, bound)
    PROVE  /\ Fit(SocketStopped(f), bound)
           /\ SocketStopped(f).link = "none" /\ SocketStopped(f).core = Nothing
           /\ SocketStopped(f).mode = f.mode /\ SocketStopped(f).configured = f.configured
           /\ SocketStopped(f).enabled = f.enabled
<1> DEFINE g == SocketStopped(f)
<1>1. g = [f EXCEPT !.link = "none", !.asks = 0, !.subscribed = FALSE, !.denied = FALSE,
                    !.down = <<>>, !.core = Nothing, !.stamps.core = 0]
  BY DEF Unlinked, SocketStopped
<1> HIDE DEF g
<1>2. g \in Feeds
  BY <1>1, NothingType, SilentLink DEF Fit, Feeds, Links, Stamps
<1>3. Wanted(g) /\ Slotted(g)
  BY <1>1 DEF Fit, Feeds, Wanted, Slotted
<1>4. Clean(g, bound)
  BY <1>1, OwnNothing DEF Fit, Feeds, Clean
<1>5. /\ g.link = "none" /\ g.core = Nothing /\ g.mode = f.mode
      /\ g.configured = f.configured /\ g.enabled = f.enabled
  BY <1>1 DEF Fit, Feeds
<1> QED BY <1>2, <1>3, <1>4, <1>5 DEF Fit, g

\* The websocket is the mode a feed runs on and was configured to.
OnSocket(f) == f.mode = "websocket" /\ f.configured = "websocket"

LEMMA SocketStartedFit ==
    ASSUME NEW f, NEW bound, Fit(f, bound), OnSocket(f)
    PROVE  Fit(SocketStarted(f), bound)
<1> DEFINE g == SocketStopped(f)
<1>1. Fit(g, bound) /\ OnSocket(g) /\ g.link = "none"
  BY SocketStoppedFit DEF OnSocket
<1>2. SocketStarted(f) = [g EXCEPT !.link = "connecting", !.proof = TRUE]
  BY DEF SocketStarted
<1> HIDE DEF g
<1>3. SocketStarted(f) \in Feeds
  BY <1>1, <1>2 DEF Fit, Feeds, Links
<1>4. Wanted(SocketStarted(f)) /\ Slotted(SocketStarted(f))
  <2>1. /\ SocketStarted(f).mode = "websocket" /\ SocketStarted(f).configured = "websocket"
        /\ SocketStarted(f).slot = g.slot /\ SocketStarted(f).http = g.http
        /\ SocketStarted(f).asks = g.asks /\ SocketStarted(f).subscribed = g.subscribed
        /\ SocketStarted(f).down = g.down
    BY <1>1, <1>2 DEF Fit, Feeds, OnSocket
  <2>2. g.asks = 0 /\ g.subscribed = FALSE /\ g.down = <<>>
    BY <1>1 DEF Fit, Wanted
  <2>3. Wanted(SocketStarted(f))
    BY <2>1, <2>2 DEF Wanted
  <2>4. Slotted(SocketStarted(f))
    BY <1>1, <2>1 DEF Fit, Slotted
  <2> QED BY <2>3, <2>4
<1>5. Clean(SocketStarted(f), bound)
  BY <1>1, <1>2 DEF Fit, Feeds, Clean
<1> QED BY <1>3, <1>4, <1>5 DEF Fit

LEMMA SubscribedFit ==
    ASSUME NEW f, NEW bound, Fit(f, bound)
    PROVE  Fit(Subscribed(f), bound)
<1>1. Now(f) \in Nat
  BY NowType DEF Fit, Feeds
<1> DEFINE g == [f EXCEPT !.asks = @ + 1, !.stamps.sub = Now(f)]
<1>2. g \in Feeds
  <2>1. f \in Feeds /\ f.asks + 1 \in Nat /\ [f.stamps EXCEPT !.sub = Now(f)] \in Stamps
    BY <1>1 DEF Fit, Feeds, Stamps
  <2>2. g = [f EXCEPT !.asks = f.asks + 1, !.stamps = [f.stamps EXCEPT !.sub = Now(f)]]
    BY <2>1 DEF Feeds
  <2> QED BY <2>1, <2>2 DEF Feeds
<1>3. /\ g.link = f.link /\ g.core = f.core /\ g.mode = f.mode
      /\ g.configured = f.configured /\ g.enabled = f.enabled
      /\ g.slot = f.slot /\ g.http = f.http /\ g.snap = f.snap /\ g.down = f.down
  BY DEF Fit, Feeds
<1>4. Subscribed(f) = IF f.link = "upgraded" THEN g ELSE f
  BY DEF Subscribed
<1> HIDE DEF g
<1>5. f.link = "upgraded" => Wanted(g) /\ Slotted(g)
  BY <1>3 DEF Fit, Wanted, Slotted
<1>6. Clean(g, bound)
  BY <1>3 DEF Fit, Clean
<1> QED BY <1>2, <1>4, <1>5, <1>6 DEF Fit

LEMMA AccumulatedFit ==
    ASSUME NEW f, NEW bound, Fit(f, bound), OnSocket(f),
           NEW patch \in Statuses, Own(patch, bound)
    PROVE  Fit(Accumulated(f, patch), bound)
<1>1. Now(f) \in Nat
  BY NowType DEF Fit, Feeds
<1>2. Merged(f.core, patch) \in Statuses /\ Own(Merged(f.core, patch), bound)
  BY MergedType, OwnMerged DEF Fit, Feeds, Clean
<1> QED BY <1>1, <1>2 DEF Fit, Feeds, Stamps, Wanted, Slotted, Clean, Accumulated, OnSocket

LEMMA VerdictsFit ==
    ASSUME NEW f, NEW bound, Fit(f, bound)
    PROVE  /\ Fit(Succeeded(f), bound) /\ Fit(Failed(f), bound)
           /\ \A g \in {Succeeded(f), Failed(f)} :
                 /\ g.link = f.link /\ g.core = f.core /\ g.mode = f.mode
                 /\ g.configured = f.configured /\ g.slot = f.slot /\ g.http = f.http
<1>1. Succeeded(f) \in Feeds /\ Failed(f) \in Feeds
  BY DEF Fit, Feeds, Backoffs, Succeeded, Failed
<1> QED BY <1>1 DEF Fit, Feeds, Wanted, Slotted, Clean, Succeeded, Failed

LEMMA AdmittedFit ==
    ASSUME NEW f, NEW bound, Fit(f, bound), NEW origin,
           NEW status \in Statuses, Own(status, bound), NEW stamp \in Nat
    PROVE  /\ Fit(Admitted(f, origin, status, stamp), bound)
           /\ Admitted(f, origin, status, stamp).slot = f.slot
           /\ Admitted(f, origin, status, stamp).http = f.http
<1> DEFINE g == [f EXCEPT !.snap = Merged(@, status),
                          !.stamps.applied = Max({@, stamp})]
<1>1. /\ Merged(f.snap, status) \in Statuses /\ Own(Merged(f.snap, status), bound)
      /\ Max({f.stamps.applied, stamp}) \in Nat
  BY MergedType, OwnMerged, PairMax DEF Fit, Feeds, Stamps, Clean
<1>2. Fit(g, bound) /\ g.slot = f.slot /\ g.http = f.http
  BY <1>1 DEF Fit, Feeds, Stamps, Wanted, Slotted, Clean
<1> HIDE DEF g
<1>3. Admitted(f, origin, status, stamp) \in {f, Succeeded(g)}
  BY DEF Admitted, g
<1> QED BY <1>2, <1>3, VerdictsFit

LEMMA DrainedFit ==
    ASSUME NEW f, NEW bound, Fit(f, bound), OnSocket(f)
    PROVE  Fit(Drained(f), bound)
<1> DEFINE g == [f EXCEPT !.core = Nothing, !.stamps.core = 0]
<1>1. Fit(g, bound)
  BY NothingType, OwnNothing DEF Fit, Feeds, Stamps, Wanted, Slotted, Clean
<1>2. Fit(Admitted(g, "fragment", f.core, f.stamps.core), bound)
  <2>1. f.core \in Statuses /\ Own(f.core, bound) /\ f.stamps.core \in Nat
    BY DEF Fit, Feeds, Stamps, Clean
  <2> QED BY <1>1, <2>1, AdmittedFit
<1>3. Fit(SocketStarted(f), bound)
  BY SocketStartedFit
<1>4. Drained(f) \in {Admitted(g, "fragment", f.core, f.stamps.core), SocketStarted(f), f}
  BY DEF Drained
<1> QED BY <1>2, <1>3, <1>4

LEMMA PolledFit ==
    ASSUME NEW f, NEW bound, Fit(f, bound), NEW force \in BOOLEAN
    PROVE  Fit(Polled(f, force), bound)
<1> DEFINE g == [f EXCEPT !.slot = "taken", !.stamps.http = Now(f),
                          !.http = [at |-> "asked", status |-> Nothing]]
           h == [f EXCEPT !.slot = "forced"]
<1>1. Now(f) \in Nat
  BY NowType DEF Fit, Feeds
<1>2. [at |-> "asked", status |-> Nothing] \in Requests
  BY NothingType DEF Requests
<1>3. Fit(g, bound)
  BY <1>1, <1>2, OwnNothing DEF Fit, Feeds, Slots, Stamps, Wanted, Slotted, Clean
<1>4. f.slot # "free" => Fit(h, bound)
  BY DEF Fit, Feeds, Slots, Wanted, Slotted, Clean
<1>5. \/ Polled(f, force) = g \/ Polled(f, force) = f
      \/ f.slot # "free" /\ Polled(f, force) = h
  <2>1. CASE f.slot = "free"
    BY <2>1 DEF Polled
  <2>2. CASE f.slot = "taken" /\ force
    BY <2>2 DEF Polled
  <2>3. CASE f.slot # "free" /\ ~(f.slot = "taken" /\ force)
    BY <2>3 DEF Polled
  <2> QED BY <2>1, <2>2, <2>3
<1> QED BY <1>3, <1>4, <1>5

LEMMA RefreshedFit ==
    ASSUME NEW f, NEW bound, Fit(f, bound), NEW force \in BOOLEAN
    PROVE  Fit(Refreshed(f, force), bound)
<1>1. f.enabled /\ f.mode = "websocket" => OnSocket(f)
  <2>1. f.configured \in Modes
    BY DEF Fit, Feeds
  <2>2. f.enabled /\ f.configured = "http" => f.mode = "http"
    BY DEF Fit, Wanted
  <2> QED BY <2>1, <2>2 DEF Modes, OnSocket
<1>2. CASE ~f.enabled \/ f.backoff = "waiting"
  BY <1>2 DEF Refreshed
<1>3. CASE ~(~f.enabled \/ f.backoff = "waiting") /\ f.mode = "websocket"
  BY <1>1, <1>3, DrainedFit DEF Refreshed
<1>4. CASE ~(~f.enabled \/ f.backoff = "waiting") /\ f.mode # "websocket"
  BY <1>4, PolledFit DEF Refreshed
<1> QED BY <1>2, <1>3, <1>4

LEMMA DegradedFit ==
    ASSUME NEW f, NEW bound, Fit(f, bound)
    PROVE  Fit(Degraded(f), bound)
<1> DEFINE g == SocketStopped(f)
           h == [g EXCEPT !.mode = "http", !.proof = FALSE]
<1>1. Fit(g, bound) /\ g.link = "none" /\ g.core = Nothing
  BY SocketStoppedFit
<1> HIDE DEF g
<1>2. h \in Feeds
  BY <1>1 DEF Fit, Feeds, Modes
<1>3. Wanted(h) /\ Slotted(h) /\ Clean(h, bound)
  BY <1>1 DEF Fit, Feeds, Wanted, Slotted, Clean
<1>4. Fit(h, bound)
  BY <1>2, <1>3 DEF Fit
<1>5. Degraded(f) = Refreshed(h, TRUE)
  BY DEF Degraded, g
<1> QED BY <1>4, <1>5, RefreshedFit

LEMMA StoppedFit ==
    ASSUME NEW f, NEW bound, Fit(f, bound)
    PROVE  /\ Fit(Stopped(f), bound)
           /\ ~Stopped(f).enabled /\ Stopped(f).http = NoRequest
<1> DEFINE g == SocketStopped(f)
           h == [g EXCEPT !.enabled = FALSE, !.proof = FALSE, !.queued = FALSE,
                          !.backoff = "clear", !.connected = FALSE, !.slot = "free",
                          !.http = NoRequest, !.stamps.http = 0]
<1>1. Fit(g, bound) /\ g.link = "none" /\ g.core = Nothing
  BY SocketStoppedFit
<1>2. Stopped(f) = h
  BY DEF Stopped
<1> HIDE DEF g
<1>3. h \in Feeds
  BY <1>1, RequestTypes DEF Fit, Feeds, Backoffs, Slots, Stamps
<1>4. /\ h.link = "none" /\ h.core = Nothing /\ ~h.enabled /\ h.http = NoRequest
      /\ h.slot = "free" /\ h.snap = g.snap /\ h.down = g.down
      /\ h.asks = g.asks /\ h.subscribed = g.subscribed
  BY <1>1 DEF Fit, Feeds
<1> HIDE DEF h
<1>5. Wanted(h) /\ Slotted(h)
  BY <1>1, <1>4, RequestTypes DEF Fit, Wanted, Slotted
<1>6. Clean(h, bound)
  BY <1>1, <1>4, RequestTypes, OwnNothing DEF Fit, Clean
<1> QED BY <1>2, <1>3, <1>4, <1>5, <1>6 DEF Fit

\* A session reset forgets everything of a printer but a request still out.
LEMMA SessionResetFit ==
    ASSUME NEW f, NEW bound, Fit(f, bound), ~f.enabled, f.http = NoRequest,
           NEW mode \in Modes, NEW later
    PROVE  /\ Fit(SessionReset(f, mode), bound) /\ Fit(SessionReset(f, mode), later)
           /\ ~SessionReset(f, mode).enabled
           /\ SessionReset(f, mode).configured = mode
           /\ SessionReset(f, mode).link = "none" /\ SessionReset(f, mode).core = Nothing
<1> DEFINE g == SocketStopped(f)
           h == [g EXCEPT !.configured = mode, !.snap = Nothing]
<1>1. /\ Fit(g, bound) /\ g.link = "none" /\ g.core = Nothing /\ ~g.enabled
      /\ g.down = <<>> /\ g.http = NoRequest /\ g.slot = f.slot
  BY SocketStoppedFit DEF Fit, Feeds, Unlinked, SocketStopped
<1>2. SessionReset(f, mode) = h
  BY DEF SessionReset
<1> HIDE DEF g
<1>3. h \in Feeds
  BY <1>1, NothingType DEF Fit, Feeds
<1>4. /\ h.link = "none" /\ h.core = Nothing /\ ~h.enabled /\ h.http = NoRequest
      /\ h.slot = g.slot /\ h.snap = Nothing /\ h.down = <<>> /\ h.configured = mode
      /\ h.asks = g.asks /\ h.subscribed = g.subscribed
  BY <1>1 DEF Fit, Feeds
<1> HIDE DEF h
<1>5. Wanted(h) /\ Slotted(h)
  BY <1>1, <1>4 DEF Fit, Wanted, Slotted
<1>6. Clean(h, bound) /\ Clean(h, later)
  BY <1>4, RequestTypes, OwnNothing DEF Clean
<1> QED BY <1>2, <1>3, <1>4, <1>5, <1>6 DEF Fit

LEMMA StartedFit ==
    ASSUME NEW f, NEW bound, Fit(f, bound)
    PROVE  Fit(Started(f), bound)
<1> DEFINE g == [f EXCEPT !.enabled = TRUE, !.backoff = "clear",
                          !.mode = f.configured, !.stamps.applied = 0]
<1>1. Fit(g, bound) /\ g.mode = f.configured /\ g.configured = f.configured
  <2>1. g \in Feeds
    BY DEF Fit, Feeds, Backoffs, Stamps
  <2>2. Wanted(g) /\ Slotted(g) /\ Clean(g, bound)
    BY DEF Fit, Feeds, Wanted, Slotted, Clean
  <2> QED BY <2>1, <2>2 DEF Fit, Feeds
<1>2. Started(f) = IF f.enabled THEN f
                   ELSE IF f.configured = "websocket" THEN SocketStarted(g)
                   ELSE Refreshed(g, TRUE)
  BY DEF Started
<1> HIDE DEF g
<1> QED BY <1>1, <1>2, SocketStartedFit, RefreshedFit DEF OnSocket

\* A rebind to another printer leaves a feed that fits the new one.
LEMMA ConfiguredFit ==
    ASSUME NEW f, NEW bound, Fit(f, bound), NEW mode \in Modes, NEW moved \in BOOLEAN,
           NEW later, moved \/ later = bound
    PROVE  Fit(Configured(f, mode, moved), later)
<1> DEFINE b == SessionReset(Stopped(f), mode)
           n == IF moved \/ mode # f.configured THEN b ELSE f
           x == [n EXCEPT !.mode = mode]
<1>1. /\ Fit(b, later) /\ ~b.enabled /\ b.configured = mode
      /\ b.link = "none" /\ b.core = Nothing
  BY StoppedFit, SessionResetFit
<1> HIDE DEF b
<1>2. Fit(n, later) /\ n.configured = mode
  BY <1>1
<1> HIDE DEF n
<1>3. Fit(x, later)
  <2>1. x \in Feeds
    BY <1>2 DEF Fit, Feeds
  <2>2. Wanted(x) /\ Slotted(x) /\ Clean(x, later)
    BY <1>2 DEF Fit, Feeds, Wanted, Slotted, Clean
  <2> QED BY <2>1, <2>2 DEF Fit
<1>4. Configured(f, mode, moved) \in {Started(x), x}
  BY DEF Configured, n, b
<1> HIDE DEF x
<1> QED BY <1>3, <1>4, StartedFit

-----------------------------------------------------------------------------
(* The printer, and the steps.                                             *)

PrinterFit ==
    /\ \A x \in Fields : printer.status[x] >= printer.bound
    /\ printer.klippy = "down" => Newest < MaxVersion

FeedInv == TypeOK /\ PrinterFit /\ Fit(feed, printer.bound)

LEMMA NewestIs ==
    ASSUME printer \in Printers
    PROVE  Newest \in Versions /\ \A x \in Fields : Newest >= printer.status[x]
<1> DEFINE S == {printer.status[x] : x \in Fields}
<1>1. S \in SUBSET Versions /\ S # {}
  BY FieldsAssumption DEF Printers, Statuses
<1>2. S \in SUBSET Nat /\ MaxVersion \in Nat /\ \A s \in S : s <= MaxVersion
  BY <1>1, BoundsAssumption DEF Versions
<1>3. \A x \in Fields : printer.status[x] \in S
  OBVIOUS
<1>4. Max(S) \in S /\ \A y \in S : Max(S) >= y
  <2> HIDE DEF S
  <2> QED BY <1>1, <1>2, Greatest
<1>5. Newest = Max(S)
  BY DEF Newest
<1> HIDE DEF S
<1> QED BY <1>1, <1>3, <1>4, <1>5

LEMMA BecomesFit ==
    ASSUME NEW f, NEW bound, Fit(f, bound), Becomes(f)
    PROVE  Fit(feed', bound) /\ relics' \in SUBSET Fields
<1>1. Ranked(f.stamps) \in Stamps
  BY RankedType DEF Fit, Feeds
<1> DEFINE g == [f EXCEPT !.stamps = Ranked(f.stamps)]
<1>2. Fit(g, bound)
  BY <1>1 DEF Fit, Feeds, Wanted, Slotted, Clean
<1>3. feed' = g /\ relics' \in SUBSET Fields
  BY DEF Becomes
<1> QED BY <1>2, <1>3

LEMMA BudgetType ==
    ASSUME TypeOK, Act \/ Fault \/ UNCHANGED budget
    PROVE  budget' \in [faults : 0 .. MaxFaults, acts : 0 .. MaxActs, restarts : 0 .. MaxRestarts]
BY BoundsAssumption DEF TypeOK, Act, Fault

\* A step that leaves the printer alone keeps what its feed keeps.
LEMMA QuietStep ==
    ASSUME FeedInv, UNCHANGED printer, Act \/ Fault \/ UNCHANGED budget,
           NEW f, Fit(f, printer.bound), Becomes(f)
    PROVE  FeedInv'
<1>1. Fit(feed', printer.bound) /\ relics' \in SUBSET Fields
  BY BecomesFit
<1>2. budget' \in [faults : 0 .. MaxFaults, acts : 0 .. MaxActs, restarts : 0 .. MaxRestarts]
  BY BudgetType DEF FeedInv
<1>3. TypeOK'
  BY <1>1, <1>2 DEF TypeOK, FeedInv, Fit
<1>4. PrinterFit'
  BY DEF FeedInv, PrinterFit, Newest
<1>5. Fit(feed, printer.bound)'
  BY <1>1 DEF Fit, Wanted, Slotted, Clean, Own, Carries, Feeds
<1> QED BY <1>3, <1>4, <1>5 DEF FeedInv

LEMMA InitFit == Init => FeedInv
<1> SUFFICES ASSUME Init PROVE FeedInv
  OBVIOUS
<1>1. printer \in Printers
  BY BoundsAssumption DEF Init, Printers, Statuses, Versions
<1>2. feed \in Feeds
  BY NothingType, RequestTypes, SilentLink
     DEF Init, Feeds, Modes, Backoffs, Slots, Links, Stamps, NoStamps
<1>3. budget \in [faults : 0 .. MaxFaults, acts : 0 .. MaxActs, restarts : 0 .. MaxRestarts]
  BY BoundsAssumption DEF Init
<1>4. PrinterFit
  BY DEF Init, PrinterFit
<1>5. Wanted(feed) /\ Slotted(feed)
  BY RequestTypes DEF Init, Wanted, Slotted
<1>6. Clean(feed, printer.bound)
  BY RequestTypes, OwnNothing DEF Init, Clean
<1> QED BY <1>1, <1>2, <1>3, <1>4, <1>5, <1>6 DEF FeedInv, TypeOK, Fit, Init

-----------------------------------------------------------------------------
(* The steps that leave the printer alone.                                 *)

LEMMA OwnersFit ==
    ASSUME FeedInv,
           \/ Start \/ \E reset \in BOOLEAN : Stop(reset)
           \/ Resubscribe \/ ForceRefresh
    PROVE  FeedInv'
<1>1. Fit(feed, printer.bound)
  BY DEF FeedInv
<1>2. CASE Start
  BY <1>1, <1>2, StartedFit, QuietStep DEF Start
<1>3. ASSUME NEW reset \in BOOLEAN, Stop(reset) PROVE FeedInv'
  <2> DEFINE f == IF reset THEN SessionReset(Stopped(feed), "http") ELSE Stopped(feed)
  <2>1. "http" \in Modes
    BY DEF Modes
  <2>2. Fit(f, printer.bound)
    BY <1>1, <2>1, StoppedFit, SessionResetFit
  <2>3. Becomes(f) /\ Act /\ UNCHANGED printer
    BY <1>3 DEF Stop
  <2> HIDE DEF f
  <2> QED BY <2>2, <2>3, QuietStep
<1>4. CASE Resubscribe
  BY <1>1, <1>4, SubscribedFit, QuietStep DEF Resubscribe
<1>5. CASE ForceRefresh
  BY <1>1, <1>5, RefreshedFit, QuietStep DEF ForceRefresh
<1> QED BY <1>2, <1>3, <1>4, <1>5

LEMMA ClocksFit == ASSUME FeedInv, Clocks PROVE FeedInv'
<1>1. Fit(feed, printer.bound)
  BY DEF FeedInv
<1>2. CASE Tick
  BY <1>1, <1>2, RefreshedFit, QuietStep DEF Tick
<1>3. CASE QueuedRefresh
  <2> DEFINE f == [feed EXCEPT !.queued = FALSE]
  <2>1. Fit(f, printer.bound)
    BY <1>1 DEF Fit, Feeds, Wanted, Slotted, Clean
  <2>2. Becomes(Refreshed(f, TRUE)) /\ UNCHANGED <<printer, budget>>
    BY <1>3 DEF QueuedRefresh
  <2> HIDE DEF f
  <2> QED BY <2>1, <2>2, RefreshedFit, QuietStep
<1>4. CASE BackoffOver
  <2> DEFINE f == [feed EXCEPT !.backoff = "due"]
  <2>1. Fit(f, printer.bound)
    BY <1>1 DEF Fit, Feeds, Backoffs, Wanted, Slotted, Clean
  <2>2. Becomes(f) /\ UNCHANGED <<printer, budget>>
    BY <1>4 DEF BackoffOver
  <2> HIDE DEF f
  <2> QED BY <2>1, <2>2, QuietStep
<1>5. CASE ProofTimer
  <2> DEFINE over == [feed EXCEPT !.proof = FALSE]
             f    == IF feed.mode = "websocket" /\ feed.stamps.applied = 0
                     THEN Degraded(over) ELSE over
  <2>1. Fit(over, printer.bound)
    BY <1>1 DEF Fit, Feeds, Wanted, Slotted, Clean
  <2>2. Becomes(f) /\ UNCHANGED <<printer, budget>>
    BY <1>5 DEF ProofTimer
  <2> HIDE DEF over
  <2>3. Fit(f, printer.bound)
    BY <2>1, DegradedFit
  <2> HIDE DEF f
  <2> QED BY <2>2, <2>3, QuietStep
<1> QED BY <1>2, <1>3, <1>4, <1>5 DEF Clocks

\* A link that connects or is up belongs to a feed that wants the websocket.
LEMMA LiveLink ==
    ASSUME NEW f, NEW bound, Fit(f, bound)
    PROVE  /\ f.link # "none" => OnSocket(f)
           /\ f.down # <<>> \/ f.asks # 0 \/ f.subscribed => f.link = "upgraded"
BY DEF Fit, Wanted, OnSocket

LEMMA ReadFit ==
    ASSUME NEW f, NEW bound, Fit(f, bound), f.down # <<>>
    PROVE  /\ Fit([f EXCEPT !.down = Tail(@)], bound)
           /\ Head(f.down) \in Messages /\ Carries(Head(f.down), bound)
<1> DEFINE g == [f EXCEPT !.down = Tail(@)]
<1>1. f.down \in Seq(Messages) /\ \A i \in 1 .. Len(f.down) : Carries(f.down[i], bound)
  BY DEF Fit, Feeds, Clean
<1>2. Head(f.down) = f.down[1] /\ Len(f.down) > 0
  BY <1>1
<1>3. /\ Tail(f.down) \in Seq(Messages) /\ Len(Tail(f.down)) = Len(f.down) - 1
      /\ \A i \in 1 .. Len(Tail(f.down)) : Tail(f.down)[i] = f.down[i + 1]
  BY <1>1
<1>4. \A i \in 1 .. Len(Tail(f.down)) : Carries(Tail(f.down)[i], bound)
  <2>1. ASSUME NEW i \in 1 .. Len(Tail(f.down)) PROVE Carries(Tail(f.down)[i], bound)
    <3>1. i + 1 \in 1 .. Len(f.down) /\ Tail(f.down)[i] = f.down[i + 1]
      BY <1>1, <1>3
    <3> QED BY <1>1, <3>1
  <2> QED BY <2>1
<1>5. g \in Feeds
  BY <1>3 DEF Fit, Feeds
<1>6. /\ g.link = f.link /\ g.core = f.core /\ g.mode = f.mode
      /\ g.configured = f.configured /\ g.enabled = f.enabled /\ g.asks = f.asks
      /\ g.subscribed = f.subscribed /\ g.slot = f.slot /\ g.http = f.http
      /\ g.snap = f.snap /\ g.down = Tail(f.down)
  BY DEF Fit, Feeds
<1> HIDE DEF g
<1>7. Wanted(g) /\ Slotted(g)
  BY <1>6 DEF Fit, Wanted, Slotted
<1>8. Clean(g, bound)
  BY <1>4, <1>6 DEF Fit, Clean
<1>9. Head(f.down) \in Messages /\ Carries(Head(f.down), bound)
  BY <1>1, <1>2
<1> QED BY <1>5, <1>7, <1>8, <1>9 DEF Fit, g

LEMMA DeliverFit == ASSUME FeedInv, Deliver PROVE FeedInv'
<1> DEFINE message == Head(feed.down)
           read    == [feed EXCEPT !.down = Tail(@)]
<1>1. Fit(feed, printer.bound) /\ feed.down # <<>>
  BY DEF FeedInv, Deliver
<1>2. /\ Fit(read, printer.bound) /\ message \in Messages
      /\ Carries(message, printer.bound)
  BY <1>1, ReadFit
<1>3. OnSocket(read)
  <2>1. OnSocket(feed)
    BY <1>1, LiveLink
  <2> QED BY <1>1, <2>1 DEF OnSocket, Fit, Feeds
<1>4. /\ UNCHANGED <<printer, budget>>
      /\ Becomes(CASE message.kind = "patch"   -> Accumulated(read, message.status)
                   [] message.kind = "sync"    -> Admitted(read, "sync", message.status, read.stamps.sub)
                   [] message.kind = "refused" -> Degraded(read)
                   [] message.kind = "denied"  -> Failed(read)
                   [] message.kind = "ready"   -> Subscribed(read)
                   [] message.kind = "lost"    -> Failed(read))
  BY DEF Deliver
<1>5. /\ message.kind \in {"patch", "sync", "refused", "denied", "ready", "lost"}
      /\ message.kind \in {"patch", "sync"} =>
            message.status \in Statuses /\ Own(message.status, printer.bound)
  BY <1>2 DEF Messages, Carries
<1>6. read.stamps.sub \in Nat
  BY <1>2 DEF Fit, Feeds, Stamps
<1> HIDE DEF message, read
<1>7. CASE message.kind = "patch"
  BY <1>2, <1>3, <1>4, <1>5, <1>7, AccumulatedFit, QuietStep
<1>8. CASE message.kind = "sync"
  BY <1>2, <1>4, <1>5, <1>6, <1>8, AdmittedFit, QuietStep
<1>9. CASE message.kind = "refused"
  BY <1>2, <1>4, <1>9, DegradedFit, QuietStep
<1>10. CASE message.kind = "ready"
  BY <1>2, <1>4, <1>10, SubscribedFit, QuietStep
<1>11. CASE message.kind \in {"denied", "lost"}
  BY <1>2, <1>4, <1>11, VerdictsFit, QuietStep
<1> QED BY <1>5, <1>7, <1>8, <1>9, <1>10, <1>11

LEMMA HttpReplyFit == ASSUME FeedInv, HttpReply PROVE FeedInv'
<1> DEFINE judged == IF feed.http.at = "failed" THEN Failed(feed)
                     ELSE Admitted(feed, "sync", feed.http.status, feed.stamps.http)
           more == judged.queued \/ (feed.slot = "forced" /\ judged.backoff = "clear")
           f == [judged EXCEPT !.http = NoRequest, !.stamps.http = 0, !.slot = "free",
                               !.queued = more]
<1>1. Fit(feed, printer.bound)
  BY DEF FeedInv
<1>2. /\ feed.http.status \in Statuses /\ Own(feed.http.status, printer.bound)
      /\ feed.stamps.http \in Nat
  BY <1>1 DEF Fit, Feeds, Requests, Stamps, Clean
<1>3. Fit(judged, printer.bound)
  BY <1>1, <1>2, AdmittedFit, VerdictsFit
<1>4. Becomes(f) /\ UNCHANGED <<printer, budget>>
  BY DEF HttpReply
<1> HIDE DEF judged
<1>5. more \in BOOLEAN
  BY <1>3 DEF Fit, Feeds
<1> HIDE DEF more
<1>6. f \in Feeds
  BY <1>3, <1>5, RequestTypes DEF Fit, Feeds, Slots, Stamps
<1>7. /\ f.link = judged.link /\ f.core = judged.core /\ f.mode = judged.mode
      /\ f.configured = judged.configured /\ f.enabled = judged.enabled
      /\ f.asks = judged.asks /\ f.subscribed = judged.subscribed
      /\ f.snap = judged.snap /\ f.down = judged.down
      /\ f.slot = "free" /\ f.http = NoRequest
  BY <1>3 DEF Fit, Feeds
<1> HIDE DEF f
<1>8. Wanted(f) /\ Slotted(f)
  BY <1>3, <1>7, RequestTypes DEF Fit, Wanted, Slotted
<1>9. Clean(f, printer.bound)
  BY <1>3, <1>7, RequestTypes, OwnNothing DEF Fit, Clean
<1> QED BY <1>4, <1>6, <1>8, <1>9, QuietStep DEF Fit

LEMMA UpgradeFit == ASSUME FeedInv, Upgrade PROVE FeedInv'
<1> DEFINE f == [feed EXCEPT !.link = "upgraded"]
<1>1. Fit(feed, printer.bound) /\ feed.link = "connecting"
  BY DEF FeedInv, Upgrade
<1>2. f \in Feeds
  BY <1>1 DEF Fit, Feeds, Links
<1>3. Wanted(f) /\ Slotted(f) /\ Clean(f, printer.bound)
  BY <1>1 DEF Fit, Feeds, Wanted, Slotted, Clean
<1>4. Becomes(Subscribed(f)) /\ UNCHANGED <<printer, budget>>
  BY DEF Upgrade
<1> HIDE DEF f
<1>5. Fit(Subscribed(f), printer.bound)
  BY <1>2, <1>3, SubscribedFit DEF Fit
<1> QED BY <1>4, <1>5, QuietStep

\* Whatever ends a link leaves a feed that fits.
LEMMA LinkEndsFit ==
    ASSUME FeedInv, ConnectFails \/ LinkError \/ LinkFails \/ PeerClose
    PROVE  FeedInv'
<1>1. Fit(feed, printer.bound)
  BY DEF FeedInv
<1>2. ASSUME NEW link \in {"none", "dead"}, feed.link # "none"
      PROVE  Fit(Failed(Unlinked(feed, link)), printer.bound)
  <2>1. feed.mode = "websocket" /\ feed.configured = "websocket"
    BY <1>1, <1>2, LiveLink DEF OnSocket
  <2>2. Fit(Unlinked(feed, link), printer.bound)
    BY <1>1, <2>1, UnlinkedFit
  <2> QED BY <2>2, VerdictsFit
<1>3. CASE ConnectFails
  <2>1. PICK link \in {"none", "dead"} : Becomes(Failed(Unlinked(feed, link)))
    BY <1>3 DEF ConnectFails
  <2>2. Fault /\ UNCHANGED printer /\ feed.link # "none"
    BY <1>3 DEF ConnectFails
  <2>3. Fit(Failed(Unlinked(feed, link)), printer.bound)
    BY <1>2, <2>2
  <2> QED BY <2>1, <2>2, <2>3, QuietStep
<1>4. CASE LinkError
  <2>1. /\ Becomes(Failed(Unlinked(feed, "dead"))) /\ Fault /\ UNCHANGED printer
        /\ feed.link # "none"
    BY <1>4 DEF LinkError
  <2>2. Fit(Failed(Unlinked(feed, "dead")), printer.bound)
    BY <1>2, <2>1
  <2> QED BY <2>1, <2>2, QuietStep
<1>5. CASE LinkFails
  <2>1. Fit(SocketStopped(Failed(feed)), printer.bound)
    BY <1>1, VerdictsFit, SocketStoppedFit
  <2>2. Becomes(SocketStopped(Failed(feed))) /\ UNCHANGED printer /\ (Fault \/ UNCHANGED budget)
    BY <1>5 DEF LinkFails
  <2> QED BY <2>1, <2>2, QuietStep
<1>6. CASE PeerClose
  BY <1>1, <1>6, SocketStoppedFit, QuietStep DEF PeerClose
<1> QED BY <1>3, <1>4, <1>5, <1>6

LEMMA HttpServedFit == ASSUME FeedInv, ServeHttp \/ HttpLost PROVE FeedInv'
<1> DEFINE answered == [at |-> "answered", status |-> printer.status]
           failed   == [at |-> "failed", status |-> Nothing]
           Put(r)   == [feed EXCEPT !.http = r]
<1>1. /\ Fit(feed, printer.bound) /\ printer.status \in Statuses
      /\ Own(printer.status, printer.bound) /\ feed.http.at # "none"
  BY DEF FeedInv, TypeOK, Printers, PrinterFit, Own, ServeHttp, HttpLost
<1>2. /\ answered \in Requests /\ failed \in Requests
      /\ Own(answered.status, printer.bound) /\ Own(failed.status, printer.bound)
      /\ answered.at # "none" /\ failed.at # "none"
  BY <1>1, NothingType, OwnNothing DEF Requests
<1> HIDE DEF answered, failed
<1>3. Fit(Put(answered), printer.bound) /\ Fit(Put(failed), printer.bound)
  BY <1>1, <1>2 DEF Fit, Feeds, Wanted, Slotted, Clean
<1>4. CASE ServeHttp
  <2>1. Becomes(Put(IF printer.klippy = "up" THEN answered ELSE failed))
    BY <1>4 DEF ServeHttp, answered, failed
  <2>2. UNCHANGED <<printer, budget>>
    BY <1>4 DEF ServeHttp
  <2>3. Becomes(Put(answered)) \/ Becomes(Put(failed))
    BY <2>1
  <2> HIDE DEF Put
  <2> QED BY <1>3, <2>2, <2>3, QuietStep
<1>5. CASE HttpLost
  <2>1. Becomes(Put(failed)) /\ Fault /\ UNCHANGED printer
    BY <1>5 DEF HttpLost, failed
  <2> HIDE DEF Put
  <2> QED BY <1>3, <2>1, QuietStep
<1> QED BY <1>4, <1>5

-----------------------------------------------------------------------------
(* What Moonraker sends, and the steps that move the printer.              *)

LEMMA SendsFit ==
    ASSUME NEW f, NEW bound, Fit(f, bound), f.link = "upgraded",
           NEW message \in Messages, Carries(message, bound)
    PROVE  Fit(Sends(f, message), bound)
<1> DEFINE down == Append(f.down, message)
           g    == [f EXCEPT !.down = down]
<1>1. f.down \in Seq(Messages) /\ \A i \in 1 .. Len(f.down) : Carries(f.down[i], bound)
  BY DEF Fit, Feeds, Clean
<1>2. /\ down \in Seq(Messages) /\ Len(down) = Len(f.down) + 1
      /\ \A i \in 1 .. Len(f.down) : down[i] = f.down[i]
      /\ down[Len(f.down) + 1] = message
  BY <1>1
<1> HIDE DEF down
<1>3. ASSUME NEW i \in 1 .. Len(down) PROVE Carries(down[i], bound)
  <2>1. i \in 1 .. Len(f.down) \/ i = Len(f.down) + 1
    BY <1>1, <1>2
  <2>2. CASE i \in 1 .. Len(f.down)
    <3>1. down[i] = f.down[i] /\ Carries(f.down[i], bound)
      BY <1>1, <1>2, <2>2
    <3> QED BY <3>1
  <2>3. CASE i = Len(f.down) + 1
    BY <1>2, <2>3
  <2> QED BY <2>1, <2>2, <2>3
<1>4. g \in Feeds
  BY <1>2 DEF Fit, Feeds
<1>5. /\ g.link = f.link /\ g.core = f.core /\ g.mode = f.mode
      /\ g.configured = f.configured /\ g.enabled = f.enabled /\ g.asks = f.asks
      /\ g.subscribed = f.subscribed /\ g.slot = f.slot /\ g.http = f.http
      /\ g.snap = f.snap /\ g.down = down
  BY DEF Fit, Feeds
<1>6. Sends(f, message) = g
  BY DEF Sends, down
<1> HIDE DEF g
<1>7. Wanted(g) /\ Slotted(g)
  BY <1>5 DEF Fit, Wanted, Slotted
<1>8. Clean(g, bound)
  BY <1>3, <1>5 DEF Fit, Clean
<1> QED BY <1>4, <1>6, <1>7, <1>8 DEF Fit

LEMMA ServeSubscribeFit == ASSUME FeedInv, ServeSubscribe PROVE FeedInv'
<1> DEFINE heard == [feed EXCEPT !.asks = @ - 1]
           up    == [heard EXCEPT !.subscribed = TRUE, !.denied = FALSE]
           sync  == [kind |-> "sync", status |-> printer.status]
           no    == [kind |-> "refused"]
<1>1. /\ Fit(feed, printer.bound) /\ printer.status \in Statuses
      /\ Own(printer.status, printer.bound) /\ feed.asks \in Nat /\ feed.asks > 0
  BY DEF FeedInv, TypeOK, Printers, PrinterFit, Own, ServeSubscribe, Feeds
<1>2. feed.link = "upgraded"
  BY <1>1, LiveLink
<1>3. feed.asks - 1 \in Nat
  BY <1>1
<1>4. Fit(heard, printer.bound) /\ heard.link = "upgraded"
  BY <1>1, <1>2, <1>3 DEF Fit, Feeds, Wanted, Slotted, Clean
<1>5. /\ UNCHANGED <<printer, budget>>
      /\ Becomes(IF printer.klippy = "up" THEN Sends(up, sync) ELSE Sends(heard, no))
  BY DEF ServeSubscribe
<1> HIDE DEF heard
<1>6. Fit(up, printer.bound) /\ up.link = "upgraded"
  BY <1>4 DEF Fit, Feeds, Wanted, Slotted, Clean
<1> HIDE DEF up
<1>7. sync \in Messages /\ Carries(sync, printer.bound)
  BY <1>1 DEF Messages, Carries
<1>8. no \in Messages /\ Carries(no, printer.bound)
  BY DEF Messages, Carries
<1> HIDE DEF sync, no
<1>9. Fit(Sends(up, sync), printer.bound) /\ Fit(Sends(heard, no), printer.bound)
  BY <1>4, <1>6, <1>7, <1>8, SendsFit
<1> QED BY <1>5, <1>9, QuietStep

LEMMA DenyFit == ASSUME FeedInv, Deny PROVE FeedInv'
<1> DEFINE heard == [feed EXCEPT !.asks = @ - 1, !.denied = TRUE]
           no    == [kind |-> "denied"]
<1>1. Fit(feed, printer.bound) /\ feed.asks \in Nat /\ feed.asks > 0
  BY DEF FeedInv, Deny, Fit, Feeds
<1>2. feed.link = "upgraded" /\ feed.asks - 1 \in Nat
  BY <1>1, LiveLink
<1>3. Fit(heard, printer.bound) /\ heard.link = "upgraded"
  BY <1>1, <1>2 DEF Fit, Feeds, Wanted, Slotted, Clean
<1>4. Becomes(Sends(heard, no)) /\ Fault /\ UNCHANGED printer
  BY DEF Deny
<1> HIDE DEF heard
<1>5. no \in Messages /\ Carries(no, printer.bound)
  BY DEF Messages, Carries
<1> HIDE DEF no
<1>6. Fit(Sends(heard, no), printer.bound)
  BY <1>3, <1>5, SendsFit
<1> QED BY <1>4, <1>6, QuietStep

\* A step that moves the printer keeps the invariant when what it leaves fits.
LEMMA MovedStep ==
    ASSUME printer' \in Printers, PrinterFit', Fit(feed', printer'.bound),
           relics' \in SUBSET Fields,
           budget' \in [faults : 0 .. MaxFaults, acts : 0 .. MaxActs, restarts : 0 .. MaxRestarts]
    PROVE  FeedInv'
<1>1. TypeOK'
  BY DEF TypeOK, Fit
<1>2. Fit(feed, printer.bound)'
  BY DEF Fit, Wanted, Slotted, Clean, Own, Carries, Feeds
<1> QED BY <1>1, <1>2 DEF FeedInv

LEMMA ChangeFit == ASSUME FeedInv, NEW x \in Fields, Change(x) PROVE FeedInv'
<1> DEFINE n     == Newest + 1
           patch == [kind |-> "patch", status |-> [Nothing EXCEPT ![x] = n]]
           f     == IF feed.subscribed THEN Sends(feed, patch) ELSE feed
<1>1. /\ Fit(feed, printer.bound) /\ printer \in Printers /\ TypeOK
      /\ \A y \in Fields : printer.status[y] >= printer.bound
      /\ printer.klippy = "up" /\ Newest < MaxVersion
  BY DEF FeedInv, TypeOK, PrinterFit, Change
<1>2. /\ Newest \in Versions /\ Newest >= printer.status[x]
      /\ printer.bound \in Versions /\ printer.status[x] \in Versions
      /\ MaxVersion \in Nat
  BY <1>1, NewestIs, BoundsAssumption DEF Printers, Statuses
<1>3. n \in Versions /\ n >= printer.bound
  BY <1>1, <1>2 DEF Versions
<1>4. /\ printer' = [printer EXCEPT !.status = [printer.status EXCEPT ![x] = n]]
      /\ Becomes(f) /\ UNCHANGED budget
  BY DEF Change
<1> HIDE DEF n
<1>5. /\ printer' \in Printers /\ printer'.bound = printer.bound
      /\ printer'.status = [printer.status EXCEPT ![x] = n] /\ printer'.klippy = "up"
  BY <1>1, <1>3, <1>4 DEF Printers, Statuses
<1>6. PrinterFit'
  <2>1. ASSUME NEW y \in Fields PROVE printer'.status[y] >= printer'.bound
    BY <1>1, <1>3, <1>5 DEF Printers, Statuses
  <2> QED BY <1>5, <2>1 DEF PrinterFit
<1>7. patch \in Messages /\ Carries(patch, printer.bound)
  <2>1. [Nothing EXCEPT ![x] = n] \in Statuses
    BY <1>3, NothingType DEF Statuses
  <2>2. Own([Nothing EXCEPT ![x] = n], printer.bound)
    BY <1>3 DEF Own, Nothing
  <2> QED BY <2>1, <2>2 DEF Messages, Carries
<1> HIDE DEF patch
<1>8. Fit(f, printer.bound)
  <2>1. feed.subscribed => feed.link = "upgraded"
    BY <1>1, LiveLink
  <2> QED BY <1>1, <1>7, <2>1, SendsFit
<1> HIDE DEF f
<1>9. Fit(feed', printer'.bound) /\ relics' \in SUBSET Fields
  BY <1>4, <1>5, <1>8, BecomesFit
<1>10. budget' \in [faults : 0 .. MaxFaults, acts : 0 .. MaxActs, restarts : 0 .. MaxRestarts]
  BY <1>1, <1>4, BudgetType
<1> QED BY <1>5, <1>6, <1>9, <1>10, MovedStep

LEMMA KlippyLostFit == ASSUME FeedInv, KlippyLost PROVE FeedInv'
<1> DEFINE quiet == [feed EXCEPT !.subscribed = FALSE]
           lost  == [kind |-> "lost"]
           f     == IF feed.link = "upgraded" THEN Sends(quiet, lost) ELSE feed
<1>1. /\ Fit(feed, printer.bound) /\ printer \in Printers /\ TypeOK
      /\ \A y \in Fields : printer.status[y] >= printer.bound /\ Newest < MaxVersion
      /\ budget.restarts > 0
  BY DEF FeedInv, TypeOK, PrinterFit, KlippyLost
<1>2. /\ printer' = [printer EXCEPT !.klippy = "down"]
      /\ budget' = [budget EXCEPT !.restarts = @ - 1] /\ Becomes(f)
  BY DEF KlippyLost
<1>3. /\ printer' \in Printers /\ printer'.bound = printer.bound
      /\ printer'.status = printer.status
  BY <1>1, <1>2 DEF Printers
<1>4. PrinterFit'
  <2>1. Newest' = Newest /\ Newest < MaxVersion
    BY <1>3 DEF Newest, KlippyLost
  <2> QED BY <1>1, <1>3, <2>1 DEF PrinterFit
<1>5. feed.link = "upgraded" =>
        Fit(quiet, printer.bound) /\ quiet.link = "upgraded"
  BY <1>1 DEF Fit, Feeds, Wanted, Slotted, Clean
<1> HIDE DEF quiet
<1>6. lost \in Messages /\ Carries(lost, printer.bound)
  BY DEF Messages, Carries
<1> HIDE DEF lost
<1>7. Fit(f, printer.bound)
  BY <1>1, <1>5, <1>6, SendsFit
<1> HIDE DEF f
<1>8. Fit(feed', printer'.bound) /\ relics' \in SUBSET Fields
  BY <1>2, <1>3, <1>7, BecomesFit
<1>9. budget' \in [faults : 0 .. MaxFaults, acts : 0 .. MaxActs, restarts : 0 .. MaxRestarts]
  BY <1>1, <1>2, BoundsAssumption DEF TypeOK
<1> QED BY <1>3, <1>4, <1>8, <1>9, MovedStep

LEMMA KlippyReadyFit == ASSUME FeedInv, KlippyReady PROVE FeedInv'
<1> DEFINE n     == Newest + 1
           ready == [kind |-> "ready"]
           every == [y \in Fields |-> n]
<1>1. /\ Fit(feed, printer.bound) /\ printer \in Printers /\ TypeOK
      /\ \A y \in Fields : printer.status[y] >= printer.bound
      /\ Newest < MaxVersion
  BY DEF FeedInv, TypeOK, PrinterFit, KlippyReady
<1>2. PICK x \in Fields : TRUE
  BY FieldsAssumption
<1>3. /\ Newest \in Versions /\ Newest >= printer.status[x]
      /\ printer.bound \in Versions /\ printer.status[x] \in Versions
      /\ MaxVersion \in Nat
  BY <1>1, NewestIs, BoundsAssumption DEF Printers, Statuses
<1>4. n \in Versions /\ n >= printer.bound
  BY <1>1, <1>3 DEF Versions
<1>5. /\ printer' = [printer EXCEPT !.klippy = "up", !.epoch = n, !.status = every,
                                    !.runs = @ \cup {n}]
      /\ feed' = IF feed.link = "upgraded" THEN Sends(feed, ready) ELSE feed
      /\ relics' = {} /\ UNCHANGED budget
  BY DEF KlippyReady
<1> HIDE DEF n
<1>6. every \in Statuses /\ \A y \in Fields : every[y] >= printer.bound
  BY <1>4 DEF Statuses
<1> HIDE DEF every
<1>7. /\ printer' \in Printers /\ printer'.bound = printer.bound
      /\ printer'.status = every /\ printer'.klippy = "up"
  BY <1>1, <1>4, <1>5, <1>6 DEF Printers
<1>8. PrinterFit'
  BY <1>6, <1>7 DEF PrinterFit
<1>9. ready \in Messages /\ Carries(ready, printer.bound)
  BY DEF Messages, Carries
<1> HIDE DEF ready
<1>10. Fit(feed', printer'.bound) /\ relics' \in SUBSET Fields
  BY <1>1, <1>5, <1>7, <1>9, SendsFit
<1>11. budget' \in [faults : 0 .. MaxFaults, acts : 0 .. MaxActs, restarts : 0 .. MaxRestarts]
  BY <1>1, <1>5, BudgetType
<1> QED BY <1>7, <1>8, <1>10, <1>11, MovedStep

LEMMA ConfigureFit ==
    ASSUME FeedInv, NEW mode \in Modes, NEW moved \in BOOLEAN, Configure(mode, moved)
    PROVE  FeedInv'
<1> DEFINE S == {printer.status[x] : x \in Fields} \cup {printer.epoch}
           v == Max(S) + 1
<1>1. Fit(feed, printer.bound) /\ printer \in Printers /\ TypeOK
  BY DEF FeedInv, TypeOK
<1>2. /\ Becomes(Configured(feed, mode, moved)) /\ Act
      /\ moved => /\ v <= MaxVersion
                  /\ printer' = [status |-> [x \in Fields |-> v], klippy |-> "up",
                                 epoch |-> v, bound |-> v, runs |-> {v}]
      /\ ~moved => UNCHANGED printer
  BY DEF Configure
<1>3. CASE ~moved
  BY <1>1, <1>2, <1>3, ConfiguredFit, QuietStep
<1>4. CASE moved
  <2>1. S \in SUBSET Versions /\ S # {}
    BY <1>1 DEF Printers, Statuses
  <2>2. S \in SUBSET Nat /\ MaxVersion \in Nat /\ \A s \in S : s <= MaxVersion
    BY <2>1, BoundsAssumption DEF Versions
  <2> HIDE DEF S
  <2>3. Max(S) \in Nat
    BY <2>1, <2>2, Greatest
  <2>4. v \in Versions
    BY <1>2, <1>4, <2>2, <2>3 DEF Versions
  <2> HIDE DEF v
  <2>5. printer' \in Printers /\ printer'.bound = v
    BY <1>2, <1>4, <2>4 DEF Printers, Statuses
  <2>6. PrinterFit'
    BY <1>2, <1>4, <2>4 DEF PrinterFit, Versions
  <2>7. Fit(Configured(feed, mode, moved), v)
    BY <1>1, <1>4, ConfiguredFit
  <2>8. Fit(feed', v) /\ relics' \in SUBSET Fields
    BY <1>2, <2>7, BecomesFit
  <2>9. budget' \in [faults : 0 .. MaxFaults, acts : 0 .. MaxActs, restarts : 0 .. MaxRestarts]
    BY <1>1, <1>2, BudgetType
  <2> QED BY <2>5, <2>6, <2>8, <2>9, MovedStep
<1> QED BY <1>3, <1>4

-----------------------------------------------------------------------------
(* The theorems.                                                           *)

LEMMA FeedStep == ASSUME FeedInv, [Next]_vars PROVE FeedInv'
<1>1. CASE Owner
  <2>1. ASSUME NEW mode \in Modes, NEW moved \in BOOLEAN, Configure(mode, moved)
        PROVE  FeedInv'
    BY <2>1, ConfigureFit
  <2> QED BY <1>1, <2>1, OwnersFit DEF Owner
<1>2. CASE Clocks
  BY <1>2, ClocksFit
<1>3. CASE Link
  BY <1>3, UpgradeFit, LinkEndsFit, DeliverFit, HttpReplyFit DEF Link
<1>4. CASE Remote
  <2>1. ASSUME NEW x \in Fields, Change(x) PROVE FeedInv'
    BY <2>1, ChangeFit
  <2> QED BY <1>4, <2>1, ServeSubscribeFit, DenyFit, HttpServedFit, KlippyLostFit, KlippyReadyFit
          DEF Remote
<1>5. CASE UNCHANGED vars
  BY <1>5 DEF vars, FeedInv, TypeOK, PrinterFit, Newest, Fit, Wanted, Slotted, Clean,
              Own, Carries, Feeds
<1> QED BY <1>1, <1>2, <1>3, <1>4, <1>5 DEF Next

LEMMA FeedInvariant == Spec => []FeedInv
BY InitFit, FeedStep, PTL DEF Spec

\* The state of the feed keeps its types through every handler of
\* MoonrakerClient and MoonrakerSocket, in every order of events.
THEOREM FeedTypeCorrect == Spec => []TypeOK
<1>1. FeedInv => TypeOK
  BY DEF FeedInv
<1> QED BY <1>1, FeedInvariant, PTL

\* Whatever was queued, accumulated, in flight or shown when the session was
\* bound to another printer (MoonrakerClient.configure), none of it is left:
\* every value the feed holds or will still read is of the bound printer.
THEOREM OnlyThisPrinterAlways == Spec => []OnlyThisPrinter
<1>1. FeedInv => OnlyThisPrinter
  BY DEF FeedInv, Fit, Clean, Carries, Own, OnlyThisPrinter
<1> QED BY <1>1, FeedInvariant, PTL

\* A feed that runs on HTTP has no websocket beside it, and no fragments of
\* one, whichever of refusal, silence or configuration put it there.
THEOREM UnusedSocketIsAlwaysClosed == Spec => []UnusedSocketIsClosed
<1>1. FeedInv => UnusedSocketIsClosed
  BY DEF FeedInv, Fit, Wanted, UnusedSocketIsClosed
<1> QED BY <1>1, FeedInvariant, PTL

\* The slot of RequestCoalescer is taken exactly while its request is out, in
\* every order of polls, replies, failures, stops and rebinds.
THEOREM SlotAlwaysHasItsRequest == Spec => []SlotHasItsRequest
<1>1. FeedInv => SlotHasItsRequest
  BY DEF FeedInv, Fit, Slotted, SlotHasItsRequest
<1> QED BY <1>1, FeedInvariant, PTL

-----------------------------------------------------------------------------
(* The order of values: nothing shown goes backwards.                      *)
(*                                                                         *)
(* A line is what the socket holds for the client: the fragments c, which  *)
(* are its place 0, and the messages d on the link behind them.  Every     *)
(* place has a status, Nothing for a message without one.                  *)

Sent(c, d, i) == IF i = 0 THEN c
                 ELSE IF d[i].kind \in {"patch", "sync"} THEN d[i].status ELSE Nothing
Patch(d, i)  == i = 0 \/ d[i].kind = "patch"

\* new does not go back behind old, unless to before a restart of printer p.
Renews(p, old, new) == new >= old \/ \E e \in p.runs : new < e /\ e <= old

\* The printer only counts up, and a sync has every field.
Ordered(c, d) ==
    \A i, k \in 0 .. Len(d), x \in Fields :
        i < k /\ Sent(c, d, i)[x] # 0 /\ Sent(c, d, k)[x] # 0
          => Sent(c, d, i)[x] <= Sent(c, d, k)[x]
Whole(d) == \A k \in 1 .. Len(d), x \in Fields : d[k].kind = "sync" => d[k].status[x] # 0
Under(p, c, d) == \A i \in 0 .. Len(d), x \in Fields : Sent(c, d, i)[x] <= p.status[x]

\* What is ahead of place k is no older than status, after all patches.
Covered(p, c, d, k, status) ==
    \A i \in 0 .. k - 1, x \in Fields :
        Patch(d, i) /\ Sent(c, d, i)[x] # 0
          => \/ Renews(p, status[x], Sent(c, d, i)[x])
             \/ \E m \in i + 1 .. k - 1 : Patch(d, m) /\ Sent(c, d, m)[x] >= status[x]
Backed(p, c, d) == \A k \in 1 .. Len(d) : d[k].kind = "sync" => Covered(p, c, d, k, d[k].status)

\* A line between the client and printer p.
Told(p, c, d) ==
    /\ Ordered(c, d) /\ Whole(d) /\ Under(p, c, d) /\ Backed(p, c, d)
    /\ Covered(p, c, d, Len(d) + 1, p.status)

\* e is d with message m behind it, and d without its first message.
Longer(d, e, m) == Len(e) = Len(d) + 1 /\ e[Len(d) + 1] = m /\ \A i \in 1 .. Len(d) : e[i] = d[i]
Shorter(d, e)   == Len(d) = Len(e) + 1 /\ \A i \in 1 .. Len(e) : e[i] = d[i + 1]

\* A status with another value for one field.
Turned(new, old, x, n) == \A y \in Fields : new[y] = IF y = x THEN n ELSE old[y]

LEMMA SentType ==
    ASSUME NEW c \in Statuses, NEW d \in Seq(Messages), NEW i \in 0 .. Len(d)
    PROVE  Sent(c, d, i) \in Statuses /\ \A x \in Fields : Sent(c, d, i)[x] \in Nat
<1>1. Sent(c, d, i) \in Statuses
  <2>1. CASE i = 0
    BY <2>1 DEF Sent
  <2>2. CASE i # 0
    <3>1. d[i] \in Messages
      BY <2>2
    <3> QED BY <2>2, <3>1, NothingType DEF Sent, Messages
  <2> QED BY <2>1, <2>2
<1> QED BY <1>1, BoundsAssumption DEF Statuses, Versions

LEMMA Lengthened ==
    ASSUME NEW d \in Seq(Messages), NEW m \in Messages
    PROVE  Append(d, m) \in Seq(Messages) /\ Longer(d, Append(d, m), m)
BY DEF Longer

LEMMA Shortened ==
    ASSUME NEW d \in Seq(Messages), d # <<>>
    PROVE  /\ Tail(d) \in Seq(Messages) /\ Shorter(d, Tail(d))
           /\ Head(d) = d[1] /\ d[1] \in Messages /\ Len(d) > 0
BY DEF Shorter

\* Without the fragments.
LEMMA DrainedLine ==
    ASSUME NEW p, NEW c \in Statuses, NEW d \in Seq(Messages), Told(p, c, d),
           p.status \in Statuses
    PROVE  Told(p, Nothing, d)
<1>1. \A i \in 1 .. Len(d) : Sent(Nothing, d, i) = Sent(c, d, i)
  BY DEF Sent
<1>2. \A x \in Fields : Sent(Nothing, d, 0)[x] = 0
  BY DEF Sent, Nothing
<1>3. \A x \in Fields : p.status[x] \in Nat
  BY BoundsAssumption DEF Statuses, Versions
<1>4. Ordered(Nothing, d)
  BY <1>1, <1>2 DEF Told, Ordered
<1>5. Under(p, Nothing, d)
  BY <1>1, <1>2, <1>3 DEF Told, Under
<1>6. ASSUME NEW k \in 1 .. Len(d) + 1, NEW status, Covered(p, c, d, k, status)
      PROVE  Covered(p, Nothing, d, k, status)
  <2> SUFFICES ASSUME NEW i \in 0 .. k - 1, NEW x \in Fields,
                      Patch(d, i), Sent(Nothing, d, i)[x] # 0
               PROVE  \/ Renews(p, status[x], Sent(Nothing, d, i)[x])
                      \/ \E m \in i + 1 .. k - 1 :
                            Patch(d, m) /\ Sent(Nothing, d, m)[x] >= status[x]
    BY DEF Covered
  <2>1. i \in 1 .. Len(d) /\ Sent(Nothing, d, i) = Sent(c, d, i)
    BY <1>1, <1>2
  <2>2. CASE Renews(p, status[x], Sent(c, d, i)[x])
    BY <2>1, <2>2
  <2>3. ASSUME NEW m \in i + 1 .. k - 1, Patch(d, m), Sent(c, d, m)[x] >= status[x]
        PROVE  Patch(d, m) /\ Sent(Nothing, d, m)[x] >= status[x]
    <3>1. m \in 1 .. Len(d)
      BY <2>1
    <3> QED BY <1>1, <2>3, <3>1
  <2> QED BY <1>6, <2>1, <2>2, <2>3 DEF Covered
<1>7. Len(d) \in Nat
  OBVIOUS
<1> QED BY <1>4, <1>5, <1>6, <1>7 DEF Told, Backed

\* The first message read into the fragments.
LEMMA AccumulatedLine ==
    ASSUME NEW p, NEW c \in Statuses, NEW d \in Seq(Messages), NEW e \in Seq(Messages),
           Told(p, c, d), Shorter(d, e), d[1].kind = "patch",
           p.status \in Statuses, \A x \in Fields : p.status[x] # 0
    PROVE  Told(p, Merged(c, d[1].status), e)
<1> DEFINE g == Merged(c, d[1].status)
<1>0. Len(d) \in Nat /\ Len(e) \in Nat /\ Len(d) = Len(e) + 1 /\ 1 \in 1 .. Len(d)
  BY DEF Shorter
<1>1. ASSUME NEW i \in 1 .. Len(e)
      PROVE  /\ i + 1 \in 1 .. Len(d) /\ e[i] = d[i + 1]
             /\ Sent(g, e, i) = Sent(c, d, i + 1) /\ (Patch(e, i) <=> Patch(d, i + 1))
  <2>1. i + 1 \in 1 .. Len(d) /\ e[i] = d[i + 1] /\ i # 0 /\ i + 1 # 0
    BY <1>0 DEF Shorter
  <2> QED BY <2>1 DEF Sent, Patch
<1>2. /\ Sent(g, e, 0) = g /\ Sent(c, d, 0) = c /\ Sent(c, d, 1) = d[1].status
      /\ Patch(d, 0) /\ Patch(d, 1)
  BY DEF Sent, Patch
<1>3. \A x \in Fields : g[x] = IF d[1].status[x] # 0 THEN d[1].status[x] ELSE c[x]
  BY DEF Merged
<1> HIDE DEF g
<1>4. Ordered(g, e)
  <2> SUFFICES ASSUME NEW i \in 0 .. Len(e), NEW k \in 0 .. Len(e), NEW x \in Fields,
                      i < k, Sent(g, e, i)[x] # 0, Sent(g, e, k)[x] # 0
               PROVE  Sent(g, e, i)[x] <= Sent(g, e, k)[x]
    BY DEF Ordered
  <2>1. k \in 1 .. Len(e) /\ k + 1 \in 0 .. Len(d) /\ Sent(g, e, k) = Sent(c, d, k + 1)
    BY <1>0, <1>1
  <2>2. PICK j \in 0 .. Len(d) : j < k + 1 /\ Sent(g, e, i)[x] = Sent(c, d, j)[x]
    <3>1. CASE i = 0
      <4>1. 0 \in 0 .. Len(d) /\ 1 \in 0 .. Len(d) /\ 0 < k + 1 /\ 1 < k + 1
        BY <1>0, <2>1
      <4> QED BY <1>2, <1>3, <3>1, <4>1
    <3>2. CASE i # 0
      <4>1. i \in 1 .. Len(e) /\ i + 1 < k + 1
        BY <3>2, <2>1
      <4> QED BY <1>0, <1>1, <4>1
    <3> QED BY <3>1, <3>2
  <2> QED BY <2>1, <2>2 DEF Told, Ordered
<1>5. Whole(e)
  BY <1>1 DEF Told, Whole
<1>6. Under(p, g, e)
  <2> SUFFICES ASSUME NEW i \in 0 .. Len(e), NEW x \in Fields
               PROVE  Sent(g, e, i)[x] <= p.status[x]
    BY DEF Under
  <2>1. PICK j \in 0 .. Len(d) : Sent(g, e, i)[x] = Sent(c, d, j)[x]
    <3>1. CASE i = 0
      <4>1. 0 \in 0 .. Len(d) /\ 1 \in 0 .. Len(d)
        BY <1>0
      <4> QED BY <1>2, <1>3, <3>1, <4>1
    <3>2. CASE i # 0
      <4>1. i \in 1 .. Len(e) /\ i + 1 \in 0 .. Len(d)
        BY <1>0, <3>2
      <4> QED BY <1>1, <4>1
    <3> QED BY <3>1, <3>2
  <2> QED BY <2>1 DEF Told, Under
<1>7. ASSUME NEW k \in 1 .. Len(e) + 1, NEW status, \A x \in Fields : status[x] \in Nat \ {0},
             Covered(p, c, d, k + 1, status)
      PROVE  Covered(p, g, e, k, status)
  <2> SUFFICES ASSUME NEW i \in 0 .. k - 1, NEW x \in Fields,
                      Patch(e, i), Sent(g, e, i)[x] # 0
               PROVE  \/ Renews(p, status[x], Sent(g, e, i)[x])
                      \/ \E m \in i + 1 .. k - 1 : Patch(e, m) /\ Sent(g, e, m)[x] >= status[x]
    BY DEF Covered
  <2>1. ASSUME NEW n \in 2 .. k, Patch(d, n), Sent(c, d, n)[x] >= status[x], i < n - 1
        PROVE  \E m \in i + 1 .. k - 1 : Patch(e, m) /\ Sent(g, e, m)[x] >= status[x]
    <3>1. n - 1 \in 1 .. Len(e) /\ n - 1 \in i + 1 .. k - 1 /\ (n - 1) + 1 = n
      BY <2>1, <1>0
    <3>2. Patch(e, n - 1) /\ Sent(g, e, n - 1) = Sent(c, d, n)
      BY <1>1, <2>1, <3>1
    <3> QED BY <2>1, <3>1, <3>2
  <2>2. CASE i # 0
    <3>1. i \in 1 .. Len(e) /\ i + 1 \in 0 .. k /\ (k + 1) - 1 = k
      BY <1>0, <2>2
    <3>2. Patch(d, i + 1) /\ Sent(g, e, i) = Sent(c, d, i + 1)
      BY <1>1, <3>1
    <3>3. \/ Renews(p, status[x], Sent(c, d, i + 1)[x])
          \/ \E m \in (i + 1) + 1 .. k : Patch(d, m) /\ Sent(c, d, m)[x] >= status[x]
      BY <1>7, <3>1, <3>2 DEF Covered
    <3>4. \A m \in (i + 1) + 1 .. k : m \in 2 .. k /\ i < m - 1
      BY <3>1
    <3> QED BY <2>1, <3>2, <3>3, <3>4
  <2>3. CASE i = 0 /\ d[1].status[x] # 0
    <3>1. g[x] = Sent(c, d, 1)[x] /\ Sent(g, e, i) = g /\ Sent(c, d, 1)[x] # 0
      BY <1>2, <1>3, <2>3
    <3>2. 1 \in 0 .. k /\ (k + 1) - 1 = k
      BY <1>0
    <3>3. \/ Renews(p, status[x], Sent(c, d, 1)[x])
          \/ \E m \in 1 + 1 .. k : Patch(d, m) /\ Sent(c, d, m)[x] >= status[x]
      BY <1>2, <1>7, <3>1, <3>2 DEF Covered
    <3>4. \A m \in 1 + 1 .. k : m \in 2 .. k /\ i < m - 1
      BY <2>3
    <3> QED BY <2>1, <3>1, <3>3, <3>4
  <2>4. CASE i = 0 /\ d[1].status[x] = 0
    <3>1. g[x] = Sent(c, d, 0)[x] /\ Sent(g, e, i) = g /\ Sent(c, d, 0)[x] # 0
      BY <1>2, <1>3, <2>4
    <3>2. 0 \in 0 .. k /\ (k + 1) - 1 = k
      BY <1>0
    <3>3. \/ Renews(p, status[x], Sent(c, d, 0)[x])
          \/ \E m \in 0 + 1 .. k : Patch(d, m) /\ Sent(c, d, m)[x] >= status[x]
      BY <1>2, <1>7, <3>1, <3>2 DEF Covered
    <3>4. \A m \in 0 + 1 .. k : Sent(c, d, m)[x] >= status[x] => m \in 2 .. k /\ i < m - 1
      BY <1>2, <1>7, <2>4
    <3> QED BY <2>1, <3>1, <3>3, <3>4
  <2> QED BY <2>2, <2>3, <2>4
<1>8. Backed(p, g, e)
  <2> SUFFICES ASSUME NEW k \in 1 .. Len(e), e[k].kind = "sync"
               PROVE  Covered(p, g, e, k, e[k].status)
    BY DEF Backed
  <2>1. k + 1 \in 1 .. Len(d) /\ e[k] = d[k + 1] /\ d[k + 1] \in Messages
    BY <1>1
  <2>2. Covered(p, c, d, k + 1, e[k].status)
    BY <2>1 DEF Told, Backed
  <2>3. \A x \in Fields : e[k].status[x] \in Nat \ {0}
    <3>1. e[k].status \in Statuses
      BY <2>1 DEF Messages
    <3>2. \A x \in Fields : e[k].status[x] # 0
      BY <1>5 DEF Whole
    <3> QED BY <3>1, <3>2, BoundsAssumption DEF Statuses, Versions
  <2>4. k \in 1 .. Len(e) + 1
    BY <1>0
  <2> QED BY <1>7, <2>2, <2>3, <2>4
<1>9. Covered(p, g, e, Len(e) + 1, p.status)
  <2>1. \A x \in Fields : p.status[x] \in Nat \ {0}
    BY BoundsAssumption DEF Statuses, Versions
  <2>2. Covered(p, c, d, (Len(e) + 1) + 1, p.status) /\ Len(e) + 1 \in 1 .. Len(e) + 1
    BY <1>0 DEF Told
  <2> QED BY <1>7, <2>1, <2>2
<1> QED BY <1>4, <1>5, <1>6, <1>8, <1>9 DEF Told, g

\* The first message read, when it says nothing of a single field.
LEMMA ReadLine ==
    ASSUME NEW p, NEW c \in Statuses, NEW d \in Seq(Messages), NEW e \in Seq(Messages),
           Told(p, c, d), Shorter(d, e), d[1].kind # "patch"
    PROVE  Told(p, c, e)
<1>0. Len(d) \in Nat /\ Len(e) \in Nat /\ Len(d) = Len(e) + 1
  BY DEF Shorter
<1>1. ASSUME NEW i \in 1 .. Len(e)
      PROVE  /\ i + 1 \in 1 .. Len(d) /\ e[i] = d[i + 1]
             /\ Sent(c, e, i) = Sent(c, d, i + 1) /\ (Patch(e, i) <=> Patch(d, i + 1))
  <2>1. i + 1 \in 1 .. Len(d) /\ e[i] = d[i + 1] /\ i # 0 /\ i + 1 # 0
    BY <1>0 DEF Shorter
  <2> QED BY <2>1 DEF Sent, Patch
<1>2. /\ Sent(c, e, 0) = c /\ Sent(c, d, 0) = c /\ Patch(d, 0) /\ ~Patch(d, 1)
  BY DEF Sent, Patch
\* Where a place of e is in d.
<1> DEFINE At(i) == IF i = 0 THEN 0 ELSE i + 1
<1>3. ASSUME NEW i \in 0 .. Len(e)
      PROVE  /\ At(i) \in 0 .. Len(d) /\ Sent(c, e, i) = Sent(c, d, At(i))
             /\ Patch(e, i) => Patch(d, At(i))
  <2>1. CASE i = 0
    BY <1>0, <1>2, <2>1
  <2>2. CASE i # 0
    <3>1. i \in 1 .. Len(e)
      BY <2>2
    <3> QED BY <1>0, <1>1, <2>2, <3>1
  <2> QED BY <2>1, <2>2
<1>4. Ordered(c, e)
  <2> SUFFICES ASSUME NEW i \in 0 .. Len(e), NEW k \in 0 .. Len(e), NEW x \in Fields,
                      i < k, Sent(c, e, i)[x] # 0, Sent(c, e, k)[x] # 0
               PROVE  Sent(c, e, i)[x] <= Sent(c, e, k)[x]
    BY DEF Ordered
  <2>1. At(i) < At(k)
    OBVIOUS
  <2> QED BY <1>3, <2>1 DEF Told, Ordered
<1>5. Whole(e)
  BY <1>1 DEF Told, Whole
<1>6. Under(p, c, e)
  BY <1>3 DEF Told, Under
<1>7. ASSUME NEW k \in 1 .. Len(e) + 1, NEW status, Covered(p, c, d, k + 1, status)
      PROVE  Covered(p, c, e, k, status)
  <2> SUFFICES ASSUME NEW i \in 0 .. k - 1, NEW x \in Fields,
                      Patch(e, i), Sent(c, e, i)[x] # 0
               PROVE  \/ Renews(p, status[x], Sent(c, e, i)[x])
                      \/ \E m \in i + 1 .. k - 1 : Patch(e, m) /\ Sent(c, e, m)[x] >= status[x]
    BY DEF Covered
  <2>1. i \in 0 .. Len(e) /\ At(i) \in 0 .. (k + 1) - 1
    BY <1>0
  <2>2. Patch(d, At(i)) /\ Sent(c, e, i) = Sent(c, d, At(i))
    BY <1>3, <2>1
  <2>3. \/ Renews(p, status[x], Sent(c, d, At(i))[x])
        \/ \E m \in At(i) + 1 .. (k + 1) - 1 : Patch(d, m) /\ Sent(c, d, m)[x] >= status[x]
    <3> HIDE DEF At
    <3> QED BY <1>7, <2>1, <2>2 DEF Covered
  <2>4. ASSUME NEW m \in At(i) + 1 .. (k + 1) - 1, Patch(d, m), Sent(c, d, m)[x] >= status[x]
        PROVE  m - 1 \in i + 1 .. k - 1 /\ Patch(e, m - 1) /\ Sent(c, e, m - 1)[x] >= status[x]
    <3>1. m # 1
      BY <1>2, <2>4
    <3>2. m - 1 \in i + 1 .. k - 1 /\ m - 1 \in 1 .. Len(e) /\ (m - 1) + 1 = m
      BY <1>0, <2>1, <3>1
    <3> QED BY <1>1, <2>4, <3>2
  <2> HIDE DEF At
  <2> QED BY <2>2, <2>3, <2>4
<1>8. Backed(p, c, e)
  <2> SUFFICES ASSUME NEW k \in 1 .. Len(e), e[k].kind = "sync"
               PROVE  Covered(p, c, e, k, e[k].status)
    BY DEF Backed
  <2>1. k + 1 \in 1 .. Len(d) /\ e[k] = d[k + 1] /\ k \in 1 .. Len(e) + 1
    BY <1>0, <1>1
  <2>2. Covered(p, c, d, k + 1, e[k].status)
    BY <2>1 DEF Told, Backed
  <2> QED BY <1>7, <2>1, <2>2
<1>9. Covered(p, c, e, Len(e) + 1, p.status)
  <2>1. Covered(p, c, d, (Len(e) + 1) + 1, p.status) /\ Len(e) + 1 \in 1 .. Len(e) + 1
    BY <1>0 DEF Told
  <2> QED BY <1>7, <2>1
<1> QED BY <1>4, <1>5, <1>6, <1>8, <1>9 DEF Told

LEMMA LongerSame ==
    ASSUME NEW c, NEW d \in Seq(Messages), NEW e, NEW m, Longer(d, e, m)
    PROVE  /\ \A i \in 0 .. Len(d) : /\ Sent(c, e, i) = Sent(c, d, i)
                                     /\ Patch(e, i) <=> Patch(d, i)
           /\ Sent(c, e, Len(d) + 1) = IF m.kind \in {"patch", "sync"} THEN m.status ELSE Nothing
           /\ Patch(e, Len(d) + 1) <=> m.kind = "patch"
           /\ Len(d) \in Nat /\ Len(e) = Len(d) + 1
BY DEF Longer, Sent, Patch

LEMMA LongerCovered ==
    ASSUME NEW p, NEW c, NEW d \in Seq(Messages), NEW e, NEW m, Longer(d, e, m),
           NEW k \in 1 .. Len(d) + 1, NEW status, Covered(p, c, d, k, status)
    PROVE  Covered(p, c, e, k, status)
<1>1. \A i \in 0 .. k - 1 : i \in 0 .. Len(d)
  OBVIOUS
<1>2. \A i \in 0 .. k - 1 : Sent(c, e, i) = Sent(c, d, i) /\ (Patch(e, i) <=> Patch(d, i))
  BY <1>1, LongerSame
<1>3. \A i \in 0 .. k - 1 : \A n \in i + 1 .. k - 1 : n \in 0 .. k - 1
  OBVIOUS
<1> QED BY <1>2, <1>3 DEF Covered

LEMMA LongerBacked ==
    ASSUME NEW p, NEW c, NEW d \in Seq(Messages), NEW e, NEW m, Longer(d, e, m),
           Backed(p, c, d), m.kind = "sync" => Covered(p, c, d, Len(d) + 1, m.status)
    PROVE  Backed(p, c, e)
<1> SUFFICES ASSUME NEW k \in 1 .. Len(e), e[k].kind = "sync"
             PROVE  Covered(p, c, e, k, e[k].status)
  BY DEF Backed
<1>1. Len(d) \in Nat /\ Len(e) = Len(d) + 1 /\ k \in 1 .. Len(d) + 1
  BY DEF Longer
<1>2. CASE k = Len(d) + 1
  BY <1>1, <1>2, LongerCovered DEF Longer
<1>3. CASE k # Len(d) + 1
  <2>1. k \in 1 .. Len(d) /\ e[k] = d[k]
    BY <1>1, <1>3 DEF Longer
  <2>2. Covered(p, c, d, k, e[k].status)
    BY <2>1 DEF Backed
  <2> QED BY <1>1, <2>2, LongerCovered
<1> QED BY <1>2, <1>3

\* A message with no status goes on the line.
LEMMA RemarkedLine ==
    ASSUME NEW p, NEW c \in Statuses, NEW d \in Seq(Messages), NEW e, NEW m, Longer(d, e, m),
           Told(p, c, d), m.kind \notin {"patch", "sync"}, p.status \in Statuses
    PROVE  Told(p, c, e)
<1>1. /\ \A i \in 0 .. Len(d) : Sent(c, e, i) = Sent(c, d, i) /\ (Patch(e, i) <=> Patch(d, i))
      /\ \A x \in Fields : Sent(c, e, Len(d) + 1)[x] = 0
      /\ ~Patch(e, Len(d) + 1) /\ Len(d) \in Nat /\ Len(e) = Len(d) + 1
  BY LongerSame DEF Nothing
<1>2. \A i \in 0 .. Len(e) : i \in 0 .. Len(d) \/ i = Len(d) + 1
  BY <1>1
<1>3. Ordered(c, e)
  BY <1>1, <1>2 DEF Told, Ordered
<1>4. Whole(e)
  BY <1>1 DEF Told, Whole, Longer
<1>5. Under(p, c, e)
  <2>1. \A x \in Fields : p.status[x] \in Nat
    BY BoundsAssumption DEF Statuses, Versions
  <2> QED BY <1>1, <1>2, <2>1 DEF Told, Under
<1>6. Backed(p, c, e)
  BY LongerBacked DEF Told
<1>7. Covered(p, c, e, Len(d) + 1, p.status)
  <2>1. Len(d) + 1 \in 1 .. Len(d) + 1
    BY <1>1
  <2> QED BY <2>1, LongerCovered DEF Told
<1>8. Covered(p, c, e, Len(e) + 1, p.status)
  <2> SUFFICES ASSUME NEW i \in 0 .. (Len(e) + 1) - 1, NEW x \in Fields,
                      Patch(e, i), Sent(c, e, i)[x] # 0
               PROVE  \/ Renews(p, p.status[x], Sent(c, e, i)[x])
                      \/ \E n \in i + 1 .. (Len(e) + 1) - 1 :
                            Patch(e, n) /\ Sent(c, e, n)[x] >= p.status[x]
    BY DEF Covered
  <2>1. i \in 0 .. (Len(d) + 1) - 1
    BY <1>1
  <2>2. \/ Renews(p, p.status[x], Sent(c, e, i)[x])
        \/ \E n \in i + 1 .. (Len(d) + 1) - 1 : Patch(e, n) /\ Sent(c, e, n)[x] >= p.status[x]
    BY <1>7, <2>1 DEF Covered
  <2>3. \A n \in i + 1 .. (Len(d) + 1) - 1 : n \in i + 1 .. (Len(e) + 1) - 1
    BY <1>1
  <2> QED BY <2>2, <2>3
<1> QED BY <1>3, <1>4, <1>5, <1>6, <1>8 DEF Told

\* A reply to a subscribe goes on the line.
LEMMA SyncedLine ==
    ASSUME NEW p, NEW c \in Statuses, NEW d \in Seq(Messages), NEW e, NEW m, Longer(d, e, m),
           Told(p, c, d), m.kind = "sync", m.status = p.status, p.status \in Statuses,
           \A x \in Fields : p.status[x] # 0
    PROVE  Told(p, c, e)
<1>1. /\ \A i \in 0 .. Len(d) : Sent(c, e, i) = Sent(c, d, i) /\ (Patch(e, i) <=> Patch(d, i))
      /\ Sent(c, e, Len(d) + 1) = p.status
      /\ ~Patch(e, Len(d) + 1) /\ Len(d) \in Nat /\ Len(e) = Len(d) + 1
  BY LongerSame
<1>2. \A i \in 0 .. Len(e) : i \in 0 .. Len(d) \/ i = Len(d) + 1
  BY <1>1
<1>3. Ordered(c, e)
  <2> SUFFICES ASSUME NEW i \in 0 .. Len(e), NEW k \in 0 .. Len(e), NEW x \in Fields,
                      i < k, Sent(c, e, i)[x] # 0, Sent(c, e, k)[x] # 0
               PROVE  Sent(c, e, i)[x] <= Sent(c, e, k)[x]
    BY DEF Ordered
  <2>1. i \in 0 .. Len(d)
    BY <1>1
  <2>2. CASE k \in 0 .. Len(d)
    BY <1>1, <2>1, <2>2 DEF Told, Ordered
  <2>3. CASE k = Len(d) + 1
    BY <1>1, <2>1, <2>3 DEF Told, Under
  <2> QED BY <1>2, <2>2, <2>3
<1>4. Whole(e)
  <2> SUFFICES ASSUME NEW k \in 1 .. Len(e), NEW x \in Fields, e[k].kind = "sync"
               PROVE  e[k].status[x] # 0
    BY DEF Whole
  <2>1. CASE k \in 1 .. Len(d)
    BY <2>1 DEF Told, Whole, Longer
  <2>2. CASE k = Len(d) + 1
    BY <2>2 DEF Longer
  <2> QED BY <1>1, <2>1, <2>2
<1>5. Under(p, c, e)
  <2>1. \A x \in Fields : p.status[x] \in Nat
    BY BoundsAssumption DEF Statuses, Versions
  <2> QED BY <1>1, <1>2, <2>1 DEF Told, Under
<1>6. Backed(p, c, e)
  BY LongerBacked DEF Told
<1>7. Covered(p, c, e, Len(d) + 1, p.status)
  <2>1. Len(d) + 1 \in 1 .. Len(d) + 1
    BY <1>1
  <2> QED BY <2>1, LongerCovered DEF Told
<1>8. Covered(p, c, e, Len(e) + 1, p.status)
  <2> SUFFICES ASSUME NEW i \in 0 .. (Len(e) + 1) - 1, NEW x \in Fields,
                      Patch(e, i), Sent(c, e, i)[x] # 0
               PROVE  \/ Renews(p, p.status[x], Sent(c, e, i)[x])
                      \/ \E n \in i + 1 .. (Len(e) + 1) - 1 :
                            Patch(e, n) /\ Sent(c, e, n)[x] >= p.status[x]
    BY DEF Covered
  <2>1. i \in 0 .. (Len(d) + 1) - 1
    BY <1>1
  <2>2. \/ Renews(p, p.status[x], Sent(c, e, i)[x])
        \/ \E n \in i + 1 .. (Len(d) + 1) - 1 : Patch(e, n) /\ Sent(c, e, n)[x] >= p.status[x]
    BY <1>7, <2>1 DEF Covered
  <2>3. \A n \in i + 1 .. (Len(d) + 1) - 1 : n \in i + 1 .. (Len(e) + 1) - 1
    BY <1>1
  <2> QED BY <2>2, <2>3
<1> QED BY <1>3, <1>4, <1>5, <1>6, <1>8 DEF Told

\* A field changes and its patch goes on the line.
LEMMA PatchedLine ==
    ASSUME NEW p, NEW q, NEW c \in Statuses, NEW d \in Seq(Messages), NEW e, NEW m,
           Longer(d, e, m), Told(p, c, d), p.status \in Statuses, q.runs = p.runs,
           NEW x \in Fields, NEW n \in Versions, n > 0,
           \A y \in Fields : p.status[y] <= n,
           Turned(q.status, p.status, x, n),
           m.kind = "patch", Turned(m.status, Nothing, x, n)
    PROVE  Told(q, c, e)
<1>0. /\ n \in Nat /\ \A y \in Fields : p.status[y] \in Nat
      /\ \A y \in Fields : m.status[y] = IF y = x THEN n ELSE 0
      /\ \A y \in Fields : q.status[y] = IF y = x THEN n ELSE p.status[y]
  BY BoundsAssumption DEF Statuses, Versions, Turned, Nothing
<1>1. /\ \A i \in 0 .. Len(d) : Sent(c, e, i) = Sent(c, d, i) /\ (Patch(e, i) <=> Patch(d, i))
      /\ Sent(c, e, Len(d) + 1) = m.status
      /\ Patch(e, Len(d) + 1) /\ Len(d) \in Nat /\ Len(e) = Len(d) + 1
  BY LongerSame
<1>2. \A i \in 0 .. Len(e) : i \in 0 .. Len(d) \/ i = Len(d) + 1
  BY <1>1
<1>2a. \A y \in Fields : Sent(c, e, Len(d) + 1)[y] = IF y = x THEN n ELSE 0
  BY <1>0, <1>1
<1>3. Ordered(c, e)
  <2> SUFFICES ASSUME NEW i \in 0 .. Len(e), NEW k \in 0 .. Len(e), NEW y \in Fields,
                      i < k, Sent(c, e, i)[y] # 0, Sent(c, e, k)[y] # 0
               PROVE  Sent(c, e, i)[y] <= Sent(c, e, k)[y]
    BY DEF Ordered
  <2>1. i \in 0 .. Len(d)
    BY <1>1
  <2>2. CASE k \in 0 .. Len(d)
    BY <1>1, <2>1, <2>2 DEF Told, Ordered
  <2>3. CASE k = Len(d) + 1
    <3>1. Sent(c, e, k)[y] = n
      BY <1>2a, <2>3
    <3>2. Sent(c, d, i)[y] <= p.status[y] /\ Sent(c, d, i)[y] \in Nat
      BY <2>1, SentType DEF Told, Under
    <3> QED BY <1>0, <1>1, <2>1, <3>1, <3>2
  <2> QED BY <1>2, <2>2, <2>3
<1>4. Whole(e)
  BY <1>1 DEF Told, Whole, Longer
<1>5. Under(q, c, e)
  <2> SUFFICES ASSUME NEW i \in 0 .. Len(e), NEW y \in Fields
               PROVE  Sent(c, e, i)[y] <= q.status[y]
    BY DEF Under
  <2>1. CASE i \in 0 .. Len(d)
    <3>1. Sent(c, d, i)[y] <= p.status[y] /\ Sent(c, d, i)[y] \in Nat
      BY <2>1, SentType DEF Told, Under
    <3> QED BY <1>0, <1>1, <2>1, <3>1
  <2>2. CASE i = Len(d) + 1
    BY <1>0, <1>2a, <2>2
  <2> QED BY <1>2, <2>1, <2>2
<1>6. Backed(q, c, e)
  <2>1. Backed(p, c, e)
    BY LongerBacked DEF Told
  <2> QED BY <2>1 DEF Backed, Covered, Renews
<1>7. Covered(p, c, e, Len(d) + 1, p.status)
  <2>1. Len(d) + 1 \in 1 .. Len(d) + 1
    BY <1>1
  <2> QED BY <2>1, LongerCovered DEF Told
<1>8. Covered(q, c, e, Len(e) + 1, q.status)
  <2> SUFFICES ASSUME NEW i \in 0 .. (Len(e) + 1) - 1, NEW y \in Fields,
                      Patch(e, i), Sent(c, e, i)[y] # 0
               PROVE  \/ Renews(q, q.status[y], Sent(c, e, i)[y])
                      \/ \E l \in i + 1 .. (Len(e) + 1) - 1 :
                            Patch(e, l) /\ Sent(c, e, l)[y] >= q.status[y]
    BY DEF Covered
  <2>1. CASE y = x /\ i \in 0 .. Len(d)
    <3>1. Len(d) + 1 \in i + 1 .. (Len(e) + 1) - 1
      BY <1>1, <2>1
    <3>2. Sent(c, e, Len(d) + 1)[y] >= q.status[y]
      BY <1>0, <1>2a, <2>1
    <3> QED BY <1>1, <3>1, <3>2
  <2>2. CASE i = Len(d) + 1
    BY <1>0, <1>2a, <2>2 DEF Renews
  <2>3. CASE y # x /\ i \in 0 .. Len(d)
    <3>1. i \in 0 .. (Len(d) + 1) - 1
      BY <1>1, <2>3
    <3>2. \/ Renews(p, p.status[y], Sent(c, e, i)[y])
          \/ \E l \in i + 1 .. (Len(d) + 1) - 1 : Patch(e, l) /\ Sent(c, e, l)[y] >= p.status[y]
      BY <1>7, <3>1 DEF Covered
    <3>3. \A l \in i + 1 .. (Len(d) + 1) - 1 : l \in i + 1 .. (Len(e) + 1) - 1
      BY <1>1
    <3>4. q.status[y] = p.status[y]
      BY <1>0, <2>3
    <3>5. Renews(p, p.status[y], Sent(c, e, i)[y]) => Renews(q, q.status[y], Sent(c, e, i)[y])
      BY <3>4 DEF Renews
    <3> QED BY <3>2, <3>3, <3>4, <3>5
  <2> QED BY <1>1, <1>2, <2>1, <2>2, <2>3
<1> QED BY <1>3, <1>4, <1>5, <1>6, <1>8 DEF Told

\* The printer goes on unheard: all patches are from before run r of Klippy.
LEMMA UnheardLine ==
    ASSUME NEW p, NEW q, NEW c \in Statuses, NEW d \in Seq(Messages), Told(p, c, d),
           p.status \in Statuses, q.status \in Statuses, p.runs \subseteq q.runs,
           \A x \in Fields : p.status[x] <= q.status[x], NEW r \in q.runs,
           \A x \in Fields : r <= q.status[x],
           \A i \in 0 .. Len(d), x \in Fields : Patch(d, i) => Sent(c, d, i)[x] < r
    PROVE  Told(q, c, d)
<1>1. Under(q, c, d)
  <2> SUFFICES ASSUME NEW i \in 0 .. Len(d), NEW x \in Fields
               PROVE  Sent(c, d, i)[x] <= q.status[x]
    BY DEF Under
  <2>1. Sent(c, d, i)[x] \in Nat /\ Sent(c, d, i)[x] <= p.status[x]
    BY SentType DEF Told, Under
  <2> QED BY <2>1, BoundsAssumption DEF Statuses, Versions
<1>2. Backed(q, c, d)
  BY DEF Told, Backed, Covered, Renews
<1>3. Covered(q, c, d, Len(d) + 1, q.status)
  <2> SUFFICES ASSUME NEW i \in 0 .. (Len(d) + 1) - 1, NEW x \in Fields, Patch(d, i)
               PROVE  Renews(q, q.status[x], Sent(c, d, i)[x])
    BY DEF Covered
  <2>1. i \in 0 .. Len(d)
    OBVIOUS
  <2> QED BY <2>1 DEF Renews
<1> QED BY <1>1, <1>2, <1>3 DEF Told

-----------------------------------------------------------------------------
(* What of a line will be admitted.  A subscribe has the latest stamp, so  *)
(* the sync that answers it is admitted unless a patch is read before it;  *)
(* and a sync admitted on a link shuts out an HTTP request older than the  *)
(* link (s are the stamps, at is where the HTTP request is).               *)

Latest(s) == s.http <= s.sub /\ s.core <= s.sub /\ s.applied <= s.sub

\* A sync at place k will be admitted.
Heard(s, d, k) ==
    \/ \E r \in 1 .. k - 1 : d[r].kind = "ready" /\ \A i \in r .. k - 1 : d[i].kind # "patch"
    \/ Latest(s) /\ \A i \in 1 .. k - 1 : d[i].kind # "patch"

\* There is one ahead of place k.
Opened(s, d, k) == \E j \in 1 .. k - 1 : d[j].kind = "sync" /\ Heard(s, d, j)

\* No HTTP answer will be admitted.
Settled(at, s) == at # "none" => s.http < s.applied

\* A patch does not go back behind what is shown, or behind a sync ahead of it.
Due(p, c, d, s, at, snap) ==
    \A i \in 0 .. Len(d), x \in Fields : Patch(d, i) /\ Sent(c, d, i)[x] # 0 =>
        \/ Opened(s, d, i)
        \/ Settled(at, s) /\ Renews(p, snap[x], Sent(c, d, i)[x])

\* Before the first sync of a run of Klippy there is no patch of that run.
Unheard(p, subscribed, c, d, s) ==
    ~subscribed /\ p.klippy = "up" =>
        /\ \A i \in 0 .. Len(d), x \in Fields : Patch(d, i) => Sent(c, d, i)[x] < p.epoch
        /\ Heard(s, d, Len(d) + 1)
Tuned(p, subscribed, d, s, at) ==
    subscribed => p.klippy = "up" /\ (Opened(s, d, Len(d) + 1) \/ Settled(at, s))

Later(c, s, at) == at # "none" => s.http < s.sub /\ (c # Nothing => s.http < s.core)

Awaits(p, subscribed, c, d, s, at, snap) ==
    /\ Due(p, c, d, s, at, snap) /\ Unheard(p, subscribed, c, d, s)
    /\ Tuned(p, subscribed, d, s, at) /\ Later(c, s, at)

LEMMA LatestHeard ==
    ASSUME NEW s, NEW t, Latest(s) => Latest(t), NEW d, NEW k
    PROVE  /\ Heard(s, d, k) => Heard(t, d, k)
           /\ Opened(s, d, k) => Opened(t, d, k)
BY DEF Heard, Opened

LEMMA LongerHeard ==
    ASSUME NEW s, NEW d \in Seq(Messages), NEW e, NEW m, Longer(d, e, m),
           NEW k \in 0 .. Len(d) + 1
    PROVE  /\ Heard(s, d, k) => Heard(s, e, k)
           /\ Opened(s, d, k) => Opened(s, e, k) /\ Opened(s, e, Len(e) + 1)
<1>1. Len(d) \in Nat /\ Len(e) = Len(d) + 1 /\ \A i \in 1 .. Len(d) : e[i] = d[i]
  BY DEF Longer
<1>2. ASSUME NEW n \in 0 .. Len(d) + 1, Heard(s, d, n) PROVE Heard(s, e, n)
  <2>1. \A i \in 1 .. n - 1 : e[i] = d[i]
    BY <1>1
  <2>2. \A r \in 1 .. n - 1 : \A i \in r .. n - 1 : i \in 1 .. n - 1
    OBVIOUS
  <2> QED BY <1>2, <2>1, <2>2 DEF Heard
<1>3. ASSUME Opened(s, d, k) PROVE Opened(s, e, k) /\ Opened(s, e, Len(e) + 1)
  <2>1. PICK j \in 1 .. k - 1 : d[j].kind = "sync" /\ Heard(s, d, j)
    BY <1>3 DEF Opened
  <2>2. j \in 1 .. Len(d) /\ j \in 0 .. Len(d) + 1 /\ j \in 1 .. (Len(e) + 1) - 1
    BY <1>1, <2>1
  <2>3. e[j].kind = "sync" /\ Heard(s, e, j)
    BY <1>1, <1>2, <2>1, <2>2
  <2> QED BY <2>1, <2>2, <2>3 DEF Opened
<1> QED BY <1>2, <1>3

LEMMA ShorterHeard ==
    ASSUME NEW s, NEW t, NEW d \in Seq(Messages), NEW e \in Seq(Messages), Shorter(d, e),
           d[1].kind = "patch" \/ (Latest(s) => Latest(t)),
           d[1].kind = "ready" => Latest(t), NEW k \in 1 .. Len(e) + 1
    PROVE  /\ Heard(s, d, k + 1) => Heard(t, e, k)
           /\ Opened(s, d, k + 1) => Opened(t, e, k) \/ (d[1].kind = "sync" /\ Latest(s))
<1>1. /\ Len(d) \in Nat /\ Len(e) \in Nat /\ Len(d) = Len(e) + 1
      /\ \A i \in 1 .. Len(e) : e[i] = d[i + 1]
  BY DEF Shorter
<1>2. ASSUME NEW n \in 1 .. Len(e) + 1, Heard(s, d, n + 1) PROVE Heard(t, e, n)
  <2>0. (n + 1) - 1 = n /\ \A i \in 1 .. n - 1 : i \in 1 .. Len(e) /\ i + 1 \in 1 .. n
    BY <1>1
  <2>1. CASE Latest(s) /\ \A i \in 1 .. n : d[i].kind # "patch"
    <3>1. Latest(t)
      BY <2>1
    <3>2. \A i \in 1 .. n - 1 : e[i].kind # "patch"
      BY <1>1, <2>0, <2>1
    <3> QED BY <3>1, <3>2 DEF Heard
  <2>2. ASSUME NEW r \in 1 .. n, d[r].kind = "ready", \A i \in r .. n : d[i].kind # "patch"
        PROVE  Heard(t, e, n)
    <3>1. CASE r = 1
      <4>1. Latest(t)
        BY <2>2, <3>1
      <4>2. \A i \in 1 .. n - 1 : e[i].kind # "patch"
        BY <1>1, <2>0, <2>2, <3>1
      <4> QED BY <4>1, <4>2 DEF Heard
    <3>2. CASE r # 1
      <4>1. r - 1 \in 1 .. n - 1 /\ (r - 1) + 1 = r
        BY <3>2
      <4>2. e[r - 1].kind = "ready"
        BY <1>1, <2>0, <2>2, <4>1
      <4>3. \A i \in r - 1 .. n - 1 : i \in 1 .. n - 1 /\ i + 1 \in r .. n
        BY <4>1
      <4>4. \A i \in r - 1 .. n - 1 : e[i].kind # "patch"
        BY <1>1, <2>0, <2>2, <4>3
      <4> QED BY <4>1, <4>2, <4>4 DEF Heard
    <3> QED BY <3>1, <3>2
  <2> QED BY <1>2, <2>0, <2>1, <2>2 DEF Heard
<1>3. ASSUME Opened(s, d, k + 1) PROVE Opened(t, e, k) \/ (d[1].kind = "sync" /\ Latest(s))
  <2>1. PICK j \in 1 .. k : d[j].kind = "sync" /\ Heard(s, d, j)
    BY <1>3 DEF Opened
  <2>2. CASE j = 1
    BY <2>1, <2>2 DEF Heard
  <2>3. CASE j # 1
    <3>1. j - 1 \in 1 .. k - 1 /\ (j - 1) + 1 = j /\ j - 1 \in 1 .. Len(e)
          /\ j - 1 \in 1 .. Len(e) + 1
      BY <1>1, <2>3
    <3>2. e[j - 1].kind = "sync" /\ Heard(t, e, j - 1)
      BY <1>1, <1>2, <2>1, <3>1
    <3> QED BY <3>1, <3>2 DEF Opened
  <2> QED BY <2>2, <2>3
<1> QED BY <1>2, <1>3

\* A subscribe is stamped.
LEMMA SubscribedAwaits ==
    ASSUME NEW p, NEW subscribed, NEW c, NEW d, NEW s, NEW t, NEW at, NEW snap,
           Awaits(p, subscribed, c, d, s, at, snap),
           t.http = s.http, t.core = s.core, t.applied = s.applied, Latest(t), t.http < t.sub
    PROVE  Awaits(p, subscribed, c, d, t, at, snap)
<1>1. \A k : (Heard(s, d, k) => Heard(t, d, k)) /\ (Opened(s, d, k) => Opened(t, d, k))
  BY LatestHeard
<1>2. Settled(at, s) => Settled(at, t)
  BY DEF Settled
<1> QED BY <1>1, <1>2 DEF Awaits, Due, Unheard, Tuned, Later

\* The fragments are shown.
LEMMA DrainedAwaits ==
    ASSUME NEW p, NEW subscribed, NEW c \in Statuses, NEW d \in Seq(Messages),
           NEW s \in Stamps, NEW t \in Stamps, NEW at, NEW snap,
           Told(p, c, d), Awaits(p, subscribed, c, d, s, at, snap), p.epoch \in Nat \ {0},
           t.http = s.http, t.sub = s.sub, t.core = 0, t.applied \in {s.applied, s.core},
           t.applied >= s.applied
    PROVE  Awaits(p, subscribed, Nothing, d, t, at, Merged(snap, c))
<1>1. /\ \A i \in 1 .. Len(d) : Sent(Nothing, d, i) = Sent(c, d, i)
      /\ \A x \in Fields : Sent(Nothing, d, 0)[x] = 0 /\ Sent(c, d, 0)[x] = c[x]
  BY DEF Sent, Nothing
<1>2. \A k : (Heard(s, d, k) => Heard(t, d, k)) /\ (Opened(s, d, k) => Opened(t, d, k))
  <2>1. Latest(s) => Latest(t)
    BY DEF Latest, Stamps
  <2> QED BY <2>1, LatestHeard
<1>3. Settled(at, s) => Settled(at, t)
  BY DEF Settled, Stamps
<1>4. Due(p, Nothing, d, t, at, Merged(snap, c))
  <2> SUFFICES ASSUME NEW i \in 0 .. Len(d), NEW x \in Fields,
                      Patch(d, i), Sent(Nothing, d, i)[x] # 0
               PROVE  \/ Opened(t, d, i)
                      \/ /\ Settled(at, t)
                         /\ Renews(p, Merged(snap, c)[x], Sent(Nothing, d, i)[x])
    BY DEF Due
  <2>1. i \in 1 .. Len(d) /\ Sent(Nothing, d, i) = Sent(c, d, i)
    BY <1>1
  <2>2. \/ Opened(s, d, i)
        \/ Settled(at, s) /\ Renews(p, snap[x], Sent(c, d, i)[x])
    BY <2>1 DEF Awaits, Due
  <2>3. Renews(p, snap[x], Sent(c, d, i)[x]) => Renews(p, Merged(snap, c)[x], Sent(c, d, i)[x])
    <3>1. CASE c[x] = 0
      BY <3>1 DEF Merged
    <3>2. CASE c[x] # 0
      <4>1. c[x] <= Sent(c, d, i)[x]
        BY <1>1, <2>1, <3>2 DEF Told, Ordered
      <4>2. Merged(snap, c)[x] = c[x] /\ c[x] \in Nat /\ Sent(c, d, i)[x] \in Nat
        BY <3>2, SentType, BoundsAssumption DEF Merged, Statuses, Versions
      <4> QED BY <4>1, <4>2 DEF Renews
    <3> QED BY <3>1, <3>2
  <2> QED BY <1>2, <1>3, <2>1, <2>2, <2>3
<1>5. Unheard(p, subscribed, Nothing, d, t)
  <2>1. ASSUME \A i \in 0 .. Len(d), x \in Fields : Patch(d, i) => Sent(c, d, i)[x] < p.epoch,
               NEW i \in 0 .. Len(d), NEW x \in Fields, Patch(d, i)
        PROVE  Sent(Nothing, d, i)[x] < p.epoch
    BY <1>1, <2>1
  <2> QED BY <1>2, <2>1 DEF Awaits, Unheard
<1>6. Tuned(p, subscribed, d, t, at)
  BY <1>2, <1>3 DEF Awaits, Tuned
<1>7. Later(Nothing, t, at)
  BY DEF Awaits, Later
<1> QED BY <1>4, <1>5, <1>6, <1>7 DEF Awaits

\* A patch is read.
LEMMA AccumulatedAwaits ==
    ASSUME NEW p, NEW subscribed, NEW c \in Statuses, NEW d \in Seq(Messages),
           NEW e \in Seq(Messages), NEW s, NEW t, NEW at, NEW snap,
           Awaits(p, subscribed, c, d, s, at, snap), Shorter(d, e), d[1].kind = "patch",
           t.http = s.http, t.sub = s.sub, t.applied = s.applied, t.http < t.core
    PROVE  Awaits(p, subscribed, Merged(c, d[1].status), e, t, at, snap)
<1> DEFINE g == Merged(c, d[1].status)
<1>0. Len(d) \in Nat /\ Len(e) \in Nat /\ Len(d) = Len(e) + 1 /\ 1 \in 0 .. Len(d)
  BY DEF Shorter
<1>1. ASSUME NEW i \in 1 .. Len(e)
      PROVE  /\ i + 1 \in 0 .. Len(d) /\ i \in 1 .. Len(e) + 1
             /\ Sent(g, e, i) = Sent(c, d, i + 1) /\ (Patch(e, i) <=> Patch(d, i + 1))
  <2>1. i + 1 \in 0 .. Len(d) /\ e[i] = d[i + 1] /\ i # 0 /\ i + 1 # 0
    BY <1>0 DEF Shorter
  <2> QED BY <2>1, <1>0 DEF Sent, Patch
<1>2. /\ Sent(g, e, 0) = g /\ Sent(c, d, 0) = c /\ Sent(c, d, 1) = d[1].status
      /\ Patch(d, 0) /\ Patch(d, 1)
  BY DEF Sent, Patch
<1>3. \A x \in Fields : g[x] \in {Sent(c, d, 0)[x], Sent(c, d, 1)[x]}
  BY <1>2 DEF Merged
<1>4. \A k \in 1 .. Len(e) + 1 : /\ Heard(s, d, k + 1) => Heard(t, e, k)
                                 /\ Opened(s, d, k + 1) => Opened(t, e, k)
  BY ShorterHeard
<1>5. Settled(at, s) => Settled(at, t)
  BY DEF Settled
<1>6. ~Opened(s, d, 0) /\ ~Opened(s, d, 1)
  BY DEF Opened
<1>7. Due(p, g, e, t, at, snap)
  <2> SUFFICES ASSUME NEW i \in 0 .. Len(e), NEW x \in Fields,
                      Patch(e, i), Sent(g, e, i)[x] # 0
               PROVE  \/ Opened(t, e, i)
                      \/ Settled(at, t) /\ Renews(p, snap[x], Sent(g, e, i)[x])
    BY DEF Due
  <2>1. CASE i = 0
    <3>1. PICK j \in {0, 1} : Sent(g, e, i)[x] = Sent(c, d, j)[x] /\ Patch(d, j)
      <4> HIDE DEF g
      <4> QED BY <1>2, <1>3, <2>1
    <3>2. j \in 0 .. Len(d) /\ ~Opened(s, d, j)
      BY <1>0, <1>6
    <3> HIDE DEF g
    <3> QED BY <1>5, <3>1, <3>2 DEF Awaits, Due
  <2>2. CASE i # 0
    <3>1. i \in 1 .. Len(e)
      BY <2>2
    <3> HIDE DEF g
    <3> QED BY <1>1, <1>4, <1>5, <3>1 DEF Awaits, Due
  <2> QED BY <2>1, <2>2
<1>8. Unheard(p, subscribed, g, e, t)
  <2> SUFFICES ASSUME ~subscribed /\ p.klippy = "up"
               PROVE  /\ \A i \in 0 .. Len(e), x \in Fields :
                            Patch(e, i) => Sent(g, e, i)[x] < p.epoch
                      /\ Heard(t, e, Len(e) + 1)
    BY DEF Unheard
  <2>1. /\ \A i \in 0 .. Len(d), x \in Fields : Patch(d, i) => Sent(c, d, i)[x] < p.epoch
        /\ Heard(s, d, Len(d) + 1)
    BY DEF Awaits, Unheard
  <2>2. Heard(t, e, Len(e) + 1)
    BY <1>0, <1>4, <2>1
  <2>3. ASSUME NEW i \in 0 .. Len(e), NEW x \in Fields, Patch(e, i)
        PROVE  Sent(g, e, i)[x] < p.epoch
    <3>1. CASE i = 0
      <4>1. 0 \in 0 .. Len(d)
        BY <1>0
      <4> HIDE DEF g
      <4> QED BY <1>0, <1>2, <1>3, <2>1, <3>1, <4>1
    <3>2. CASE i # 0
      <4>1. i \in 1 .. Len(e)
        BY <3>2
      <4> HIDE DEF g
      <4> QED BY <1>1, <2>1, <2>3, <4>1
    <3> QED BY <3>1, <3>2
  <2> QED BY <2>2, <2>3
<1>9. Tuned(p, subscribed, e, t, at)
  <2>1. Len(e) + 1 \in 1 .. Len(e) + 1 /\ Len(d) + 1 = (Len(e) + 1) + 1
    BY <1>0
  <2> QED BY <1>4, <1>5, <2>1 DEF Awaits, Tuned
<1>10. Later(g, t, at)
  BY DEF Awaits, Later
<1> QED BY <1>7, <1>8, <1>9, <1>10 DEF Awaits

\* The reply to a subscribe is read, and admitted unless more was shown since.
LEMMA SyncAwaits ==
    ASSUME NEW p, NEW subscribed, NEW c \in Statuses, NEW d \in Seq(Messages),
           NEW e \in Seq(Messages), NEW s \in Stamps, NEW t \in Stamps, NEW at,
           NEW snap, NEW shown,
           Told(p, c, d), Awaits(p, subscribed, c, d, s, at, snap),
           d # <<>>, Shorter(d, e), d[1].kind = "sync",
           t.http = s.http, t.sub = s.sub, t.core = s.core,
           IF s.sub < s.applied
           THEN t.applied = s.applied /\ shown = snap
           ELSE t.applied = s.sub /\ shown = Merged(snap, d[1].status)
    PROVE  Awaits(p, subscribed, c, e, t, at, shown)
<1>0. /\ Len(d) \in Nat /\ Len(e) \in Nat /\ Len(d) = Len(e) + 1 /\ 1 \in 1 .. Len(d)
      /\ d[1] \in Messages
  BY DEF Shorter
<1>1. ASSUME NEW i \in 1 .. Len(e)
      PROVE  /\ i + 1 \in 0 .. Len(d) /\ i \in 1 .. Len(e) + 1
             /\ Sent(c, e, i) = Sent(c, d, i + 1) /\ (Patch(e, i) <=> Patch(d, i + 1))
  <2>1. i + 1 \in 0 .. Len(d) /\ e[i] = d[i + 1] /\ i # 0 /\ i + 1 # 0
    BY <1>0 DEF Shorter
  <2> QED BY <2>1, <1>0 DEF Sent, Patch
<1>2. /\ Sent(c, e, 0) = c /\ Sent(c, d, 0) = c /\ Sent(c, d, 1) = d[1].status
      /\ Patch(d, 0) /\ 0 \in 0 .. Len(d) /\ 1 \in 0 .. Len(d)
  BY <1>0 DEF Sent, Patch
<1>3. /\ s.http \in Nat /\ s.sub \in Nat /\ s.core \in Nat /\ s.applied \in Nat
      /\ t.http \in Nat /\ t.sub \in Nat /\ t.core \in Nat /\ t.applied \in Nat
  BY DEF Stamps
<1>4. /\ Latest(s) => Latest(t) /\ ~(s.sub < s.applied)
      /\ Settled(at, s) => Settled(at, t)
      /\ ~(s.sub < s.applied) => Settled(at, t)
  BY <1>3 DEF Latest, Settled, Awaits, Later
<1>5. \A k \in 1 .. Len(e) + 1 : /\ Heard(s, d, k + 1) => Heard(t, e, k)
                                 /\ Opened(s, d, k + 1) => Opened(t, e, k) \/ Latest(s)
  BY <1>4, ShorterHeard
\* What the sync brings.
<1>6. ~(s.sub < s.applied) => \A x \in Fields : shown[x] = d[1].status[x]
  BY <1>0 DEF Told, Whole, Merged
<1>7. Due(p, c, e, t, at, shown)
  <2> SUFFICES ASSUME NEW i \in 0 .. Len(e), NEW x \in Fields,
                      Patch(e, i), Sent(c, e, i)[x] # 0
               PROVE  \/ Opened(t, e, i)
                      \/ Settled(at, t) /\ Renews(p, shown[x], Sent(c, e, i)[x])
    BY DEF Due
  <2>1. CASE i = 0
    <3>1. ~Opened(s, d, 0)
      BY DEF Opened
    <3>2. Settled(at, s) /\ Renews(p, snap[x], c[x]) /\ c[x] # 0
      BY <1>2, <2>1, <3>1 DEF Awaits, Due
    <3>3. Renews(p, d[1].status[x], c[x])
      <4>1. Covered(p, c, d, 1, d[1].status)
        BY <1>0 DEF Told, Backed
      <4>2. 0 \in 0 .. 1 - 1 /\ ~\E m \in 0 + 1 .. 1 - 1 : TRUE
        OBVIOUS
      <4> QED BY <1>2, <3>2, <4>1, <4>2 DEF Covered
    <3> QED BY <1>2, <1>4, <1>6, <2>1, <3>2, <3>3
  <2>2. CASE i # 0
    <3>1. i \in 1 .. Len(e)
      BY <2>2
    <3>2. /\ i + 1 \in 0 .. Len(d) /\ Patch(d, i + 1) /\ Sent(c, e, i) = Sent(c, d, i + 1)
          /\ Opened(s, d, i + 1) => Opened(t, e, i) \/ Latest(s)
      BY <1>1, <1>5, <3>1
    <3>3. \/ Opened(s, d, i + 1)
          \/ Settled(at, s) /\ Renews(p, snap[x], Sent(c, d, i + 1)[x])
      BY <3>2 DEF Awaits, Due
    <3>4. CASE s.sub < s.applied
      BY <1>4, <3>2, <3>3, <3>4
    <3>5. CASE ~(s.sub < s.applied)
      <4>1. d[1].status[x] # 0
        BY <1>0 DEF Told, Whole
      <4>2. d[1].status[x] <= Sent(c, d, i + 1)[x]
        <5>1. 1 < i + 1
          BY <3>1
        <5> QED BY <1>2, <3>2, <4>1, <5>1 DEF Told, Ordered
      <4>3. d[1].status[x] \in Nat /\ Sent(c, d, i + 1)[x] \in Nat
        BY <1>2, <3>2, SentType
      <4>4. Renews(p, shown[x], Sent(c, e, i)[x])
        BY <1>6, <3>2, <3>5, <4>2, <4>3 DEF Renews
      <4> QED BY <1>4, <3>5, <4>4
    <3> QED BY <3>4, <3>5
  <2> QED BY <2>1, <2>2
<1>8. Unheard(p, subscribed, c, e, t)
  <2> SUFFICES ASSUME ~subscribed /\ p.klippy = "up"
               PROVE  /\ \A i \in 0 .. Len(e), x \in Fields :
                            Patch(e, i) => Sent(c, e, i)[x] < p.epoch
                      /\ Heard(t, e, Len(e) + 1)
    BY DEF Unheard
  <2>1. /\ \A i \in 0 .. Len(d), x \in Fields : Patch(d, i) => Sent(c, d, i)[x] < p.epoch
        /\ Heard(s, d, Len(d) + 1)
    BY DEF Awaits, Unheard
  <2>2. Heard(t, e, Len(e) + 1)
    BY <1>0, <1>5, <2>1
  <2>3. ASSUME NEW i \in 0 .. Len(e), NEW x \in Fields, Patch(e, i)
        PROVE  Sent(c, e, i)[x] < p.epoch
    <3>1. CASE i = 0
      BY <1>2, <2>1, <3>1
    <3>2. CASE i # 0
      BY <1>1, <2>1, <2>3, <3>2
    <3> QED BY <3>1, <3>2
  <2> QED BY <2>2, <2>3
<1>9. Tuned(p, subscribed, e, t, at)
  <2>1. Len(e) + 1 \in 1 .. Len(e) + 1 /\ Len(d) + 1 = (Len(e) + 1) + 1
    BY <1>0
  <2> QED BY <1>4, <1>5, <2>1 DEF Awaits, Tuned
<1>10. Later(c, t, at)
  BY DEF Awaits, Later
<1> QED BY <1>7, <1>8, <1>9, <1>10 DEF Awaits

\* Another message is read: it says nothing, or stamps a new subscribe.
LEMMA ReadAwaits ==
    ASSUME NEW p, NEW subscribed, NEW c \in Statuses, NEW d \in Seq(Messages),
           NEW e \in Seq(Messages), NEW s, NEW t, NEW at, NEW snap,
           Awaits(p, subscribed, c, d, s, at, snap), d # <<>>, Shorter(d, e),
           d[1].kind \notin {"patch", "sync"},
           t.http = s.http, t.core = s.core, t.applied = s.applied,
           Latest(s) \/ d[1].kind = "ready" => Latest(t), s.sub <= t.sub \/ t.http < t.sub,
           s.http < s.sub => t.http < t.sub
    PROVE  Awaits(p, subscribed, c, e, t, at, snap)
<1>0. Len(d) \in Nat /\ Len(e) \in Nat /\ Len(d) = Len(e) + 1
  BY DEF Shorter
<1>1. ASSUME NEW i \in 1 .. Len(e)
      PROVE  /\ i + 1 \in 0 .. Len(d) /\ i \in 1 .. Len(e) + 1
             /\ Sent(c, e, i) = Sent(c, d, i + 1) /\ (Patch(e, i) <=> Patch(d, i + 1))
  <2>1. i + 1 \in 0 .. Len(d) /\ e[i] = d[i + 1] /\ i # 0 /\ i + 1 # 0
    BY <1>0 DEF Shorter
  <2> QED BY <2>1, <1>0 DEF Sent, Patch
<1>2. /\ Sent(c, e, 0) = c /\ Sent(c, d, 0) = c /\ Patch(d, 0) /\ 0 \in 0 .. Len(d)
  BY <1>0 DEF Sent, Patch
<1>3. \A k \in 1 .. Len(e) + 1 : /\ Heard(s, d, k + 1) => Heard(t, e, k)
                                 /\ Opened(s, d, k + 1) => Opened(t, e, k)
  BY ShorterHeard
<1>4. Settled(at, s) => Settled(at, t)
  BY DEF Settled
<1>5. Due(p, c, e, t, at, snap)
  <2> SUFFICES ASSUME NEW i \in 0 .. Len(e), NEW x \in Fields,
                      Patch(e, i), Sent(c, e, i)[x] # 0
               PROVE  \/ Opened(t, e, i)
                      \/ Settled(at, t) /\ Renews(p, snap[x], Sent(c, e, i)[x])
    BY DEF Due
  <2>1. CASE i = 0
    <3>1. ~Opened(s, d, 0)
      BY DEF Opened
    <3> QED BY <1>2, <1>4, <2>1, <3>1 DEF Awaits, Due
  <2>2. CASE i # 0
    <3>1. i \in 1 .. Len(e)
      BY <2>2
    <3> QED BY <1>1, <1>3, <1>4, <3>1 DEF Awaits, Due
  <2> QED BY <2>1, <2>2
<1>6. Unheard(p, subscribed, c, e, t)
  <2> SUFFICES ASSUME ~subscribed /\ p.klippy = "up"
               PROVE  /\ \A i \in 0 .. Len(e), x \in Fields :
                            Patch(e, i) => Sent(c, e, i)[x] < p.epoch
                      /\ Heard(t, e, Len(e) + 1)
    BY DEF Unheard
  <2>1. /\ \A i \in 0 .. Len(d), x \in Fields : Patch(d, i) => Sent(c, d, i)[x] < p.epoch
        /\ Heard(s, d, Len(d) + 1)
    BY DEF Awaits, Unheard
  <2>2. Heard(t, e, Len(e) + 1)
    BY <1>0, <1>3, <2>1
  <2>3. ASSUME NEW i \in 0 .. Len(e), NEW x \in Fields, Patch(e, i)
        PROVE  Sent(c, e, i)[x] < p.epoch
    <3>1. CASE i = 0
      BY <1>2, <2>1, <3>1
    <3>2. CASE i # 0
      BY <1>1, <2>1, <2>3, <3>2
    <3> QED BY <3>1, <3>2
  <2> QED BY <2>2, <2>3
<1>7. Tuned(p, subscribed, e, t, at)
  <2>1. Len(e) + 1 \in 1 .. Len(e) + 1 /\ Len(d) + 1 = (Len(e) + 1) + 1
    BY <1>0
  <2> QED BY <1>3, <1>4, <2>1 DEF Awaits, Tuned
<1>8. Later(c, t, at)
  BY DEF Awaits, Later
<1> QED BY <1>5, <1>6, <1>7, <1>8 DEF Awaits

\* The HTTP request is over; its answer is shown only if nothing was settled.
LEMMA RepliedAwaits ==
    ASSUME NEW p, NEW subscribed, NEW c \in Statuses, NEW d \in Seq(Messages),
           NEW s \in Stamps, NEW t \in Stamps, NEW at, NEW snap, NEW shown,
           Awaits(p, subscribed, c, d, s, at, snap), at # "none",
           t.http = 0, t.sub = s.sub, t.core = s.core,
           \/ t.applied = s.applied /\ shown = snap
           \/ t.applied = s.http /\ s.applied <= s.http
    PROVE  Awaits(p, subscribed, c, d, t, "none", shown)
<1>1. /\ s.http \in Nat /\ s.sub \in Nat /\ s.core \in Nat /\ s.applied \in Nat
      /\ t.http \in Nat /\ t.sub \in Nat /\ t.core \in Nat /\ t.applied \in Nat
  BY DEF Stamps
<1>2. \A k : (Heard(s, d, k) => Heard(t, d, k)) /\ (Opened(s, d, k) => Opened(t, d, k))
  <2>1. Latest(s) => Latest(t)
    BY <1>1 DEF Latest
  <2> QED BY <2>1, LatestHeard
<1>3. /\ Settled("none", t)
      /\ ~(t.applied = s.applied /\ shown = snap) => ~Settled(at, s)
  BY <1>1 DEF Settled
<1>4. Due(p, c, d, t, "none", shown)
  BY <1>2, <1>3 DEF Awaits, Due
<1>5. Unheard(p, subscribed, c, d, t) /\ Tuned(p, subscribed, d, t, "none") /\ Later(c, t, "none")
  BY <1>2, <1>3 DEF Awaits, Unheard, Tuned, Later
<1> QED BY <1>4, <1>5 DEF Awaits

\* The printer's other facts do not matter, and its runs only grow.
LEMMA MovedAwaits ==
    ASSUME NEW p, NEW q, NEW subscribed, NEW c, NEW d, NEW s, NEW at, NEW snap,
           Awaits(p, subscribed, c, d, s, at, snap),
           q.klippy = p.klippy, q.epoch = p.epoch, p.runs \subseteq q.runs
    PROVE  Awaits(q, subscribed, c, d, s, at, snap)
BY DEF Awaits, Due, Unheard, Tuned, Later, Renews

\* Something that is not a patch goes on the line: subscribed and q are what
\* the subscription and the printer were, and now and q what they are.
LEMMA AppendedAwaits ==
    ASSUME NEW p, NEW q, NEW subscribed, NEW now,
           NEW c \in Statuses, NEW d \in Seq(Messages), NEW e, NEW m, NEW s, NEW at, NEW snap,
           Awaits(p, subscribed, c, d, s, at, snap), Longer(d, e, m), m.kind # "patch",
           p.runs \subseteq q.runs,
           \/ (now <=> subscribed) /\ q.klippy = p.klippy /\ q.epoch = p.epoch
           \/ now /\ m.kind = "sync" /\ p.klippy = "up" /\ q.klippy = "up"
           \/ ~now /\ q.klippy = "down"
           \/ /\ ~now /\ m.kind = "ready"
              /\ \A i \in 0 .. Len(d), x \in Fields : Patch(d, i) => Sent(c, d, i)[x] < q.epoch
    PROVE  Awaits(q, now, c, e, s, at, snap)
<1>1. /\ \A i \in 0 .. Len(d) : Sent(c, e, i) = Sent(c, d, i) /\ (Patch(e, i) <=> Patch(d, i))
      /\ ~Patch(e, Len(d) + 1) /\ Len(d) \in Nat /\ Len(e) = Len(d) + 1
      /\ e[Len(d) + 1] = m
  BY LongerSame DEF Longer
<1>2. \A i \in 0 .. Len(e) : Patch(e, i) => i \in 0 .. Len(d)
  BY <1>1
<1>3. \A k \in 0 .. Len(d) + 1 :
         /\ Heard(s, d, k) => Heard(s, e, k)
         /\ Opened(s, d, k) => Opened(s, e, k) /\ Opened(s, e, Len(e) + 1)
  BY LongerHeard
<1>4. Heard(s, d, Len(d) + 1) => /\ Heard(s, e, Len(e) + 1)
                                 /\ m.kind = "sync" => Opened(s, e, Len(e) + 1)
  <2> SUFFICES ASSUME Heard(s, d, Len(d) + 1)
               PROVE  /\ Heard(s, e, Len(e) + 1)
                      /\ m.kind = "sync" => Opened(s, e, Len(e) + 1)
    OBVIOUS
  <2>1. Heard(s, e, Len(d) + 1)
    BY <1>1, <1>3
  <2>2. /\ \A r \in 1 .. Len(d) : r \in 1 .. Len(e)
        /\ \A r \in 1 .. Len(d) + 1 : \A i \in r .. Len(e) : i \in r .. Len(d) \/ i = Len(d) + 1
        /\ (Len(e) + 1) - 1 = Len(e) /\ (Len(d) + 1) - 1 = Len(d) /\ 1 \in 1 .. Len(d) + 1
    BY <1>1
  <2>3. Heard(s, e, Len(e) + 1)
    BY <1>1, <2>1, <2>2 DEF Heard
  <2>4. m.kind = "sync" => Opened(s, e, Len(e) + 1)
    <3>1. Len(d) + 1 \in 1 .. (Len(e) + 1) - 1
      BY <1>1
    <3> QED BY <1>1, <2>1, <3>1 DEF Opened
  <2> QED BY <2>3, <2>4
<1>5. m.kind = "ready" => Heard(s, e, Len(e) + 1)
  <2>1. Len(d) + 1 \in 1 .. (Len(e) + 1) - 1
        /\ \A i \in Len(d) + 1 .. (Len(e) + 1) - 1 : i = Len(d) + 1
    BY <1>1
  <2> QED BY <1>1, <2>1 DEF Heard
<1>6. Due(q, c, e, s, at, snap)
  <2> SUFFICES ASSUME NEW i \in 0 .. Len(e), NEW x \in Fields,
                      Patch(e, i), Sent(c, e, i)[x] # 0
               PROVE  \/ Opened(s, e, i)
                      \/ Settled(at, s) /\ Renews(q, snap[x], Sent(c, e, i)[x])
    BY DEF Due
  <2>1. i \in 0 .. Len(d) /\ i \in 0 .. Len(d) + 1
    BY <1>1, <1>2
  <2>2. Opened(s, d, i) \/ (Settled(at, s) /\ Renews(p, snap[x], Sent(c, d, i)[x]))
    BY <1>1, <2>1 DEF Awaits, Due
  <2>3. Renews(p, snap[x], Sent(c, d, i)[x]) => Renews(q, snap[x], Sent(c, d, i)[x])
    BY DEF Renews
  <2> QED BY <1>1, <1>3, <2>1, <2>2, <2>3
<1>7. Unheard(q, now, c, e, s)
  <2> SUFFICES ASSUME ~now /\ q.klippy = "up"
               PROVE  /\ \A i \in 0 .. Len(e), x \in Fields :
                            Patch(e, i) => Sent(c, e, i)[x] < q.epoch
                      /\ Heard(s, e, Len(e) + 1)
    BY DEF Unheard
  <2>1. CASE (now <=> subscribed) /\ q.klippy = p.klippy /\ q.epoch = p.epoch
    <3>1. /\ \A i \in 0 .. Len(d), x \in Fields : Patch(d, i) => Sent(c, d, i)[x] < p.epoch
          /\ Heard(s, d, Len(d) + 1)
      BY <2>1 DEF Awaits, Unheard
    <3> QED BY <1>1, <1>2, <1>4, <2>1, <3>1
  <2>2. CASE /\ ~now /\ m.kind = "ready"
             /\ \A i \in 0 .. Len(d), x \in Fields : Patch(d, i) => Sent(c, d, i)[x] < q.epoch
    BY <1>1, <1>2, <1>5, <2>2
  <2> QED BY <2>1, <2>2
<1>8. Tuned(q, now, e, s, at)
  <2> SUFFICES ASSUME now
               PROVE  q.klippy = "up" /\ (Opened(s, e, Len(e) + 1) \/ Settled(at, s))
    BY DEF Tuned
  <2>1. Len(d) + 1 \in 0 .. Len(d) + 1
    BY <1>1
  <2>2. CASE subscribed
    <3>1. p.klippy = "up" /\ (Opened(s, d, Len(d) + 1) \/ Settled(at, s))
      BY <2>2 DEF Awaits, Tuned
    <3> QED BY <1>3, <2>1, <3>1
  <2>3. CASE ~subscribed
    <3>1. m.kind = "sync" /\ p.klippy = "up" /\ q.klippy = "up"
      BY <2>3
    <3>2. Heard(s, d, Len(d) + 1)
      BY <2>3, <3>1 DEF Awaits, Unheard
    <3> QED BY <1>4, <3>1, <3>2
  <2> QED BY <2>2, <2>3
<1>9. Later(c, s, at)
  BY DEF Awaits
<1> QED BY <1>6, <1>7, <1>8, <1>9 DEF Awaits

\* A patch goes on the line of a subscriber.
LEMMA PatchedAwaits ==
    ASSUME NEW p, NEW q, NEW c \in Statuses, NEW d \in Seq(Messages), NEW e, NEW m, NEW s,
           NEW at, NEW snap \in Statuses,
           NEW subscribed, subscribed,
           Awaits(p, subscribed, c, d, s, at, snap), Longer(d, e, m),
           q.klippy = p.klippy, q.runs = p.runs,
           NEW x \in Fields, NEW n \in Nat, \A y \in Fields : snap[y] <= n,
           m.kind = "patch", Turned(m.status, Nothing, x, n)
    PROVE  Awaits(q, subscribed, c, e, s, at, snap)
<1>1. /\ \A i \in 0 .. Len(d) : Sent(c, e, i) = Sent(c, d, i) /\ (Patch(e, i) <=> Patch(d, i))
      /\ Sent(c, e, Len(d) + 1) = m.status /\ Len(d) \in Nat /\ Len(e) = Len(d) + 1
  BY LongerSame
<1>2. \A i \in 0 .. Len(e) : i \in 0 .. Len(d) \/ i = Len(d) + 1
  BY <1>1
<1>3. \A k \in 0 .. Len(d) + 1 :
         /\ Opened(s, d, k) => Opened(s, e, k) /\ Opened(s, e, Len(e) + 1)
  BY LongerHeard
<1>4. Opened(s, d, Len(d) + 1) \/ Settled(at, s)
  BY DEF Awaits, Tuned
<1>5. Due(q, c, e, s, at, snap)
  <2> SUFFICES ASSUME NEW i \in 0 .. Len(e), NEW y \in Fields,
                      Patch(e, i), Sent(c, e, i)[y] # 0
               PROVE  \/ Opened(s, e, i)
                      \/ Settled(at, s) /\ Renews(q, snap[y], Sent(c, e, i)[y])
    BY DEF Due
  <2>1. CASE i \in 0 .. Len(d)
    <3>1. i \in 0 .. Len(d) + 1
      BY <1>1, <2>1
    <3>2. Opened(s, d, i) \/ (Settled(at, s) /\ Renews(p, snap[y], Sent(c, d, i)[y]))
      BY <1>1, <2>1 DEF Awaits, Due
    <3>3. Renews(p, snap[y], Sent(c, d, i)[y]) => Renews(q, snap[y], Sent(c, d, i)[y])
      BY DEF Renews
    <3> QED BY <1>1, <1>3, <2>1, <3>1, <3>2, <3>3
  <2>2. CASE i = Len(d) + 1
    <3>1. Sent(c, e, i)[y] = n
      <4>1. m.status[y] = IF y = x THEN n ELSE 0
        BY DEF Turned, Nothing
      <4> QED BY <1>1, <2>2, <4>1
    <3>2. Renews(q, snap[y], n)
      BY DEF Renews
    <3>3. Opened(s, d, i) => Opened(s, e, i)
      BY <1>1, <1>3, <2>2
    <3> QED BY <1>4, <2>2, <3>1, <3>2, <3>3
  <2> QED BY <1>2, <2>1, <2>2
<1>6. Tuned(q, subscribed, e, s, at)
  <2>1. Len(d) + 1 \in 0 .. Len(d) + 1
    BY <1>1
  <2> QED BY <1>3, <2>1 DEF Awaits, Tuned
<1>7. Unheard(q, subscribed, c, e, s) /\ Later(c, s, at)
  BY DEF Awaits, Unheard
<1> QED BY <1>5, <1>6, <1>7 DEF Awaits

-----------------------------------------------------------------------------
(* The feed and the printer in order.                                      *)

Line(p, f) ==
    f.link = "upgraded" =>
        /\ Told(p, f.core, f.down)
        /\ Awaits(p, f.subscribed, f.core, f.down, f.stamps, f.http.at, f.snap)

\* Nothing shown or answered is newer than the printer, and an answer that will be
\* admitted is no older than what is shown.
Shown(p, f) ==
    /\ \A x \in Fields : f.snap[x] <= p.status[x] /\ f.http.status[x] <= p.status[x]
    /\ f.http.at = "answered" /\ f.stamps.applied <= f.stamps.http =>
          \A x \in Fields : f.snap[x] <= f.http.status[x]
    /\ ~f.enabled => f.http.at = "none"
    /\ f.link = "connecting" => f.core = Nothing

InOrder(p, f) == Line(p, f) /\ Shown(p, f)

\* A run of Klippy gives every field a value of its own.
Running(p) ==
    /\ p \in Printers /\ p.epoch \in p.runs /\ p.epoch # 0
    /\ \A x \in Fields : p.epoch <= p.status[x]

\* Showing g after f takes no value back, but for what the property names.
Forward(p, f, g) ==
    \A x \in Fields : g.snap[x] < f.snap[x] =>
        \/ g.snap[x] = 0
        \/ g.snap[x] = f.core[x] /\ \E e \in p.runs : g.snap[x] < e /\ e <= f.snap[x]

LEMMA RunningStatus ==
    ASSUME NEW p, Running(p)
    PROVE  /\ p.status \in Statuses /\ p.epoch \in Nat \ {0}
           /\ \A x \in Fields : p.status[x] \in Nat /\ p.status[x] # 0
BY BoundsAssumption DEF Running, Printers, Statuses, Versions

LEMMA FeedParts ==
    ASSUME NEW f \in Feeds
    PROVE  /\ f.core \in Statuses /\ f.snap \in Statuses /\ f.down \in Seq(Messages)
           /\ f.stamps \in Stamps /\ f.http \in Requests /\ f.http.status \in Statuses
           /\ f.subscribed \in BOOLEAN /\ f.enabled \in BOOLEAN
           /\ f.stamps.http \in Nat /\ f.stamps.sub \in Nat
           /\ f.stamps.core \in Nat /\ f.stamps.applied \in Nat
BY DEF Feeds, Stamps, Requests

LEMMA ForwardSame ==
    ASSUME NEW p, NEW f \in Feeds, NEW g, g.snap = f.snap
    PROVE  Forward(p, f, g)
<1>1. \A x \in Fields : f.snap[x] \in Nat
  BY FeedParts, BoundsAssumption DEF Statuses, Versions
<1> QED BY <1>1 DEF Forward

\* A step that leaves alone all that has an order.
LEMMA SameOrder ==
    ASSUME NEW p, NEW f, NEW g, InOrder(p, f),
           g.link = f.link, g.core = f.core, g.down = f.down, g.subscribed = f.subscribed,
           g.stamps = f.stamps, g.http = f.http, g.snap = f.snap, g.enabled = f.enabled
    PROVE  InOrder(p, g)
BY DEF InOrder, Line, Shown

\* A feed without a link.
LEMMA UnlinkedOrder ==
    ASSUME NEW p, NEW f, NEW g, InOrder(p, f), g.link # "upgraded",
           g.link = "connecting" => g.core = Nothing,
           g.http = f.http, g.stamps.http = f.stamps.http,
           g.stamps.applied = f.stamps.applied, g.snap = f.snap, g.enabled = f.enabled
    PROVE  InOrder(p, g)
BY DEF InOrder, Line, Shown

-----------------------------------------------------------------------------
(* Ranks keep the order of the stamps.                                     *)

LEMMA RankedOrder ==
    ASSUME NEW stamps \in Stamps, NEW j \in DOMAIN stamps, NEW k \in DOMAIN stamps
    PROVE  /\ stamps[j] < stamps[k] => Ranked(stamps)[j] < Ranked(stamps)[k]
           /\ stamps[j] <= stamps[k] => Ranked(stamps)[j] <= Ranked(stamps)[k]
<1> DEFINE V == {stamps[i] : i \in DOMAIN stamps}
           R(i) == V \cap 1 .. stamps[i]
<1>1. DOMAIN stamps = {"http", "sub", "core", "applied"}
  BY DEF Stamps
<1>2. ASSUME NEW i \in DOMAIN stamps
      PROVE  /\ stamps[i] \in Nat /\ stamps[i] \in V
             /\ IsFiniteSet(R(i)) /\ Cardinality(R(i)) \in Nat
             /\ Ranked(stamps)[i] = Cardinality(R(i))
  <2>1. stamps[i] \in Nat
    BY <1>1 DEF Stamps
  <2>2. IsFiniteSet(1 .. stamps[i])
    BY <2>1, FS_Interval
  <2>3. IsFiniteSet(R(i))
    BY <2>2, FS_Subset
  <2>4. Cardinality(R(i)) \in Nat
    BY <2>3, FS_CardinalityType
  <2>5. Ranked(stamps)[i] = Cardinality(R(i))
    BY DEF Ranked
  <2> QED BY <2>1, <2>3, <2>4, <2>5
<1> HIDE DEF V
<1>3. stamps[j] \in Nat /\ stamps[k] \in Nat /\ stamps[k] \in V
  BY <1>2
<1>4. /\ stamps[j] <= stamps[k] => R(j) \subseteq R(k)
      /\ stamps[j] < stamps[k] => stamps[k] \in R(k) /\ stamps[k] \notin R(j)
  BY <1>3
<1> HIDE DEF R
<1>5. R(j) \subseteq R(k) => Cardinality(R(j)) <= Cardinality(R(k))
  BY <1>2, FS_Subset
<1>6. R(j) \subseteq R(k) /\ R(j) # R(k) => Cardinality(R(j)) < Cardinality(R(k))
  <2>1. R(j) \subseteq R(k) /\ Cardinality(R(j)) = Cardinality(R(k)) => R(j) = R(k)
    BY <1>2, FS_Subset
  <2> QED BY <1>2, <1>5, <2>1
<1> QED BY <1>2, <1>3, <1>4, <1>5, <1>6

LEMMA RankedInOrder ==
    ASSUME NEW p, NEW f \in Feeds, InOrder(p, f)
    PROVE  InOrder(p, [f EXCEPT !.stamps = Ranked(f.stamps)])
<1> DEFINE s == f.stamps
           t == Ranked(s)
           g == [f EXCEPT !.stamps = t]
<1>1. s \in Stamps /\ t \in Stamps /\ DOMAIN s = {"http", "sub", "core", "applied"}
  BY RankedType DEF Feeds, Stamps
<1>2. \A j, k \in {"http", "sub", "core", "applied"} :
         (s[j] < s[k] => t[j] < t[k]) /\ (s[j] <= s[k] => t[j] <= t[k])
  BY <1>1, RankedOrder
<1>3. /\ g.link = f.link /\ g.core = f.core /\ g.down = f.down /\ g.subscribed = f.subscribed
      /\ g.stamps = t /\ g.http = f.http /\ g.snap = f.snap /\ g.enabled = f.enabled
  BY DEF Feeds
<1>4. /\ s.http \in Nat /\ s.sub \in Nat /\ s.core \in Nat /\ s.applied \in Nat
      /\ t.http \in Nat /\ t.sub \in Nat /\ t.core \in Nat /\ t.applied \in Nat
  BY <1>1 DEF Stamps
<1> HIDE DEF t, g, s
<1>5. /\ s.http < s.applied => t.http < t.applied
      /\ s.http < s.sub => t.http < t.sub
      /\ s.http < s.core => t.http < t.core
      /\ t.applied <= t.http => s.applied <= s.http
      /\ Latest(s) => Latest(t)
  BY <1>2, <1>4 DEF Latest
<1>6. Line(p, g)
  <2> SUFFICES ASSUME f.link = "upgraded"
               PROVE  /\ Told(p, f.core, f.down)
                      /\ Awaits(p, f.subscribed, f.core, f.down, t, f.http.at, f.snap)
    BY <1>3 DEF Line
  <2>1. /\ Told(p, f.core, f.down)
        /\ Awaits(p, f.subscribed, f.core, f.down, s, f.http.at, f.snap)
    BY DEF InOrder, Line, s
  <2>2. \A d, k : (Heard(s, d, k) => Heard(t, d, k)) /\ (Opened(s, d, k) => Opened(t, d, k))
    BY <1>5, LatestHeard
  <2>3. \A at : Settled(at, s) => Settled(at, t)
    BY <1>5 DEF Settled
  <2> QED BY <1>5, <2>1, <2>2, <2>3 DEF Awaits, Due, Unheard, Tuned, Later
<1>7. Shown(p, g)
  BY <1>3, <1>5 DEF InOrder, Shown, s
<1> QED BY <1>6, <1>7 DEF InOrder, g, t, s

-----------------------------------------------------------------------------
(* What every function of the feed keeps in order, and what it shows.      *)

LEMMA UnlinkedKeeps ==
    ASSUME NEW p, NEW f, NEW bound, Fit(f, bound), InOrder(p, f), NEW link \in {"none", "dead"}
    PROVE  InOrder(p, Unlinked(f, link)) /\ Unlinked(f, link).snap = f.snap
<1> DEFINE g == Unlinked(f, link)
<1>1. /\ g.link = link /\ g.http = f.http /\ g.stamps = f.stamps
      /\ g.snap = f.snap /\ g.enabled = f.enabled
  BY DEF Unlinked, Fit, Feeds
<1> HIDE DEF g
<1>2. InOrder(p, g)
  BY <1>1, UnlinkedOrder
<1> QED BY <1>1, <1>2 DEF g

LEMMA SocketStoppedKeeps ==
    ASSUME NEW p, NEW f, NEW bound, Fit(f, bound), InOrder(p, f)
    PROVE  /\ InOrder(p, SocketStopped(f)) /\ SocketStopped(f).snap = f.snap
           /\ SocketStopped(f).http = f.http
<1> DEFINE g == SocketStopped(f)
<1>1. g = [f EXCEPT !.link = "none", !.asks = 0, !.subscribed = FALSE, !.denied = FALSE,
                    !.down = <<>>, !.core = Nothing, !.stamps.core = 0]
  BY DEF Unlinked, SocketStopped
<1> HIDE DEF g
<1>2. /\ g.link = "none" /\ g.http = f.http /\ g.stamps.http = f.stamps.http
      /\ g.stamps.applied = f.stamps.applied /\ g.snap = f.snap /\ g.enabled = f.enabled
  BY <1>1 DEF Fit, Feeds, Stamps
<1>3. InOrder(p, g)
  BY <1>2, UnlinkedOrder
<1> QED BY <1>2, <1>3 DEF g

LEMMA SocketStartedKeeps ==
    ASSUME NEW p, NEW f, NEW bound, Fit(f, bound), InOrder(p, f)
    PROVE  InOrder(p, SocketStarted(f)) /\ SocketStarted(f).snap = f.snap
<1> DEFINE g == SocketStopped(f)
           h == SocketStarted(f)
<1>1. Fit(g, bound) /\ InOrder(p, g) /\ g.core = Nothing /\ g.snap = f.snap
  BY SocketStoppedFit, SocketStoppedKeeps
<1>2. h = [g EXCEPT !.link = "connecting", !.proof = TRUE]
  BY DEF SocketStarted
<1> HIDE DEF g, h
<1>3. /\ h.link = "connecting" /\ h.core = Nothing /\ h.http = g.http /\ h.stamps = g.stamps
      /\ h.snap = g.snap /\ h.enabled = g.enabled
  BY <1>1, <1>2 DEF Fit, Feeds
<1>4. InOrder(p, h)
  BY <1>1, <1>3, UnlinkedOrder
<1> QED BY <1>1, <1>3, <1>4 DEF h

LEMMA VerdictsKeep ==
    ASSUME NEW p, NEW f, NEW bound, Fit(f, bound)
    PROVE  /\ InOrder(p, f) => InOrder(p, Succeeded(f)) /\ InOrder(p, Failed(f))
           /\ \A g \in {Succeeded(f), Failed(f)} :
                 /\ g.link = f.link /\ g.core = f.core /\ g.down = f.down
                 /\ g.subscribed = f.subscribed /\ g.stamps = f.stamps /\ g.http = f.http
                 /\ g.snap = f.snap /\ g.enabled = f.enabled
<1>1. \A g \in {Succeeded(f), Failed(f)} :
         /\ g.link = f.link /\ g.core = f.core /\ g.down = f.down
         /\ g.subscribed = f.subscribed /\ g.stamps = f.stamps /\ g.http = f.http
         /\ g.snap = f.snap /\ g.enabled = f.enabled
  BY DEF Fit, Feeds, Succeeded, Failed
<1> QED BY <1>1, SameOrder

\* What a subscribe stamps.
LEMMA SubscribedIs ==
    ASSUME NEW f, NEW bound, Fit(f, bound)
    PROVE  LET g == Subscribed(f)
               s == f.stamps
               t == Subscribed(f).stamps
           IN  /\ g.link = f.link /\ g.core = f.core /\ g.down = f.down
               /\ g.subscribed = f.subscribed /\ g.http = f.http
               /\ g.snap = f.snap /\ g.enabled = f.enabled
               /\ t.http = s.http /\ t.core = s.core /\ t.applied = s.applied
               /\ f.link = "upgraded" => Latest(t) /\ t.http < t.sub
               /\ f.link # "upgraded" => g = f
<1> DEFINE n == Now(f)
           h == [f EXCEPT !.asks = @ + 1, !.stamps.sub = n]
<1>1. /\ n \in Nat /\ f.stamps.http < n /\ f.stamps.core < n /\ f.stamps.applied < n
      /\ f.stamps.http \in Nat /\ f.stamps.core \in Nat /\ f.stamps.applied \in Nat
  BY NowType DEF Fit, Feeds, Stamps
<1>2. Subscribed(f) = IF f.link = "upgraded" THEN h ELSE f
  BY DEF Subscribed
<1> HIDE DEF n
<1>3. /\ h.link = f.link /\ h.core = f.core /\ h.down = f.down
      /\ h.subscribed = f.subscribed /\ h.http = f.http
      /\ h.snap = f.snap /\ h.enabled = f.enabled
      /\ h.stamps.http = f.stamps.http /\ h.stamps.core = f.stamps.core
      /\ h.stamps.applied = f.stamps.applied /\ h.stamps.sub = n
  BY DEF Fit, Feeds, Stamps
<1> HIDE DEF h
<1>4. Latest(h.stamps) /\ h.stamps.http < h.stamps.sub
  BY <1>1, <1>3 DEF Latest
<1> QED BY <1>2, <1>3, <1>4

LEMMA SubscribedKeeps ==
    ASSUME NEW p, NEW f, NEW bound, Fit(f, bound), InOrder(p, f)
    PROVE  InOrder(p, Subscribed(f)) /\ Subscribed(f).snap = f.snap
<1> DEFINE g == Subscribed(f)
<1>1. /\ g.link = f.link /\ g.core = f.core /\ g.down = f.down
      /\ g.subscribed = f.subscribed /\ g.http = f.http
      /\ g.snap = f.snap /\ g.enabled = f.enabled
      /\ g.stamps.http = f.stamps.http /\ g.stamps.core = f.stamps.core
      /\ g.stamps.applied = f.stamps.applied
      /\ f.link = "upgraded" => Latest(g.stamps) /\ g.stamps.http < g.stamps.sub
  BY SubscribedIs
<1> HIDE DEF g
<1>2. Line(p, g)
  <2> SUFFICES ASSUME f.link = "upgraded"
               PROVE  /\ Told(p, f.core, f.down)
                      /\ Awaits(p, f.subscribed, f.core, f.down, g.stamps, f.http.at, f.snap)
    BY <1>1 DEF Line
  <2> QED BY <1>1, SubscribedAwaits DEF InOrder, Line
<1>3. Shown(p, g)
  BY <1>1 DEF InOrder, Shown
<1> QED BY <1>1, <1>2, <1>3 DEF InOrder, g

\* What is admitted, and what is dropped.
LEMMA AdmittedIs ==
    ASSUME NEW f, NEW bound, Fit(f, bound), NEW origin,
           NEW status \in Statuses, NEW stamp \in Nat
    PROVE  LET g == Admitted(f, origin, status, stamp)
               s == f.stamps
               t == Admitted(f, origin, status, stamp).stamps
           IN  /\ g.link = f.link /\ g.core = f.core /\ g.down = f.down
               /\ g.subscribed = f.subscribed /\ g.http = f.http /\ g.enabled = f.enabled
               /\ t.http = s.http /\ t.sub = s.sub /\ t.core = s.core
               /\ IF origin = "sync" /\ stamp < s.applied
                  THEN g.snap = f.snap /\ t.applied = s.applied
                  ELSE /\ g.snap = Merged(f.snap, status)
                       /\ t.applied \in {s.applied, stamp} /\ t.applied \in Nat
                       /\ t.applied >= s.applied /\ t.applied >= stamp
<1> DEFINE n == Max({f.stamps.applied, stamp})
           h == [f EXCEPT !.snap = Merged(@, status), !.stamps.applied = n]
<1>1. /\ n \in {f.stamps.applied, stamp} /\ n \in Nat /\ n >= f.stamps.applied /\ n >= stamp
  BY PairMax DEF Fit, Feeds, Stamps
<1>2. Admitted(f, origin, status, stamp) =
        IF origin = "sync" /\ stamp < f.stamps.applied THEN f
        ELSE [h EXCEPT !.backoff = "clear", !.connected = TRUE]
  <2>1. h = [f EXCEPT !.snap = Merged(@, status),
                      !.stamps.applied = Max({@, stamp})]
    BY DEF Fit, Feeds, Stamps
  <2> QED BY <2>1 DEF Admitted, Succeeded
<1> HIDE DEF n
<1>3. /\ h.link = f.link /\ h.core = f.core /\ h.down = f.down
      /\ h.subscribed = f.subscribed /\ h.http = f.http /\ h.enabled = f.enabled
      /\ h.stamps.http = f.stamps.http /\ h.stamps.sub = f.stamps.sub
      /\ h.stamps.core = f.stamps.core /\ h.stamps.applied = n
      /\ h.snap = Merged(f.snap, status) /\ DOMAIN h = DOMAIN f
  BY DEF Fit, Feeds, Stamps
<1> HIDE DEF h
<1>4. LET g == [h EXCEPT !.backoff = "clear", !.connected = TRUE]
      IN  /\ g.link = h.link /\ g.core = h.core /\ g.down = h.down
          /\ g.subscribed = h.subscribed /\ g.http = h.http /\ g.enabled = h.enabled
          /\ g.stamps = h.stamps /\ g.snap = h.snap
  BY <1>3 DEF Fit, Feeds
<1> QED BY <1>1, <1>2, <1>3, <1>4

\* The fragments are shown, newer than the answers still out, and behind
\* nothing shown but what is from after a restart they are from before.
LEMMA ShownFragments ==
    ASSUME NEW p, NEW f, NEW bound, Fit(f, bound), Running(p), InOrder(p, f),
           f.link = "upgraded", f.core # Nothing
    PROVE  LET g == Admitted([f EXCEPT !.core = Nothing, !.stamps.core = 0],
                             "fragment", f.core, f.stamps.core)
           IN  InOrder(p, g) /\ Forward(p, f, g)
<1> DEFINE h == [f EXCEPT !.core = Nothing, !.stamps.core = 0]
           g == Admitted(h, "fragment", f.core, f.stamps.core)
           s == f.stamps
           t == g.stamps
<1>1. /\ f \in Feeds /\ f.core \in Statuses /\ f.snap \in Statuses /\ f.down \in Seq(Messages)
      /\ s \in Stamps /\ s.http \in Nat /\ s.core \in Nat /\ s.applied \in Nat
  BY FeedParts DEF Fit
<1>2. Fit(h, bound)
  BY NothingType, OwnNothing DEF Fit, Feeds, Stamps, Wanted, Slotted, Clean
<1>3. /\ h.link = f.link /\ h.core = Nothing /\ h.down = f.down /\ h.subscribed = f.subscribed
      /\ h.http = f.http /\ h.enabled = f.enabled /\ h.snap = f.snap
      /\ h.stamps.http = s.http /\ h.stamps.sub = s.sub /\ h.stamps.core = 0
      /\ h.stamps.applied = s.applied
  BY DEF Fit, Feeds, Stamps
<1> HIDE DEF h
<1>4. g \in Feeds
  BY <1>1, <1>2, AdmittedFit DEF Fit, Clean
<1>5. /\ g.link = h.link /\ g.core = h.core /\ g.down = h.down
      /\ g.subscribed = h.subscribed /\ g.http = h.http /\ g.enabled = h.enabled
      /\ t.http = h.stamps.http /\ t.sub = h.stamps.sub /\ t.core = h.stamps.core
      /\ g.snap = Merged(h.snap, f.core)
      /\ t.applied \in {h.stamps.applied, s.core}
      /\ t.applied >= h.stamps.applied /\ t.applied >= s.core
  BY <1>1, <1>2, AdmittedIs
<1> HIDE DEF g
<1>6. /\ g.link = "upgraded" /\ g.core = Nothing /\ g.down = f.down
      /\ g.subscribed = f.subscribed /\ g.http = f.http /\ g.enabled = f.enabled
      /\ t.http = s.http /\ t.sub = s.sub /\ t.core = 0
      /\ g.snap = Merged(f.snap, f.core) /\ t.applied \in {s.applied, s.core}
      /\ t.applied >= s.applied /\ t.applied >= s.core
  BY <1>3, <1>5
<1>7. /\ Told(p, f.core, f.down)
      /\ Awaits(p, f.subscribed, f.core, f.down, s, f.http.at, f.snap)
  BY DEF InOrder, Line
<1>8. t \in Stamps
  BY <1>4, FeedParts
<1>9. Line(p, g)
  <2>1. p.status \in Statuses /\ p.epoch \in Nat \ {0}
    BY RunningStatus
  <2>2. Told(p, Nothing, f.down)
    BY <1>1, <1>7, <2>1, DrainedLine
  <2>3. Awaits(p, f.subscribed, Nothing, f.down, t, f.http.at, Merged(f.snap, f.core))
    BY <1>1, <1>6, <1>7, <1>8, <2>1, DrainedAwaits
  <2> QED BY <1>6, <2>2, <2>3 DEF Line
<1>10. \A x \in Fields : f.snap[x] \in Nat /\ f.core[x] \in Nat /\ f.core[x] <= p.status[x]
  <2>1. 0 \in 0 .. Len(f.down) /\ Sent(f.core, f.down, 0) = f.core
    BY <1>1 DEF Sent
  <2>2. \A x \in Fields : f.core[x] <= p.status[x]
    BY <1>7, <2>1 DEF Told, Under
  <2> QED BY <1>1, <2>2, BoundsAssumption DEF Statuses, Versions
<1>11. \A x \in Fields : g.snap[x] = IF f.core[x] # 0 THEN f.core[x] ELSE f.snap[x]
  BY <1>6 DEF Merged
<1>12. Shown(p, g)
  <2>1. \A x \in Fields : g.snap[x] <= p.status[x] /\ g.http.status[x] <= p.status[x]
    BY <1>6, <1>10, <1>11 DEF InOrder, Shown
  <2>2. ~(g.http.at = "answered" /\ t.applied <= t.http)
    BY <1>1, <1>6, <1>7, <1>8 DEF Awaits, Later, Stamps
  <2> QED BY <1>6, <2>1, <2>2 DEF InOrder, Shown
<1>13. Forward(p, f, g)
  <2> SUFFICES ASSUME NEW x \in Fields, g.snap[x] < f.snap[x]
               PROVE  /\ g.snap[x] = f.core[x]
                      /\ \E e \in p.runs : g.snap[x] < e /\ e <= f.snap[x]
    BY DEF Forward
  <2>1. f.core[x] # 0 /\ g.snap[x] = f.core[x]
    BY <1>10, <1>11
  <2>2. 0 \in 0 .. Len(f.down) /\ Sent(f.core, f.down, 0) = f.core /\ Patch(f.down, 0)
    BY <1>1 DEF Sent, Patch
  <2>3. ~Opened(s, f.down, 0)
    BY DEF Opened
  <2>4. Renews(p, f.snap[x], f.core[x])
    BY <1>7, <2>1, <2>2, <2>3 DEF Awaits, Due
  <2> QED BY <1>10, <2>1, <2>4 DEF Renews
<1> QED BY <1>9, <1>12, <1>13 DEF InOrder, g, h

LEMMA DrainedKeeps ==
    ASSUME NEW p, NEW f, NEW bound, Fit(f, bound), Running(p), InOrder(p, f)
    PROVE  InOrder(p, Drained(f)) /\ Forward(p, f, Drained(f))
<1>1. f \in Feeds
  BY DEF Fit
<1>2. CASE f.link = "upgraded" /\ f.core # Nothing
  BY <1>2, ShownFragments DEF Drained
<1>3. CASE f.link \in {"none", "dead"}
  <2>1. Drained(f) = SocketStarted(f)
    BY <1>3 DEF Drained
  <2> QED BY <1>1, <2>1, SocketStartedKeeps, ForwardSame
<1>4. CASE ~(f.link = "upgraded" /\ f.core # Nothing) /\ f.link \notin {"none", "dead"}
  <2>1. Drained(f) = f
    BY <1>4 DEF Drained
  <2> QED BY <1>1, <2>1, ForwardSame
<1> QED BY <1>2, <1>3, <1>4

LEMMA PolledKeeps ==
    ASSUME NEW p, NEW f, NEW bound, Fit(f, bound), Running(p), InOrder(p, f),
           NEW force \in BOOLEAN, f.enabled, f.link = "none"
    PROVE  InOrder(p, Polled(f, force)) /\ Polled(f, force).snap = f.snap
<1> DEFINE g == [f EXCEPT !.slot = "taken", !.stamps.http = Now(f),
                          !.http = [at |-> "asked", status |-> Nothing]]
           h == [f EXCEPT !.slot = "forced"]
<1>1. /\ g.link = "none" /\ g.http.at = "asked" /\ g.http.status = Nothing
      /\ g.snap = f.snap /\ g.enabled = f.enabled
  BY DEF Fit, Feeds
<1>2. \A x \in Fields : Nothing[x] <= p.status[x]
  BY RunningStatus DEF Nothing
<1> HIDE DEF g
<1>3. InOrder(p, g)
  BY <1>1, <1>2 DEF InOrder, Line, Shown
<1>4. /\ h.link = f.link /\ h.core = f.core /\ h.down = f.down /\ h.subscribed = f.subscribed
      /\ h.stamps = f.stamps /\ h.http = f.http /\ h.snap = f.snap /\ h.enabled = f.enabled
  BY DEF Fit, Feeds
<1> HIDE DEF h
<1>5. InOrder(p, h)
  BY <1>4, SameOrder
<1>6. Polled(f, force) \in {g, h, f}
  BY DEF Polled, g, h
<1> QED BY <1>1, <1>3, <1>4, <1>5, <1>6

LEMMA RefreshedKeeps ==
    ASSUME NEW p, NEW f, NEW bound, Fit(f, bound), Running(p), InOrder(p, f),
           NEW force \in BOOLEAN
    PROVE  InOrder(p, Refreshed(f, force)) /\ Forward(p, f, Refreshed(f, force))
<1>1. f \in Feeds /\ (f.mode # "websocket" => f.link = "none")
  BY DEF Fit, Wanted
<1>2. CASE ~f.enabled \/ f.backoff = "waiting"
  <2>1. Refreshed(f, force) = f
    BY <1>2 DEF Refreshed
  <2> QED BY <1>1, <2>1, ForwardSame
<1>3. CASE ~(~f.enabled \/ f.backoff = "waiting") /\ f.mode = "websocket"
  <2>1. Refreshed(f, force) = Drained(f)
    BY <1>3 DEF Refreshed
  <2> QED BY <2>1, DrainedKeeps
<1>4. CASE ~(~f.enabled \/ f.backoff = "waiting") /\ f.mode # "websocket"
  <2>1. Refreshed(f, force) = Polled(f, force)
    BY <1>4 DEF Refreshed
  <2> QED BY <1>1, <1>4, <2>1, PolledKeeps, ForwardSame
<1> QED BY <1>2, <1>3, <1>4

\* A feed that runs on HTTP shows nothing until it is answered.
LEMMA RefreshedShowsNothing ==
    ASSUME NEW f, NEW bound, Fit(f, bound), f.mode = "http", NEW force \in BOOLEAN
    PROVE  Refreshed(f, force).snap = f.snap
<1>1. Polled(f, force).snap = f.snap
  BY DEF Polled, Fit, Feeds
<1> QED BY <1>1 DEF Refreshed

LEMMA DegradedKeeps ==
    ASSUME NEW p, NEW f, NEW bound, Fit(f, bound), Running(p), InOrder(p, f)
    PROVE  InOrder(p, Degraded(f)) /\ Degraded(f).snap = f.snap
<1> DEFINE g == SocketStopped(f)
           h == [g EXCEPT !.mode = "http", !.proof = FALSE]
<1>1. /\ Fit(g, bound) /\ g.link = "none" /\ g.core = Nothing
      /\ InOrder(p, g) /\ g.snap = f.snap
  BY SocketStoppedFit, SocketStoppedKeeps
<1> HIDE DEF g
<1>2. Fit(h, bound)
  BY <1>1 DEF Fit, Feeds, Modes, Wanted, Slotted, Clean
<1>3. /\ h.link = g.link /\ h.core = g.core /\ h.down = g.down /\ h.subscribed = g.subscribed
      /\ h.stamps = g.stamps /\ h.http = g.http /\ h.snap = g.snap /\ h.enabled = g.enabled
      /\ h.mode = "http"
  BY <1>1 DEF Fit, Feeds
<1>4. Degraded(f) = Refreshed(h, TRUE)
  BY DEF Degraded, g
<1> HIDE DEF h
<1>5. InOrder(p, h)
  BY <1>1, <1>3, SameOrder
<1> QED BY <1>1, <1>2, <1>3, <1>4, <1>5, RefreshedKeeps, RefreshedShowsNothing

LEMMA StoppedKeeps ==
    ASSUME NEW p, NEW f, NEW bound, Fit(f, bound), Running(p), InOrder(p, f)
    PROVE  InOrder(p, Stopped(f)) /\ Stopped(f).snap = f.snap
<1> DEFINE g == SocketStopped(f)
           h == [g EXCEPT !.enabled = FALSE, !.proof = FALSE, !.queued = FALSE,
                          !.backoff = "clear", !.connected = FALSE, !.slot = "free",
                          !.http = NoRequest, !.stamps.http = 0]
<1>1. /\ Fit(g, bound) /\ g.link = "none" /\ InOrder(p, g) /\ g.snap = f.snap
  BY SocketStoppedFit, SocketStoppedKeeps
<1>2. Stopped(f) = h
  BY DEF Stopped
<1> HIDE DEF g
<1>3. h.link = "none" /\ h.http = NoRequest /\ h.snap = g.snap
  BY <1>1 DEF Fit, Feeds
<1> HIDE DEF h
<1>4. \A x \in Fields : Nothing[x] <= p.status[x]
  BY RunningStatus DEF Nothing
<1>5. InOrder(p, h)
  BY <1>1, <1>3, <1>4, RequestTypes DEF InOrder, Line, Shown
<1> QED BY <1>1, <1>2, <1>3, <1>5

\* A session reset is in order with any printer.
LEMMA SessionResetKeeps ==
    ASSUME NEW q, NEW f, NEW bound, Fit(f, bound), Running(q), NEW mode,
           f.http = NoRequest
    PROVE  /\ InOrder(q, SessionReset(f, mode))
           /\ SessionReset(f, mode).snap = Nothing
<1> DEFINE g == SocketStopped(f)
           h == [g EXCEPT !.configured = mode, !.snap = Nothing]
<1>1. Fit(g, bound) /\ g.link = "none" /\ g.http = NoRequest
  BY SocketStoppedFit DEF Fit, Feeds, Unlinked, SocketStopped
<1>2. SessionReset(f, mode) = h
  BY DEF SessionReset
<1> HIDE DEF g
<1>3. h.link = "none" /\ h.http = NoRequest /\ h.snap = Nothing
  BY <1>1 DEF Fit, Feeds
<1> HIDE DEF h
<1>4. \A x \in Fields : Nothing[x] <= q.status[x]
  BY RunningStatus DEF Nothing
<1>5. InOrder(q, h)
  BY <1>3, <1>4, RequestTypes DEF InOrder, Line, Shown
<1> QED BY <1>2, <1>3, <1>5

LEMMA StartedKeeps ==
    ASSUME NEW p, NEW f, NEW bound, Fit(f, bound), Running(p), InOrder(p, f)
    PROVE  InOrder(p, Started(f)) /\ Started(f).snap = f.snap
<1> DEFINE g == [f EXCEPT !.enabled = TRUE, !.backoff = "clear",
                          !.mode = f.configured, !.stamps.applied = 0]
<1>1. /\ g.mode = f.configured /\ g.configured = f.configured /\ g.link = f.link
      /\ g.core = f.core /\ g.http = f.http /\ g.snap = f.snap /\ g.enabled
      /\ g.down = f.down /\ g.subscribed = f.subscribed
      /\ g.asks = f.asks /\ g.slot = f.slot
  BY DEF Fit, Feeds
<1>2. Fit(g, bound)
  <2>1. g \in Feeds
    BY DEF Fit, Feeds, Backoffs, Stamps
  <2> HIDE DEF g
  <2>2. Wanted(g) /\ Slotted(g) /\ Clean(g, bound)
    BY <1>1 DEF Fit, Wanted, Slotted, Clean
  <2> QED BY <2>1, <2>2 DEF Fit
<1>3. Started(f) = IF f.enabled THEN f
                   ELSE IF f.configured = "websocket" THEN SocketStarted(g)
                   ELSE Refreshed(g, TRUE)
  BY DEF Started
<1> HIDE DEF g
<1>4. CASE f.enabled
  BY <1>3, <1>4
<1>5. ~f.enabled => Shown(p, g)
  BY <1>1 DEF InOrder, Shown
<1>6. CASE ~f.enabled /\ f.configured = "websocket"
  <2> DEFINE h == SocketStarted(g)
             k == SocketStopped(g)
  <2>1. /\ Fit(k, bound) /\ k.core = Nothing /\ k.http = g.http /\ k.snap = g.snap
        /\ k.enabled = g.enabled
    BY <1>2, SocketStoppedFit DEF Fit, Feeds, Unlinked, SocketStopped
  <2>2. h = [k EXCEPT !.link = "connecting", !.proof = TRUE]
    BY DEF SocketStarted
  <2> HIDE DEF h, k
  <2>3. /\ h.link = "connecting" /\ h.core = Nothing /\ h.http = g.http /\ h.snap = g.snap
        /\ h.enabled
    BY <1>1, <2>1, <2>2 DEF Fit, Feeds
  <2>4. g.http.at = "none"
    BY <1>1, <1>6 DEF InOrder, Shown
  <2>5. InOrder(p, h)
    BY <1>5, <1>6, <2>3, <2>4 DEF InOrder, Line, Shown
  <2> QED BY <1>1, <1>3, <1>6, <2>3, <2>5 DEF h
<1>7. CASE ~f.enabled /\ f.configured # "websocket"
  <2>1. g.link = "none" /\ g.mode = "http"
    BY <1>1, <1>2, <1>7 DEF Fit, Feeds, Modes, Wanted
  <2>2. InOrder(p, g)
    BY <1>5, <1>7, <2>1 DEF InOrder, Line
  <2> QED BY <1>1, <1>2, <1>3, <1>7, <2>1, <2>2, RefreshedKeeps, RefreshedShowsNothing
<1> QED BY <1>4, <1>6, <1>7

LEMMA ConfiguredKeeps ==
    ASSUME NEW p, NEW f, NEW bound, Fit(f, bound), Running(p), InOrder(p, f),
           NEW mode \in Modes, NEW moved \in BOOLEAN,
           NEW q, NEW later, Running(q), moved \/ (q = p /\ later = bound)
    PROVE  /\ InOrder(q, Configured(f, mode, moved))
           /\ Configured(f, mode, moved).snap \in {f.snap, Nothing}
<1> DEFINE b == SessionReset(Stopped(f), mode)
           n == IF moved \/ mode # f.configured THEN b ELSE f
           x == [n EXCEPT !.mode = mode]
<1>1. /\ Fit(b, later) /\ ~b.enabled /\ b.configured = mode
      /\ b.link = "none" /\ b.core = Nothing
      /\ InOrder(q, b) /\ b.snap = Nothing
  BY StoppedFit, SessionResetFit, SessionResetKeeps
<1> HIDE DEF b
<1>2. /\ Fit(n, later) /\ n.configured = mode /\ InOrder(q, n) /\ n.snap \in {f.snap, Nothing}
  BY <1>1
<1> HIDE DEF n
<1>3. Fit(x, later)
  <2>1. x \in Feeds
    BY <1>2 DEF Fit, Feeds
  <2>2. Wanted(x) /\ Slotted(x) /\ Clean(x, later)
    BY <1>2 DEF Fit, Feeds, Wanted, Slotted, Clean
  <2> QED BY <2>1, <2>2 DEF Fit
<1>4. /\ x.link = n.link /\ x.core = n.core /\ x.down = n.down /\ x.subscribed = n.subscribed
      /\ x.stamps = n.stamps /\ x.http = n.http /\ x.snap = n.snap /\ x.enabled = n.enabled
  BY <1>2 DEF Fit, Feeds
<1>5. Configured(f, mode, moved) \in {Started(x), x}
  BY DEF Configured, n, b
<1> HIDE DEF x
<1>6. InOrder(q, x)
  BY <1>2, <1>4, SameOrder
<1> QED BY <1>2, <1>3, <1>4, <1>5, <1>6, StartedKeeps

-----------------------------------------------------------------------------
(* The link comes up, and its messages are read.                           *)

LEMMA UpgradedKeeps ==
    ASSUME NEW p, NEW f, NEW bound, Fit(f, bound), Running(p), InOrder(p, f),
           f.link = "connecting",
           NEW g, g = [f EXCEPT !.link = "upgraded"], Fit(g, bound)
    PROVE  InOrder(p, Subscribed(g)) /\ Subscribed(g).snap = f.snap
<1> DEFINE h == Subscribed(g)
<1>1. /\ g.link = "upgraded" /\ g.core = Nothing /\ g.down = <<>> /\ g.subscribed = FALSE
      /\ g.http = f.http /\ g.snap = f.snap /\ g.enabled = f.enabled /\ g.stamps = f.stamps
  BY DEF Fit, Feeds, Wanted, InOrder, Shown
<1>2. /\ h.link = g.link /\ h.core = g.core /\ h.down = g.down
      /\ h.subscribed = g.subscribed /\ h.http = g.http
      /\ h.snap = g.snap /\ h.enabled = g.enabled
      /\ h.stamps.http = g.stamps.http /\ h.stamps.applied = g.stamps.applied
      /\ Latest(h.stamps) /\ h.stamps.http < h.stamps.sub
  BY <1>1, SubscribedIs
<1> HIDE DEF h
<1>3. \A i \in 0 .. Len(<<>>) : i = 0 /\ \A x \in Fields : Sent(Nothing, <<>>, i)[x] = 0
  BY DEF Sent, Nothing
<1>4. p.epoch \in Nat \ {0} /\ \A x \in Fields : p.status[x] \in Nat
  BY RunningStatus
<1>5. Told(p, Nothing, <<>>)
  BY <1>3, <1>4 DEF Told, Ordered, Whole, Under, Backed, Covered
<1>6. Awaits(p, FALSE, Nothing, <<>>, h.stamps, f.http.at, f.snap)
  <2>1. Heard(h.stamps, <<>>, Len(<<>>) + 1)
    BY <1>2 DEF Heard
  <2> QED BY <1>2, <1>3, <1>4, <2>1 DEF Awaits, Due, Unheard, Tuned, Later
<1>7. Shown(p, h)
  BY <1>1, <1>2 DEF InOrder, Shown
<1> QED BY <1>1, <1>2, <1>5, <1>6, <1>7 DEF InOrder, Line, h

\* The feed f with its first message read is g.
Reads(f, g) == g = [f EXCEPT !.down = Tail(@)]

LEMMA ReadIs ==
    ASSUME NEW p, NEW f, NEW bound, Fit(f, bound), InOrder(p, f), f.down # <<>>,
           NEW g, Reads(f, g)
    PROVE  /\ g.link = "upgraded" /\ f.link = "upgraded" /\ g.core = f.core
           /\ g.subscribed = f.subscribed /\ g.stamps = f.stamps /\ g.http = f.http
           /\ g.snap = f.snap /\ g.enabled = f.enabled /\ g.down = Tail(f.down)
           /\ g.down \in Seq(Messages) /\ Shorter(f.down, g.down)
           /\ Head(f.down) = f.down[1] /\ f.down[1] \in Messages /\ Len(f.down) > 0
           /\ f.core \in Statuses /\ f.snap \in Statuses /\ f.down \in Seq(Messages)
           /\ f.stamps \in Stamps /\ f.stamps.sub \in Nat
           /\ Told(p, f.core, f.down)
           /\ Awaits(p, f.subscribed, f.core, f.down, f.stamps, f.http.at, f.snap)
<1>1. f.link = "upgraded" /\ f \in Feeds
  BY LiveLink DEF Fit
<1>2. /\ g.link = f.link /\ g.core = f.core
      /\ g.subscribed = f.subscribed /\ g.stamps = f.stamps /\ g.http = f.http
      /\ g.snap = f.snap /\ g.enabled = f.enabled /\ g.down = Tail(f.down)
  BY <1>1 DEF Feeds, Reads
<1>3. f.down \in Seq(Messages)
  BY <1>1, FeedParts
<1>4. Told(p, f.core, f.down)
      /\ Awaits(p, f.subscribed, f.core, f.down, f.stamps, f.http.at, f.snap)
  BY <1>1 DEF InOrder, Line
<1> QED BY <1>1, <1>2, <1>3, <1>4, FeedParts, Shortened

\* A message that says nothing.
LEMMA RemarkRead ==
    ASSUME NEW p, NEW f, NEW bound, Fit(f, bound), InOrder(p, f), f.down # <<>>,
           NEW g, Reads(f, g), f.down[1].kind \notin {"patch", "sync", "ready"}
    PROVE  InOrder(p, g) /\ g.snap = f.snap
<1>1. /\ g.link = "upgraded" /\ f.link = "upgraded" /\ g.core = f.core
      /\ g.subscribed = f.subscribed /\ g.stamps = f.stamps /\ g.http = f.http
      /\ g.snap = f.snap /\ g.enabled = f.enabled
      /\ g.down \in Seq(Messages) /\ Shorter(f.down, g.down)
      /\ f.core \in Statuses /\ f.down \in Seq(Messages) /\ f.stamps.sub \in Nat
      /\ Told(p, f.core, f.down)
      /\ Awaits(p, f.subscribed, f.core, f.down, f.stamps, f.http.at, f.snap)
  BY ReadIs
<1>2. Told(p, f.core, g.down)
  BY <1>1, ReadLine
<1>3. f.stamps.sub <= f.stamps.sub
  BY <1>1
<1>4. Awaits(p, f.subscribed, f.core, g.down, f.stamps, f.http.at, f.snap)
  BY <1>1, <1>3, ReadAwaits
<1>5. Shown(p, g)
  BY <1>1 DEF InOrder, Shown
<1> QED BY <1>1, <1>2, <1>4, <1>5 DEF InOrder, Line

\* The ready broadcast: a new subscribe is stamped.
LEMMA ReadyRead ==
    ASSUME NEW p, NEW f, NEW bound, Fit(f, bound), InOrder(p, f), f.down # <<>>,
           NEW g, Reads(f, g), Fit(g, bound), f.down[1].kind = "ready"
    PROVE  InOrder(p, Subscribed(g)) /\ Subscribed(g).snap = f.snap
<1> DEFINE h == Subscribed(g)
<1>1. /\ g.link = "upgraded" /\ f.link = "upgraded" /\ g.core = f.core
      /\ g.subscribed = f.subscribed /\ g.stamps = f.stamps /\ g.http = f.http
      /\ g.snap = f.snap /\ g.enabled = f.enabled
      /\ g.down \in Seq(Messages) /\ Shorter(f.down, g.down)
      /\ f.core \in Statuses /\ f.down \in Seq(Messages)
      /\ Told(p, f.core, f.down)
      /\ Awaits(p, f.subscribed, f.core, f.down, f.stamps, f.http.at, f.snap)
  BY ReadIs
<1>2. /\ h.link = g.link /\ h.core = g.core /\ h.down = g.down
      /\ h.subscribed = g.subscribed /\ h.http = g.http
      /\ h.snap = g.snap /\ h.enabled = g.enabled
      /\ h.stamps.http = g.stamps.http /\ h.stamps.core = g.stamps.core
      /\ h.stamps.applied = g.stamps.applied
      /\ Latest(h.stamps) /\ h.stamps.http < h.stamps.sub
  BY <1>1, SubscribedIs
<1> HIDE DEF h
<1>3. Told(p, f.core, g.down)
  BY <1>1, ReadLine
<1>4. Awaits(p, f.subscribed, f.core, g.down, h.stamps, f.http.at, f.snap)
  BY <1>1, <1>2, ReadAwaits
<1>5. Shown(p, h)
  BY <1>1, <1>2 DEF InOrder, Shown
<1> QED BY <1>1, <1>2, <1>3, <1>4, <1>5 DEF InOrder, Line, h

LEMMA PatchRead ==
    ASSUME NEW p, NEW f, NEW bound, Fit(f, bound), Running(p), InOrder(p, f), f.down # <<>>,
           NEW g, Reads(f, g), Fit(g, bound), f.down[1].kind = "patch"
    PROVE  /\ InOrder(p, Accumulated(g, f.down[1].status))
           /\ Accumulated(g, f.down[1].status).snap = f.snap
<1> DEFINE h == Accumulated(g, f.down[1].status)
           n == Now(g)
<1>1. /\ g.link = "upgraded" /\ f.link = "upgraded" /\ g.core = f.core
      /\ g.subscribed = f.subscribed /\ g.stamps = f.stamps /\ g.http = f.http
      /\ g.snap = f.snap /\ g.enabled = f.enabled
      /\ g.down \in Seq(Messages) /\ Shorter(f.down, g.down)
      /\ f.core \in Statuses /\ f.down \in Seq(Messages)
      /\ Told(p, f.core, f.down)
      /\ Awaits(p, f.subscribed, f.core, f.down, f.stamps, f.http.at, f.snap)
  BY ReadIs
<1>2. n \in Nat /\ g.stamps.http < n
  BY NowType DEF Fit, Feeds
<1>3. h = [g EXCEPT !.core = Merged(@, f.down[1].status), !.stamps.core = n]
  BY DEF Accumulated
<1> HIDE DEF n, h
<1>4. /\ h.link = g.link /\ h.core = Merged(g.core, f.down[1].status) /\ h.down = g.down
      /\ h.subscribed = g.subscribed /\ h.http = g.http
      /\ h.snap = g.snap /\ h.enabled = g.enabled
      /\ h.stamps.http = g.stamps.http /\ h.stamps.sub = g.stamps.sub
      /\ h.stamps.applied = g.stamps.applied /\ h.stamps.core = n
  BY <1>3 DEF Fit, Feeds, Stamps
<1>5. Told(p, h.core, g.down)
  BY <1>1, <1>4, AccumulatedLine, RunningStatus
<1>6. Awaits(p, f.subscribed, h.core, g.down, h.stamps, f.http.at, f.snap)
  BY <1>1, <1>2, <1>4, AccumulatedAwaits
<1>7. Shown(p, h)
  BY <1>1, <1>4 DEF InOrder, Shown
<1> QED BY <1>1, <1>4, <1>5, <1>6, <1>7 DEF InOrder, Line, h

LEMMA SyncRead ==
    ASSUME NEW p, NEW f, NEW bound, Fit(f, bound), Running(p), InOrder(p, f), f.down # <<>>,
           NEW g, Reads(f, g), Fit(g, bound), f.down[1].kind = "sync"
    PROVE  InOrder(p, Admitted(g, "sync", f.down[1].status, g.stamps.sub))
<1> DEFINE m == f.down[1].status
           h == Admitted(g, "sync", m, g.stamps.sub)
           s == f.stamps
           t == h.stamps
<1>1. /\ g.link = "upgraded" /\ f.link = "upgraded" /\ g.core = f.core
      /\ g.subscribed = f.subscribed /\ g.stamps = f.stamps /\ g.http = f.http
      /\ g.snap = f.snap /\ g.enabled = f.enabled
      /\ g.down \in Seq(Messages) /\ Shorter(f.down, g.down)
      /\ f.core \in Statuses /\ f.down \in Seq(Messages) /\ f.snap \in Statuses
      /\ f.down[1] \in Messages /\ Len(f.down) > 0 /\ s \in Stamps /\ s.sub \in Nat
      /\ Told(p, f.core, f.down)
      /\ Awaits(p, f.subscribed, f.core, f.down, f.stamps, f.http.at, f.snap)
  BY ReadIs
<1>2. m \in Statuses
  BY <1>1 DEF Messages
<1>3. Head(f.down) = f.down[1] /\ Carries(Head(f.down), bound)
  BY ReadIs, ReadFit
<1>4. h \in Feeds
  <2>1. Own(m, bound)
    BY <1>3 DEF Carries
  <2>2. g.stamps.sub \in Nat
    BY <1>1
  <2> HIDE DEF m
  <2> QED BY <1>2, <2>1, <2>2, AdmittedFit DEF Fit
<1>5. /\ h.link = g.link /\ h.core = g.core /\ h.down = g.down
      /\ h.subscribed = g.subscribed /\ h.http = g.http /\ h.enabled = g.enabled
      /\ t.http = s.http /\ t.sub = s.sub /\ t.core = s.core
      /\ IF s.sub < s.applied
         THEN h.snap = f.snap /\ t.applied = s.applied
         ELSE /\ h.snap = Merged(f.snap, m)
              /\ t.applied \in {s.applied, s.sub}
              /\ t.applied >= s.applied /\ t.applied >= s.sub
  <2> HIDE DEF m
  <2> QED BY <1>1, <1>2, AdmittedIs
<1>6. /\ s.applied \in Nat /\ t.applied \in Nat /\ t \in Stamps /\ t.http \in Nat
  BY <1>1, <1>4, FeedParts DEF Stamps
<1> HIDE DEF h
<1>7. ~(s.sub < s.applied) => t.applied = s.sub
  BY <1>1, <1>5, <1>6
<1>8. Told(p, f.core, g.down)
  BY <1>1, ReadLine
<1>9. Awaits(p, f.subscribed, f.core, g.down, t, f.http.at, h.snap)
  BY <1>1, <1>5, <1>6, <1>7, SyncAwaits
<1>10. Shown(p, h)
  <2>1. CASE s.sub < s.applied
    BY <1>1, <1>5, <2>1 DEF InOrder, Shown
  <2>2. CASE ~(s.sub < s.applied)
    <3>1. \A x \in Fields : m[x] <= p.status[x]
      <4>1. 1 \in 0 .. Len(f.down) /\ Sent(f.core, f.down, 1) = m
        BY <1>1 DEF Sent
      <4> QED BY <1>1, <4>1 DEF Told, Under
    <3>2. \A x \in Fields : h.snap[x] <= p.status[x]
      BY <1>5, <2>2, <3>1 DEF InOrder, Shown, Merged
    <3>3. ~(h.http.at = "answered" /\ t.applied <= t.http)
      BY <1>1, <1>5, <1>6, <1>7, <2>2 DEF Awaits, Later
    <3> QED BY <1>1, <1>5, <3>2, <3>3 DEF InOrder, Shown
  <2> QED BY <2>1, <2>2
<1> QED BY <1>1, <1>5, <1>8, <1>9, <1>10 DEF InOrder, Line, h

-----------------------------------------------------------------------------
(* HTTP is served and answered.                                            *)

LEMMA RepliedKeeps ==
    ASSUME NEW p, NEW f, NEW bound, Fit(f, bound), Running(p), InOrder(p, f),
           f.http.at \in {"answered", "failed"},
           NEW j, j = IF f.http.at = "failed" THEN Failed(f)
                      ELSE Admitted(f, "sync", f.http.status, f.stamps.http),
           NEW more, NEW g,
           g = [j EXCEPT !.http = NoRequest, !.stamps.http = 0, !.slot = "free",
                         !.queued = more]
    PROVE  InOrder(p, g) /\ Forward(p, f, g)
<1> DEFINE s == f.stamps
           t == g.stamps
           admitted == f.http.at = "answered" /\ s.applied <= s.http
<1>1. /\ f \in Feeds /\ s \in Stamps /\ f.http.status \in Statuses /\ f.snap \in Statuses
      /\ f.core \in Statuses /\ f.down \in Seq(Messages)
      /\ s.http \in Nat /\ s.sub \in Nat /\ s.core \in Nat /\ s.applied \in Nat
  BY FeedParts DEF Fit
<1>2. j \in Feeds
  <2>1. Own(f.http.status, bound)
    BY DEF Fit, Clean
  <2>2. Fit(Failed(f), bound) /\ Fit(Admitted(f, "sync", f.http.status, f.stamps.http), bound)
    BY <1>1, <2>1, VerdictsFit, AdmittedFit
  <2> QED BY <2>2 DEF Fit
<1>3. /\ j.link = f.link /\ j.core = f.core /\ j.down = f.down
      /\ j.subscribed = f.subscribed /\ j.enabled = f.enabled
      /\ j.stamps.sub = s.sub /\ j.stamps.core = s.core
      /\ IF admitted THEN j.snap = Merged(f.snap, f.http.status) /\ j.stamps.applied = s.http
         ELSE j.snap = f.snap /\ j.stamps.applied = s.applied
  <2>1. CASE f.http.at = "failed"
    <3>1. j = Failed(f)
      BY <2>1
    <3> QED BY <2>1, <3>1, VerdictsKeep
  <2>2. CASE f.http.at # "failed"
    <3>1. j = Admitted(f, "sync", f.http.status, s.http) /\ f.http.at = "answered"
      BY <2>2
    <3>2. /\ j.link = f.link /\ j.core = f.core /\ j.down = f.down
          /\ j.subscribed = f.subscribed /\ j.enabled = f.enabled
          /\ j.stamps.sub = s.sub /\ j.stamps.core = s.core
          /\ IF s.http < s.applied
             THEN j.snap = f.snap /\ j.stamps.applied = s.applied
             ELSE /\ j.snap = Merged(f.snap, f.http.status)
                  /\ j.stamps.applied \in {s.applied, s.http} /\ j.stamps.applied \in Nat
                  /\ j.stamps.applied >= s.applied /\ j.stamps.applied >= s.http
      BY <1>1, <3>1, AdmittedIs
    <3> QED BY <1>1, <3>1, <3>2
  <2> QED BY <2>1, <2>2
<1>4. /\ g.link = j.link /\ g.core = j.core /\ g.down = j.down
      /\ g.subscribed = j.subscribed /\ g.enabled = j.enabled /\ g.snap = j.snap
      /\ g.http = NoRequest /\ t.http = 0 /\ t.sub = j.stamps.sub
      /\ t.core = j.stamps.core /\ t.applied = j.stamps.applied
      /\ t = [j.stamps EXCEPT !.http = 0] /\ t \in Stamps
  BY <1>2 DEF Feeds, Stamps
<1> HIDE DEF s, t
<1>5. Line(p, g)
  <2> SUFFICES ASSUME f.link = "upgraded"
               PROVE  /\ Told(p, f.core, f.down)
                      /\ Awaits(p, f.subscribed, f.core, f.down, t, "none", g.snap)
    BY <1>3, <1>4, RequestTypes DEF Line, t
  <2>1. /\ Told(p, f.core, f.down)
        /\ Awaits(p, f.subscribed, f.core, f.down, s, f.http.at, f.snap)
    BY DEF InOrder, Line, s
  <2>2. f.http.at # "none"
    OBVIOUS
  <2>3. \/ t.applied = s.applied /\ g.snap = f.snap
        \/ t.applied = s.http /\ s.applied <= s.http
    BY <1>3, <1>4
  <2>4. t.http = 0 /\ t.sub = s.sub /\ t.core = s.core /\ t \in Stamps
    BY <1>3, <1>4
  <2> QED BY <1>1, <2>1, <2>2, <2>3, <2>4, RepliedAwaits
<1>6. \A x \in Fields : /\ f.snap[x] \in Nat /\ f.http.status[x] \in Nat
                        /\ f.snap[x] <= p.status[x] /\ f.http.status[x] <= p.status[x]
                        /\ Nothing[x] <= p.status[x]
  BY <1>1, BoundsAssumption, RunningStatus DEF InOrder, Shown, Statuses, Versions, Nothing
<1>7. \A x \in Fields : /\ g.snap[x] <= p.status[x]
                        /\ g.snap[x] >= f.snap[x]
  <2>1. CASE admitted
    <3>1. \A x \in Fields : f.snap[x] <= f.http.status[x]
      BY <2>1 DEF InOrder, Shown, s
    <3> QED BY <1>3, <1>4, <1>6, <2>1, <3>1 DEF Merged
  <2>2. CASE ~admitted
    BY <1>3, <1>4, <1>6, <2>2
  <2> QED BY <2>1, <2>2
<1>8. Shown(p, g)
  <2>1. g.link = "connecting" => g.core = Nothing
    BY <1>3, <1>4 DEF InOrder, Shown
  <2> QED BY <1>4, <1>6, <1>7, <2>1, RequestTypes DEF Shown
<1>9. Forward(p, f, g)
  <2>1. \A x \in Fields : ~(g.snap[x] < f.snap[x])
    <3>1. g.snap \in Statuses
      BY <1>2, <1>4, FeedParts
    <3>2. \A x \in Fields : g.snap[x] \in Nat
      BY <3>1, BoundsAssumption DEF Statuses, Versions
    <3> QED BY <1>6, <1>7, <3>2
  <2> QED BY <2>1 DEF Forward
<1> QED BY <1>5, <1>8, <1>9 DEF InOrder

\* The request gets its answer, or loses it.
LEMMA AnsweredKeeps ==
    ASSUME NEW p, NEW f, NEW bound, Fit(f, bound), Running(p), InOrder(p, f),
           f.http.at # "none", NEW r,
           r \in {[at |-> "answered", status |-> p.status], [at |-> "failed", status |-> Nothing]},
           NEW g, g = [f EXCEPT !.http = r]
    PROVE  InOrder(p, g) /\ g.snap = f.snap
<1>1. /\ g.link = f.link /\ g.core = f.core /\ g.down = f.down
      /\ g.subscribed = f.subscribed /\ g.enabled = f.enabled /\ g.snap = f.snap
      /\ g.http = r /\ g.stamps = f.stamps
  BY DEF Fit, Feeds
<1>2. /\ r.at # "none" /\ r.status \in {p.status, Nothing}
      /\ r.at = "answered" => r.status = p.status
  OBVIOUS
<1>3. \A x \in Fields : p.status[x] \in Nat /\ Nothing[x] <= p.status[x]
  BY RunningStatus DEF Nothing
<1>4. Line(p, g)
  BY <1>1, <1>2 DEF InOrder, Line, Awaits, Due, Tuned, Later, Settled
<1>5. Shown(p, g)
  BY <1>1, <1>2, <1>3 DEF InOrder, Shown
<1> QED BY <1>1, <1>4, <1>5 DEF InOrder

-----------------------------------------------------------------------------
(* Moonraker sends.                                                        *)

LEMMA RemarkSent ==
    ASSUME NEW p, NEW q, NEW f, NEW bound, Fit(f, bound), Running(p), InOrder(p, f),
           f.link = "upgraded",
           NEW m \in Messages, m.kind \notin {"patch", "sync"},
           NEW g, g.down = Append(f.down, m),
           g.link = f.link, g.core = f.core, g.stamps = f.stamps, g.http = f.http,
           g.snap = f.snap, g.enabled = f.enabled,
           q.status = p.status, q.runs = p.runs,
           \/ g.subscribed = f.subscribed /\ q.klippy = p.klippy /\ q.epoch = p.epoch
           \/ g.subscribed = FALSE /\ q.klippy = "down"
    PROVE  InOrder(q, g)
<1> DEFINE c == f.core
           d == f.down
           e == g.down
           s == f.stamps
           at == f.http.at
           snap == f.snap
           old == f.subscribed
           now == g.subscribed
<1>1. /\ c \in Statuses /\ d \in Seq(Messages)
      /\ Told(p, c, d) /\ Awaits(p, old, c, d, s, at, snap)
  BY FeedParts DEF Fit, InOrder, Line
<1>2. Longer(d, e, m)
  BY <1>1, Lengthened
<1>3. /\ m.kind # "patch" /\ p.runs \subseteq q.runs
      /\ \/ (now <=> old) /\ q.klippy = p.klippy /\ q.epoch = p.epoch
         \/ ~now /\ q.klippy = "down"
  OBVIOUS
<1>4. Line(q, g) <=> Told(q, c, e) /\ Awaits(q, now, c, e, s, at, snap)
  BY DEF Line
<1> HIDE DEF c, d, e, s, at, snap, old, now
<1>5. Told(p, c, e)
  BY <1>1, <1>2, RemarkedLine, RunningStatus
<1>6. Told(q, c, e)
  BY <1>5 DEF Told, Under, Backed, Covered, Renews
<1>7. Awaits(q, now, c, e, s, at, snap)
  BY <1>1, <1>2, <1>3, AppendedAwaits
<1>8. Shown(q, g)
  BY DEF InOrder, Shown
<1> QED BY <1>4, <1>6, <1>7, <1>8 DEF InOrder

LEMMA SyncSent ==
    ASSUME NEW p, NEW f, NEW bound, Fit(f, bound), Running(p), InOrder(p, f),
           f.link = "upgraded", p.klippy = "up",
           NEW m \in Messages, m.kind = "sync", m.status = p.status,
           NEW g, g.down = Append(f.down, m), g.subscribed = TRUE,
           g.link = f.link, g.core = f.core, g.stamps = f.stamps, g.http = f.http,
           g.snap = f.snap, g.enabled = f.enabled
    PROVE  InOrder(p, g)
<1> DEFINE c == f.core
           d == f.down
           e == g.down
           s == f.stamps
           at == f.http.at
           snap == f.snap
           old == f.subscribed
           now == g.subscribed
<1>1. /\ c \in Statuses /\ d \in Seq(Messages)
      /\ Told(p, c, d) /\ Awaits(p, old, c, d, s, at, snap)
  BY FeedParts DEF Fit, InOrder, Line
<1>2. Longer(d, e, m)
  BY <1>1, Lengthened
<1>3. Line(p, g) <=> Told(p, c, e) /\ Awaits(p, now, c, e, s, at, snap)
  BY DEF Line
<1>4. now
  OBVIOUS
<1> HIDE DEF c, d, e, s, at, snap, old, now
<1>5. Told(p, c, e)
  BY <1>1, <1>2, SyncedLine, RunningStatus
<1>6. Awaits(p, now, c, e, s, at, snap)
  BY <1>1, <1>2, <1>4, AppendedAwaits
<1>7. Shown(p, g)
  BY DEF InOrder, Shown
<1> QED BY <1>3, <1>5, <1>6, <1>7 DEF InOrder

\* A field changes, and a subscriber is told.
LEMMA ChangeSent ==
    ASSUME NEW p, NEW q, NEW f, NEW bound, Fit(f, bound), Running(p), Running(q),
           InOrder(p, f), p.klippy = "up", q.klippy = "up",
           q.runs = p.runs, q.epoch = p.epoch,
           NEW x \in Fields, NEW n \in Versions, n > 0,
           \A y \in Fields : p.status[y] <= n,
           Turned(q.status, p.status, x, n),
           NEW m \in Messages, m.kind = "patch", Turned(m.status, Nothing, x, n),
           NEW g, g.down = IF f.subscribed THEN Append(f.down, m) ELSE f.down,
           g.subscribed = f.subscribed,
           g.link = f.link, g.core = f.core, g.stamps = f.stamps, g.http = f.http,
           g.snap = f.snap, g.enabled = f.enabled
    PROVE  InOrder(q, g)
<1> DEFINE c == f.core
           d == f.down
           e == g.down
           s == f.stamps
           at == f.http.at
           snap == f.snap
           old == f.subscribed
<1>1. /\ c \in Statuses /\ d \in Seq(Messages) /\ snap \in Statuses /\ n \in Nat
      /\ f.http.status \in Statuses /\ p.status \in Statuses /\ q.status \in Statuses
  BY FeedParts, RunningStatus, BoundsAssumption DEF Fit, Versions
<1>2. \A y \in Fields : /\ p.status[y] \in Nat /\ snap[y] \in Nat /\ f.http.status[y] \in Nat
                        /\ snap[y] <= p.status[y] /\ f.http.status[y] <= p.status[y]
  BY <1>1, BoundsAssumption DEF InOrder, Shown, Statuses, Versions
<1>3. f.link = "upgraded" =>
         /\ Told(p, c, d) /\ Awaits(p, old, c, d, s, at, snap)
         /\ Line(q, g) <=> Told(q, c, e) /\ Awaits(q, old, c, e, s, at, snap)
  BY DEF InOrder, Line
<1>4. old => Longer(d, e, m)
  BY <1>1, Lengthened
<1>5. ~old => e = d
  OBVIOUS
<1>6. \A y \in Fields : /\ p.status[y] <= q.status[y] /\ snap[y] <= n
                        /\ snap[y] <= q.status[y] /\ f.http.status[y] <= q.status[y]
  <2> HIDE DEF c, d, e, s, at, snap, old
  <2> QED BY <1>1, <1>2 DEF Turned
<1>7. Shown(q, g)
  BY <1>6 DEF InOrder, Shown
<1>8. q.epoch \in q.runs /\ \A y \in Fields : q.epoch <= q.status[y]
  BY DEF Running
<1> HIDE DEF c, d, e, s, at, snap, old
<1>9. CASE f.link = "upgraded" /\ old
  <2>1. Told(q, c, e)
    BY <1>1, <1>3, <1>4, <1>9, PatchedLine
  <2>2. q.klippy = p.klippy /\ \A y \in Fields : snap[y] <= n
    BY <1>6
  <2>3. Longer(d, e, m) /\ Awaits(p, old, c, d, s, at, snap)
    BY <1>3, <1>4, <1>9
  <2>4. Awaits(q, old, c, e, s, at, snap)
    BY <1>1, <1>9, <2>2, <2>3, PatchedAwaits
  <2> QED BY <1>3, <1>7, <1>9, <2>1, <2>4 DEF InOrder
<1>10. CASE f.link = "upgraded" /\ ~old
  <2>1. \A i \in 0 .. Len(d), y \in Fields : Patch(d, i) => Sent(c, d, i)[y] < q.epoch
    BY <1>3, <1>10 DEF Awaits, Unheard
  <2>2. Told(q, c, d)
    BY <1>1, <1>3, <1>6, <1>8, <1>10, <2>1, UnheardLine
  <2>3. Awaits(q, old, c, d, s, at, snap)
    BY <1>3, <1>10, MovedAwaits
  <2> QED BY <1>3, <1>5, <1>7, <1>10, <2>2, <2>3 DEF InOrder
<1>11. CASE f.link # "upgraded"
  BY <1>7, <1>11 DEF InOrder, Line
<1> QED BY <1>9, <1>10, <1>11

\* Klippy is ready again: a run of its own, after all that was ever sent.
LEMMA ReadySent ==
    ASSUME NEW p, NEW q, NEW f, NEW bound, Fit(f, bound), Running(p), Running(q),
           InOrder(p, f), p.klippy = "down", p.runs \subseteq q.runs,
           NEW n \in Nat, n = q.epoch, \A y \in Fields : p.status[y] < n /\ q.status[y] = n,
           NEW m \in Messages, m.kind = "ready",
           NEW g, g.down = IF f.link = "upgraded" THEN Append(f.down, m) ELSE f.down,
           g.subscribed = f.subscribed,
           g.link = f.link, g.core = f.core, g.stamps = f.stamps, g.http = f.http,
           g.snap = f.snap, g.enabled = f.enabled
    PROVE  InOrder(q, g)
<1> DEFINE c == f.core
           d == f.down
           e == g.down
           s == f.stamps
           at == f.http.at
           snap == f.snap
           old == f.subscribed
<1>1. /\ c \in Statuses /\ d \in Seq(Messages) /\ snap \in Statuses
      /\ f.http.status \in Statuses /\ p.status \in Statuses /\ q.status \in Statuses
      /\ n \in q.runs
  BY FeedParts, RunningStatus DEF Fit, Running
<1>2. \A y \in Fields : /\ p.status[y] \in Nat /\ snap[y] \in Nat /\ f.http.status[y] \in Nat
                        /\ snap[y] <= p.status[y] /\ f.http.status[y] <= p.status[y]
  BY <1>1, BoundsAssumption DEF InOrder, Shown, Statuses, Versions
<1>3. f.link = "upgraded" =>
         /\ Told(p, c, d) /\ Awaits(p, old, c, d, s, at, snap)
         /\ Line(q, g) <=> Told(q, c, e) /\ Awaits(q, old, c, e, s, at, snap)
  BY DEF InOrder, Line
<1>4. f.link = "upgraded" => Longer(d, e, m)
  BY <1>1, Lengthened
<1>5. \A y \in Fields : /\ p.status[y] <= q.status[y] /\ n <= q.status[y]
                        /\ snap[y] <= q.status[y] /\ f.http.status[y] <= q.status[y]
  <2> HIDE DEF c, d, e, s, at, snap, old
  <2> QED BY <1>1, <1>2
<1>6. Shown(q, g)
  BY <1>5 DEF InOrder, Shown
<1> HIDE DEF c, d, e, s, at, snap, old
<1>7. CASE f.link = "upgraded"
  <2>1. \A i \in 0 .. Len(d), y \in Fields : Sent(c, d, i)[y] < n
    <3> SUFFICES ASSUME NEW i \in 0 .. Len(d), NEW y \in Fields
                 PROVE  Sent(c, d, i)[y] < n
      OBVIOUS
    <3>1. Sent(c, d, i)[y] \in Nat
      BY <1>1, SentType
    <3>2. Sent(c, d, i)[y] <= p.status[y]
      BY <1>3, <1>7 DEF Told, Under
    <3> QED BY <1>2, <3>1, <3>2
  <2>2. Told(q, c, d)
    BY <1>1, <1>3, <1>5, <1>7, <2>1, UnheardLine
  <2>3. Told(q, c, e)
    BY <1>1, <1>4, <1>7, <2>2, RemarkedLine
  <2>4. ~old
    BY <1>3, <1>7 DEF Awaits, Tuned
  <2>5. Awaits(q, old, c, e, s, at, snap)
    BY <1>1, <1>3, <1>4, <1>7, <2>1, <2>4, AppendedAwaits
  <2> QED BY <1>3, <1>6, <1>7, <2>3, <2>5 DEF InOrder
<1>8. CASE f.link # "upgraded"
  BY <1>6, <1>8 DEF InOrder, Line
<1> QED BY <1>7, <1>8

-----------------------------------------------------------------------------
(* The steps: everything stays in order, and nothing shown goes backwards. *)

OrderInv == FeedInv /\ Running(printer) /\ InOrder(printer, feed)

\* What NeverBackwards says of a step.
NoneBackwards ==
    \A x \in Fields : feed'.snap[x] < feed.snap[x] =>
        \/ feed'.snap[x] = 0
        \/ feed.down # <<>> /\ feed'.down = Tail(feed.down) /\ Head(feed.down).kind = "sync"
        \/ /\ feed'.snap[x] = feed.core[x]
           /\ \E e \in printer.runs : feed'.snap[x] < e /\ e <= feed.snap[x]

Kept == Running(printer)' /\ InOrder(printer, feed)' /\ NoneBackwards

LEMMA InitOrder == Init => OrderInv
<1> SUFFICES ASSUME Init PROVE OrderInv
  OBVIOUS
<1>1. FeedInv
  BY InitFit
<1>2. Running(printer)
  BY <1>1 DEF FeedInv, TypeOK, Init, Running
<1>3. \A x \in Fields : Nothing[x] <= printer.status[x]
  BY <1>2, RunningStatus DEF Nothing
<1>4. InOrder(printer, feed)
  BY <1>3, RequestTypes DEF Init, InOrder, Line, Shown
<1> QED BY <1>1, <1>2, <1>4 DEF OrderInv

LEMMA NextOrder ==
    ASSUME Running(printer'), InOrder(printer', feed')
    PROVE  Running(printer)' /\ InOrder(printer, feed)'
<1>1. Running(printer)'
  BY DEF Running, Printers
<1>2. InOrder(printer, feed)'
  BY DEF InOrder, Line, Shown, Told, Awaits, Ordered, Whole, Under, Backed, Covered, Renews,
         Sent, Patch, Due, Unheard, Tuned, Later, Settled, Opened, Heard, Latest
<1> QED BY <1>1, <1>2

\* A step that leaves the printer alone and makes of the feed what is in order.
LEMMA QuietOrder ==
    ASSUME OrderInv, UNCHANGED printer,
           NEW f, Fit(f, printer.bound), InOrder(printer, f), Becomes(f)
    PROVE  /\ Running(printer)' /\ InOrder(printer, feed)' /\ feed'.snap = f.snap
           /\ Forward(printer, feed, f) => Kept
<1> DEFINE g == [f EXCEPT !.stamps = Ranked(f.stamps)]
<1>1. InOrder(printer, g) /\ g.snap = f.snap
  BY RankedInOrder DEF Fit, Feeds
<1>2. feed' = g
  BY DEF Becomes
<1> HIDE DEF g
<1>3. Running(printer)' /\ InOrder(printer, feed)'
  <2>1. Running(printer') /\ InOrder(printer', feed')
    BY <1>1, <1>2 DEF OrderInv
  <2> QED BY <2>1, NextOrder
<1>4. Forward(printer, feed, f) => NoneBackwards
  BY <1>1, <1>2 DEF Forward, NoneBackwards
<1> QED BY <1>1, <1>2, <1>3, <1>4 DEF Kept

\* One that shows nothing new, or nothing at all.
LEMMA SilentOrder ==
    ASSUME OrderInv, UNCHANGED printer, NEW f, Fit(f, printer.bound), InOrder(printer, f),
           f.snap \in {feed.snap, Nothing}, Becomes(f)
    PROVE  Kept
<1>1. \A x \in Fields : feed.snap[x] \in Nat /\ Nothing[x] = 0
  BY FeedParts, BoundsAssumption
     DEF OrderInv, FeedInv, Fit, Statuses, Versions, Nothing
<1>2. Forward(printer, feed, f)
  BY <1>1 DEF Forward
<1> QED BY <1>2, QuietOrder

LEMMA OwnersOrder ==
    ASSUME OrderInv,
           \/ Start \/ \E reset \in BOOLEAN : Stop(reset)
           \/ Resubscribe \/ ForceRefresh
    PROVE  Kept
<1>1. Fit(feed, printer.bound) /\ Running(printer) /\ InOrder(printer, feed)
  BY DEF OrderInv, FeedInv
<1>2. CASE Start
  <2>1. Becomes(Started(feed)) /\ UNCHANGED printer
    BY <1>2 DEF Start
  <2>2. Fit(Started(feed), printer.bound)
    BY <1>1, StartedFit
  <2>3. InOrder(printer, Started(feed)) /\ Started(feed).snap = feed.snap
    BY <1>1, StartedKeeps
  <2> QED BY <2>1, <2>2, <2>3, SilentOrder
<1>3. ASSUME NEW reset \in BOOLEAN, Stop(reset) PROVE Kept
  <2> DEFINE g == Stopped(feed)
             h == SessionReset(g, "http")
  <2>1. Fit(g, printer.bound) /\ ~g.enabled /\ g.http = NoRequest /\ "http" \in Modes
    BY <1>1, StoppedFit DEF Modes
  <2>2. InOrder(printer, g) /\ g.snap = feed.snap
    BY <1>1, StoppedKeeps
  <2>3. (Becomes(g) \/ Becomes(h)) /\ UNCHANGED printer
    BY <1>3 DEF Stop
  <2> HIDE DEF g
  <2>4. Fit(h, printer.bound)
    BY <2>1, SessionResetFit
  <2>5. InOrder(printer, h) /\ h.snap = Nothing
    BY <1>1, <2>1, SessionResetKeeps
  <2> HIDE DEF h
  <2> QED BY <2>1, <2>2, <2>3, <2>4, <2>5, SilentOrder
<1>4. CASE Resubscribe
  <2>1. Becomes(Subscribed(feed)) /\ UNCHANGED printer
    BY <1>4 DEF Resubscribe
  <2>2. Fit(Subscribed(feed), printer.bound)
    BY <1>1, SubscribedFit
  <2>3. InOrder(printer, Subscribed(feed)) /\ Subscribed(feed).snap = feed.snap
    BY <1>1, SubscribedKeeps
  <2> QED BY <2>1, <2>2, <2>3, SilentOrder
<1>5. CASE ForceRefresh
  <2>1. Becomes(Refreshed(feed, TRUE)) /\ UNCHANGED printer
    BY <1>5 DEF ForceRefresh
  <2>2. /\ Fit(Refreshed(feed, TRUE), printer.bound) /\ InOrder(printer, Refreshed(feed, TRUE))
        /\ Forward(printer, feed, Refreshed(feed, TRUE))
    BY <1>1, RefreshedFit, RefreshedKeeps
  <2> QED BY <2>1, <2>2, QuietOrder
<1> QED BY <1>2, <1>3, <1>4, <1>5

LEMMA ClocksOrder == ASSUME OrderInv, Clocks PROVE Kept
<1>1. /\ Fit(feed, printer.bound) /\ Running(printer) /\ InOrder(printer, feed)
      /\ feed \in Feeds
  BY DEF OrderInv, FeedInv, Fit
<1>2. CASE Tick
  <2>1. Becomes(Refreshed(feed, FALSE)) /\ UNCHANGED printer
    BY <1>2 DEF Tick
  <2>2. /\ Fit(Refreshed(feed, FALSE), printer.bound) /\ InOrder(printer, Refreshed(feed, FALSE))
        /\ Forward(printer, feed, Refreshed(feed, FALSE))
    BY <1>1, RefreshedFit, RefreshedKeeps
  <2> QED BY <2>1, <2>2, QuietOrder
<1>3. CASE QueuedRefresh
  <2> DEFINE f == [feed EXCEPT !.queued = FALSE]
  <2>1. Fit(f, printer.bound)
    BY <1>1 DEF Fit, Feeds, Wanted, Slotted, Clean
  <2>2. /\ f.link = feed.link /\ f.core = feed.core /\ f.down = feed.down
        /\ f.subscribed = feed.subscribed /\ f.stamps = feed.stamps /\ f.http = feed.http
        /\ f.snap = feed.snap /\ f.enabled = feed.enabled
    BY <1>1 DEF Feeds
  <2>3. Becomes(Refreshed(f, TRUE)) /\ UNCHANGED printer
    BY <1>3 DEF QueuedRefresh
  <2> HIDE DEF f
  <2>4. InOrder(printer, f)
    BY <1>1, <2>2, SameOrder
  <2>5. /\ Fit(Refreshed(f, TRUE), printer.bound) /\ InOrder(printer, Refreshed(f, TRUE))
        /\ Forward(printer, f, Refreshed(f, TRUE))
    BY <1>1, <2>1, <2>4, RefreshedFit, RefreshedKeeps
  <2>6. Forward(printer, feed, Refreshed(f, TRUE))
    BY <2>2, <2>5 DEF Forward
  <2> QED BY <2>3, <2>5, <2>6, QuietOrder
<1>4. CASE BackoffOver
  <2> DEFINE f == [feed EXCEPT !.backoff = "due"]
  <2>1. Fit(f, printer.bound)
    BY <1>1 DEF Fit, Feeds, Backoffs, Wanted, Slotted, Clean
  <2>2. /\ f.link = feed.link /\ f.core = feed.core /\ f.down = feed.down
        /\ f.subscribed = feed.subscribed /\ f.stamps = feed.stamps /\ f.http = feed.http
        /\ f.snap = feed.snap /\ f.enabled = feed.enabled
    BY <1>1 DEF Feeds
  <2>3. Becomes(f) /\ UNCHANGED printer
    BY <1>4 DEF BackoffOver
  <2> HIDE DEF f
  <2>4. InOrder(printer, f)
    BY <1>1, <2>2, SameOrder
  <2> QED BY <2>1, <2>2, <2>3, <2>4, SilentOrder
<1>5. CASE ProofTimer
  <2> DEFINE over == [feed EXCEPT !.proof = FALSE]
             f    == IF feed.mode = "websocket" /\ feed.stamps.applied = 0
                     THEN Degraded(over) ELSE over
  <2>1. Fit(over, printer.bound)
    BY <1>1 DEF Fit, Feeds, Wanted, Slotted, Clean
  <2>2. /\ over.link = feed.link /\ over.core = feed.core /\ over.down = feed.down
        /\ over.subscribed = feed.subscribed /\ over.stamps = feed.stamps
        /\ over.http = feed.http /\ over.snap = feed.snap /\ over.enabled = feed.enabled
    BY <1>1 DEF Feeds
  <2>3. Becomes(f) /\ UNCHANGED printer
    BY <1>5 DEF ProofTimer
  <2> HIDE DEF over
  <2>4. InOrder(printer, over)
    BY <1>1, <2>2, SameOrder
  <2>5. Fit(f, printer.bound) /\ InOrder(printer, f) /\ f.snap = feed.snap
    BY <1>1, <2>1, <2>2, <2>4, DegradedFit, DegradedKeeps
  <2> HIDE DEF f
  <2> QED BY <2>3, <2>5, SilentOrder
<1> QED BY <1>2, <1>3, <1>4, <1>5 DEF Clocks

LEMMA DeliverOrder == ASSUME OrderInv, Deliver PROVE Kept
<1> DEFINE message == Head(feed.down)
           read    == [feed EXCEPT !.down = Tail(@)]
<1>1. /\ Fit(feed, printer.bound) /\ Running(printer) /\ InOrder(printer, feed)
      /\ feed.down # <<>>
  BY DEF OrderInv, FeedInv, Deliver
<1>2. /\ Fit(read, printer.bound) /\ message \in Messages
      /\ Carries(message, printer.bound)
  BY <1>1, ReadFit
<1>3. /\ OnSocket(read) /\ Reads(feed, read) /\ message = feed.down[1]
      /\ read.down = Tail(feed.down) /\ read.snap = feed.snap
  <2>1. OnSocket(feed)
    BY <1>1, LiveLink
  <2>2. Reads(feed, read)
    BY DEF Reads
  <2> QED BY <1>1, <2>1, <2>2, ReadIs DEF OnSocket, Fit, Feeds
<1>4. /\ UNCHANGED <<printer, budget>>
      /\ Becomes(CASE message.kind = "patch"   -> Accumulated(read, message.status)
                   [] message.kind = "sync"    -> Admitted(read, "sync", message.status, read.stamps.sub)
                   [] message.kind = "refused" -> Degraded(read)
                   [] message.kind = "denied"  -> Failed(read)
                   [] message.kind = "ready"   -> Subscribed(read)
                   [] message.kind = "lost"    -> Failed(read))
  BY DEF Deliver
<1>5. /\ message.kind \in {"patch", "sync", "refused", "denied", "ready", "lost"}
      /\ message.kind \in {"patch", "sync"} =>
            message.status \in Statuses /\ Own(message.status, printer.bound)
  BY <1>2 DEF Messages, Carries
<1>6. read.stamps.sub \in Nat /\ message.kind = Head(feed.down).kind
  BY <1>2 DEF Fit, Feeds, Stamps
<1> HIDE DEF message, read
<1>7. CASE message.kind = "patch"
  <2> DEFINE f == Accumulated(read, message.status)
  <2>1. Fit(f, printer.bound)
    BY <1>2, <1>3, <1>5, <1>7, AccumulatedFit
  <2>2. InOrder(printer, f) /\ f.snap = feed.snap
    BY <1>1, <1>2, <1>3, <1>7, PatchRead
  <2>3. Becomes(f)
    BY <1>4, <1>7
  <2> HIDE DEF f
  <2> QED BY <1>4, <2>1, <2>2, <2>3, SilentOrder
<1>8. CASE message.kind = "sync"
  <2> DEFINE f == Admitted(read, "sync", message.status, read.stamps.sub)
  <2>1. Fit(f, printer.bound)
    BY <1>2, <1>5, <1>6, <1>8, AdmittedFit
  <2>2. InOrder(printer, f)
    BY <1>1, <1>2, <1>3, <1>8, SyncRead
  <2>3. f.down = Tail(feed.down)
    BY <1>2, <1>3, <1>5, <1>6, <1>8, AdmittedIs
  <2>4. Becomes(f)
    BY <1>4, <1>8
  <2> HIDE DEF f
  <2>5. Running(printer)' /\ InOrder(printer, feed)'
    BY <1>4, <2>1, <2>2, <2>4, QuietOrder
  <2>6. feed'.down = Tail(feed.down)
    BY <2>1, <2>3, <2>4 DEF Becomes, Fit, Feeds
  <2> QED BY <1>1, <1>6, <1>8, <2>5, <2>6 DEF Kept, NoneBackwards
<1>9. CASE message.kind \in {"refused", "denied", "lost"}
  <2>1. InOrder(printer, read) /\ read.snap = feed.snap
    BY <1>1, <1>3, <1>9, RemarkRead
  <2>2. /\ Fit(Degraded(read), printer.bound) /\ InOrder(printer, Degraded(read))
        /\ Degraded(read).snap = feed.snap
    BY <1>1, <1>2, <2>1, DegradedFit, DegradedKeeps
  <2>3. /\ Fit(Failed(read), printer.bound) /\ InOrder(printer, Failed(read))
        /\ Failed(read).snap = feed.snap
    BY <1>2, <2>1, VerdictsFit, VerdictsKeep
  <2>4. Becomes(Degraded(read)) \/ Becomes(Failed(read))
    BY <1>4, <1>9
  <2> QED BY <1>4, <2>2, <2>3, <2>4, SilentOrder
<1>10. CASE message.kind = "ready"
  <2>1. Fit(Subscribed(read), printer.bound)
    BY <1>2, SubscribedFit
  <2>2. InOrder(printer, Subscribed(read)) /\ Subscribed(read).snap = feed.snap
    BY <1>1, <1>2, <1>3, <1>10, ReadyRead
  <2>3. Becomes(Subscribed(read))
    BY <1>4, <1>10
  <2> QED BY <1>4, <2>1, <2>2, <2>3, SilentOrder
<1> QED BY <1>5, <1>7, <1>8, <1>9, <1>10

LEMMA HttpReplyOrder == ASSUME OrderInv, HttpReply PROVE Kept
<1> DEFINE judged == IF feed.http.at = "failed" THEN Failed(feed)
                     ELSE Admitted(feed, "sync", feed.http.status, feed.stamps.http)
           more == judged.queued \/ (feed.slot = "forced" /\ judged.backoff = "clear")
           f == [judged EXCEPT !.http = NoRequest, !.stamps.http = 0, !.slot = "free",
                               !.queued = more]
<1>1. /\ Fit(feed, printer.bound) /\ Running(printer) /\ InOrder(printer, feed)
      /\ feed.http.at \in {"answered", "failed"}
  BY DEF OrderInv, FeedInv, HttpReply
<1>2. /\ feed.http.status \in Statuses /\ Own(feed.http.status, printer.bound)
      /\ feed.stamps.http \in Nat
  BY <1>1 DEF Fit, Feeds, Requests, Stamps, Clean
<1>3. Fit(judged, printer.bound)
  BY <1>1, <1>2, AdmittedFit, VerdictsFit
<1>4. Becomes(f) /\ UNCHANGED printer
  BY DEF HttpReply
<1>5. InOrder(printer, f) /\ Forward(printer, feed, f)
  <2> HIDE DEF more
  <2>1. judged = IF feed.http.at = "failed" THEN Failed(feed)
                 ELSE Admitted(feed, "sync", feed.http.status, feed.stamps.http)
    OBVIOUS
  <2> HIDE DEF judged
  <2>2. f = [judged EXCEPT !.http = NoRequest, !.stamps.http = 0, !.slot = "free",
                           !.queued = more]
    OBVIOUS
  <2> HIDE DEF f
  <2> QED BY <1>1, <2>1, <2>2, RepliedKeeps
<1> HIDE DEF judged
<1>6. more \in BOOLEAN
  BY <1>3 DEF Fit, Feeds
<1> HIDE DEF more
<1>7. f \in Feeds
  BY <1>3, <1>6, RequestTypes DEF Fit, Feeds, Slots, Stamps
<1>8. /\ f.link = judged.link /\ f.core = judged.core /\ f.mode = judged.mode
      /\ f.configured = judged.configured /\ f.enabled = judged.enabled
      /\ f.asks = judged.asks /\ f.subscribed = judged.subscribed
      /\ f.snap = judged.snap /\ f.down = judged.down
      /\ f.slot = "free" /\ f.http = NoRequest
  BY <1>3 DEF Fit, Feeds
<1> HIDE DEF f
<1>9. Wanted(f) /\ Slotted(f)
  BY <1>3, <1>8, RequestTypes DEF Fit, Wanted, Slotted
<1>10. Clean(f, printer.bound)
  BY <1>3, <1>8, RequestTypes, OwnNothing DEF Fit, Clean
<1>11. Fit(f, printer.bound)
  BY <1>7, <1>9, <1>10 DEF Fit
<1> QED BY <1>4, <1>5, <1>11, QuietOrder

LEMMA UpgradeOrder == ASSUME OrderInv, Upgrade PROVE Kept
<1> DEFINE f == [feed EXCEPT !.link = "upgraded"]
<1>1. /\ Fit(feed, printer.bound) /\ Running(printer) /\ InOrder(printer, feed)
      /\ feed.link = "connecting"
  BY DEF OrderInv, FeedInv, Upgrade
<1>2. Fit(f, printer.bound)
  <2>1. f \in Feeds
    BY <1>1 DEF Fit, Feeds, Links
  <2> QED BY <1>1, <2>1 DEF Fit, Feeds, Wanted, Slotted, Clean
<1>3. Becomes(Subscribed(f)) /\ UNCHANGED printer
  BY DEF Upgrade
<1>4. f = [feed EXCEPT !.link = "upgraded"]
  OBVIOUS
<1> HIDE DEF f
<1>5. Fit(Subscribed(f), printer.bound)
  BY <1>2, SubscribedFit
<1>6. InOrder(printer, Subscribed(f)) /\ Subscribed(f).snap = feed.snap
  BY <1>1, <1>2, <1>4, UpgradedKeeps
<1> QED BY <1>3, <1>5, <1>6, SilentOrder

LEMMA LinkEndsOrder ==
    ASSUME OrderInv, ConnectFails \/ LinkError \/ LinkFails \/ PeerClose
    PROVE  Kept
<1>1. Fit(feed, printer.bound) /\ Running(printer) /\ InOrder(printer, feed)
  BY DEF OrderInv, FeedInv
<1>2. ASSUME NEW link \in {"none", "dead"}, feed.link # "none"
      PROVE  /\ Fit(Failed(Unlinked(feed, link)), printer.bound)
             /\ InOrder(printer, Failed(Unlinked(feed, link)))
             /\ Failed(Unlinked(feed, link)).snap = feed.snap
  <2>1. feed.mode = "websocket" /\ feed.configured = "websocket"
    BY <1>1, <1>2, LiveLink DEF OnSocket
  <2>2. Fit(Unlinked(feed, link), printer.bound)
    BY <1>1, <2>1, UnlinkedFit
  <2>3. InOrder(printer, Unlinked(feed, link)) /\ Unlinked(feed, link).snap = feed.snap
    BY <1>1, UnlinkedKeeps
  <2> QED BY <2>2, <2>3, VerdictsFit, VerdictsKeep
<1>3. CASE ConnectFails
  <2>1. PICK link \in {"none", "dead"} : Becomes(Failed(Unlinked(feed, link)))
    BY <1>3 DEF ConnectFails
  <2>2. UNCHANGED printer /\ feed.link # "none"
    BY <1>3 DEF ConnectFails
  <2> QED BY <1>2, <2>1, <2>2, SilentOrder
<1>4. CASE LinkError
  <2>1. Becomes(Failed(Unlinked(feed, "dead"))) /\ UNCHANGED printer /\ feed.link # "none"
    BY <1>4 DEF LinkError
  <2> QED BY <1>2, <2>1, SilentOrder
<1>5. CASE LinkFails
  <2> DEFINE g == Failed(feed)
  <2>1. Fit(g, printer.bound) /\ InOrder(printer, g) /\ g.snap = feed.snap
    BY <1>1, VerdictsFit, VerdictsKeep
  <2>2. Becomes(SocketStopped(g)) /\ UNCHANGED printer
    BY <1>5 DEF LinkFails
  <2> HIDE DEF g
  <2>3. /\ Fit(SocketStopped(g), printer.bound) /\ InOrder(printer, SocketStopped(g))
        /\ SocketStopped(g).snap = feed.snap
    BY <2>1, SocketStoppedFit, SocketStoppedKeeps
  <2> QED BY <2>2, <2>3, SilentOrder
<1>6. CASE PeerClose
  <2>1. /\ Fit(SocketStopped(feed), printer.bound) /\ InOrder(printer, SocketStopped(feed))
        /\ SocketStopped(feed).snap = feed.snap
    BY <1>1, SocketStoppedFit, SocketStoppedKeeps
  <2> QED BY <1>6, <2>1, SilentOrder DEF PeerClose
<1> QED BY <1>3, <1>4, <1>5, <1>6

LEMMA HttpServedOrder == ASSUME OrderInv, ServeHttp \/ HttpLost PROVE Kept
<1> DEFINE answered == [at |-> "answered", status |-> printer.status]
           failed   == [at |-> "failed", status |-> Nothing]
           Put(r)   == [feed EXCEPT !.http = r]
<1>1. /\ Fit(feed, printer.bound) /\ Running(printer) /\ InOrder(printer, feed)
      /\ printer.status \in Statuses
      /\ Own(printer.status, printer.bound) /\ feed.http.at # "none"
  BY DEF OrderInv, FeedInv, TypeOK, Printers, PrinterFit, Own, ServeHttp, HttpLost
<1>2. /\ answered \in Requests /\ failed \in Requests
      /\ Own(answered.status, printer.bound) /\ Own(failed.status, printer.bound)
      /\ answered.at # "none" /\ failed.at # "none"
  BY <1>1, NothingType, OwnNothing DEF Requests
<1>3. \A r \in {answered, failed} : InOrder(printer, Put(r)) /\ Put(r).snap = feed.snap
  BY <1>1, AnsweredKeeps
<1> HIDE DEF answered, failed
<1>4. \A r \in {answered, failed} : Fit(Put(r), printer.bound)
  BY <1>1, <1>2 DEF Fit, Feeds, Wanted, Slotted, Clean
<1>5. PICK r \in {answered, failed} : Becomes(Put(r)) /\ UNCHANGED printer
  <2>1. CASE ServeHttp
    <3>1. /\ Becomes(Put(IF printer.klippy = "up" THEN answered ELSE failed))
          /\ UNCHANGED printer
      BY <2>1 DEF ServeHttp, answered, failed
    <3> HIDE DEF Put
    <3> QED BY <3>1
  <2>2. CASE HttpLost
    <3>1. Becomes(Put(failed)) /\ UNCHANGED printer
      BY <2>2 DEF HttpLost, failed
    <3> HIDE DEF Put
    <3> QED BY <3>1
  <2> QED BY <2>1, <2>2
<1> HIDE DEF Put
<1> QED BY <1>3, <1>4, <1>5, SilentOrder

LEMMA ServeSubscribeOrder == ASSUME OrderInv, ServeSubscribe PROVE Kept
<1> DEFINE heard == [feed EXCEPT !.asks = @ - 1]
           up    == [heard EXCEPT !.subscribed = TRUE, !.denied = FALSE]
           sync  == [kind |-> "sync", status |-> printer.status]
           no    == [kind |-> "refused"]
           f     == Sends(up, sync)
           g     == Sends(heard, no)
<1>1. /\ Fit(feed, printer.bound) /\ printer.status \in Statuses
      /\ Running(printer) /\ InOrder(printer, feed)
      /\ Own(printer.status, printer.bound) /\ feed.asks \in Nat /\ feed.asks > 0
  BY DEF OrderInv, FeedInv, TypeOK, Printers, PrinterFit, Own, ServeSubscribe, Feeds
<1>2. feed.link = "upgraded" /\ feed.asks - 1 \in Nat
  BY <1>1, LiveLink
<1>3. Fit(heard, printer.bound) /\ heard.link = "upgraded"
  BY <1>1, <1>2 DEF Fit, Feeds, Wanted, Slotted, Clean
<1>4. /\ UNCHANGED printer
      /\ IF printer.klippy = "up" THEN Becomes(f) ELSE Becomes(g)
  BY DEF ServeSubscribe
<1>5. /\ f.down = Append(feed.down, sync) /\ f.subscribed = TRUE
      /\ f.link = feed.link /\ f.core = feed.core /\ f.stamps = feed.stamps
      /\ f.http = feed.http /\ f.snap = feed.snap /\ f.enabled = feed.enabled
  BY <1>1 DEF Sends, Fit, Feeds
<1>6. /\ g.down = Append(feed.down, no) /\ g.subscribed = feed.subscribed
      /\ g.link = feed.link /\ g.core = feed.core /\ g.stamps = feed.stamps
      /\ g.http = feed.http /\ g.snap = feed.snap /\ g.enabled = feed.enabled
  BY <1>1 DEF Sends, Fit, Feeds
<1> HIDE DEF heard
<1>7. Fit(up, printer.bound) /\ up.link = "upgraded"
  BY <1>3 DEF Fit, Feeds, Wanted, Slotted, Clean
<1> HIDE DEF up
<1>8. /\ sync \in Messages /\ Carries(sync, printer.bound)
      /\ sync.kind = "sync" /\ sync.status = printer.status
  BY <1>1 DEF Messages, Carries
<1>9. no \in Messages /\ Carries(no, printer.bound) /\ no.kind \notin {"patch", "sync"}
  BY DEF Messages, Carries
<1> HIDE DEF sync, no
<1>10. Fit(f, printer.bound) /\ Fit(g, printer.bound)
  BY <1>3, <1>7, <1>8, <1>9, SendsFit
<1> HIDE DEF f, g
<1>11. printer.klippy = "up" => InOrder(printer, f)
  BY <1>1, <1>2, <1>5, <1>8, SyncSent
<1>12. InOrder(printer, g)
  BY <1>1, <1>2, <1>6, <1>9, RemarkSent
<1> QED BY <1>4, <1>5, <1>6, <1>10, <1>11, <1>12, SilentOrder

LEMMA DenyOrder == ASSUME OrderInv, Deny PROVE Kept
<1> DEFINE heard == [feed EXCEPT !.asks = @ - 1, !.denied = TRUE]
           no    == [kind |-> "denied"]
           g     == Sends(heard, no)
<1>1. /\ Fit(feed, printer.bound) /\ feed.asks \in Nat /\ feed.asks > 0
      /\ Running(printer) /\ InOrder(printer, feed)
  BY DEF OrderInv, FeedInv, Deny, Fit, Feeds
<1>2. feed.link = "upgraded" /\ feed.asks - 1 \in Nat
  BY <1>1, LiveLink
<1>3. Fit(heard, printer.bound) /\ heard.link = "upgraded"
  BY <1>1, <1>2 DEF Fit, Feeds, Wanted, Slotted, Clean
<1>4. Becomes(g) /\ UNCHANGED printer
  BY DEF Deny
<1>5. /\ g.down = Append(feed.down, no) /\ g.subscribed = feed.subscribed
      /\ g.link = feed.link /\ g.core = feed.core /\ g.stamps = feed.stamps
      /\ g.http = feed.http /\ g.snap = feed.snap /\ g.enabled = feed.enabled
  BY <1>1 DEF Sends, Fit, Feeds
<1> HIDE DEF heard
<1>6. no \in Messages /\ Carries(no, printer.bound) /\ no.kind \notin {"patch", "sync"}
  BY DEF Messages, Carries
<1> HIDE DEF no
<1>7. Fit(g, printer.bound)
  BY <1>3, <1>6, SendsFit
<1> HIDE DEF g
<1>8. InOrder(printer, g)
  BY <1>1, <1>2, <1>5, <1>6, RemarkSent
<1> QED BY <1>4, <1>5, <1>7, <1>8, SilentOrder

\* A step that moves the printer, too.
LEMMA MovedOrder ==
    ASSUME OrderInv, Running(printer'), NEW bound,
           NEW f, Fit(f, bound), InOrder(printer', f), f.snap \in {feed.snap, Nothing},
           Becomes(f) \/ feed' = f
    PROVE  Kept
<1> DEFINE g == [f EXCEPT !.stamps = Ranked(f.stamps)]
<1>1. InOrder(printer', g) /\ g.snap = f.snap
  BY RankedInOrder DEF Fit, Feeds
<1>2. feed' = g \/ feed' = f
  BY DEF Becomes
<1> HIDE DEF g
<1>3. Running(printer)' /\ InOrder(printer, feed)'
  <2>1. InOrder(printer', feed')
    BY <1>1, <1>2
  <2> QED BY <2>1, NextOrder
<1>4. \A x \in Fields : feed.snap[x] \in Nat /\ Nothing[x] = 0
  BY FeedParts, BoundsAssumption
     DEF OrderInv, FeedInv, Fit, Statuses, Versions, Nothing
<1>5. NoneBackwards
  BY <1>1, <1>2, <1>4 DEF NoneBackwards
<1> QED BY <1>3, <1>5 DEF Kept

LEMMA ChangeOrder == ASSUME OrderInv, NEW x \in Fields, Change(x) PROVE Kept
<1> DEFINE n     == Newest + 1
           patch == [kind |-> "patch", status |-> [Nothing EXCEPT ![x] = n]]
           f     == IF feed.subscribed THEN Sends(feed, patch) ELSE feed
<1>1. /\ Fit(feed, printer.bound) /\ printer \in Printers
      /\ Running(printer) /\ InOrder(printer, feed)
      /\ \A y \in Fields : printer.status[y] >= printer.bound
      /\ printer.klippy = "up" /\ Newest < MaxVersion
  BY DEF OrderInv, FeedInv, TypeOK, PrinterFit, Change
<1>2. /\ Newest \in Versions /\ \A y \in Fields : Newest >= printer.status[y]
      /\ printer.bound \in Versions /\ \A y \in Fields : printer.status[y] \in Versions
      /\ MaxVersion \in Nat /\ printer.epoch \in Versions
      /\ \A y \in Fields : printer.epoch <= printer.status[y]
  BY <1>1, NewestIs, BoundsAssumption DEF Printers, Statuses, Running
<1>3. /\ n \in Versions /\ n > 0 /\ n >= printer.bound /\ n >= printer.epoch
      /\ \A y \in Fields : printer.status[y] <= n
  BY <1>1, <1>2 DEF Versions
<1>4. /\ printer' = [printer EXCEPT !.status = [printer.status EXCEPT ![x] = n]]
      /\ Becomes(f)
  BY DEF Change
<1>5. /\ f.down = IF feed.subscribed THEN Append(feed.down, patch) ELSE feed.down
      /\ f.subscribed = feed.subscribed /\ f.link = feed.link /\ f.core = feed.core
      /\ f.stamps = feed.stamps /\ f.http = feed.http /\ f.snap = feed.snap
      /\ f.enabled = feed.enabled
  BY <1>1 DEF Sends, Fit, Feeds
<1> HIDE DEF n
<1>6. /\ printer' \in Printers /\ printer'.klippy = "up" /\ printer'.runs = printer.runs
      /\ printer'.epoch = printer.epoch
      /\ printer'.status = [printer.status EXCEPT ![x] = n]
  BY <1>1, <1>3, <1>4 DEF Printers, Statuses
<1>7. Turned(printer'.status, printer.status, x, n)
  BY <1>1, <1>6 DEF Turned, Printers, Statuses
<1>8. Running(printer')
  <2>1. \A y \in Fields : printer.epoch <= printer'.status[y]
    BY <1>2, <1>3, <1>7 DEF Turned
  <2> QED BY <1>1, <1>6, <2>1 DEF Running
<1>9. /\ patch \in Messages /\ Carries(patch, printer.bound) /\ patch.kind = "patch"
      /\ Turned(patch.status, Nothing, x, n)
  <2>1. [Nothing EXCEPT ![x] = n] \in Statuses
    BY <1>3, NothingType DEF Statuses
  <2>2. Own([Nothing EXCEPT ![x] = n], printer.bound)
    BY <1>3 DEF Own, Nothing
  <2>3. Turned([Nothing EXCEPT ![x] = n], Nothing, x, n)
    BY DEF Turned, Nothing
  <2> QED BY <2>1, <2>2, <2>3 DEF Messages, Carries
<1> HIDE DEF patch
<1>10. Fit(f, printer.bound)
  <2>1. feed.subscribed => feed.link = "upgraded"
    BY <1>1, LiveLink
  <2> QED BY <1>1, <1>9, <2>1, SendsFit
<1> HIDE DEF f
<1>11. InOrder(printer', f)
  BY <1>1, <1>3, <1>5, <1>6, <1>7, <1>8, <1>9, ChangeSent
<1> QED BY <1>4, <1>5, <1>8, <1>10, <1>11, MovedOrder

LEMMA KlippyLostOrder == ASSUME OrderInv, KlippyLost PROVE Kept
<1> DEFINE quiet == [feed EXCEPT !.subscribed = FALSE]
           lost  == [kind |-> "lost"]
           f     == Sends(quiet, lost)
<1>1. /\ Fit(feed, printer.bound) /\ printer \in Printers
      /\ Running(printer) /\ InOrder(printer, feed)
  BY DEF OrderInv, FeedInv, TypeOK
<1>2. /\ printer' = [printer EXCEPT !.klippy = "down"]
      /\ IF feed.link = "upgraded" THEN Becomes(f) ELSE Becomes(feed)
  BY DEF KlippyLost
<1>3. /\ printer' \in Printers /\ printer'.status = printer.status /\ printer'.klippy = "down"
      /\ printer'.runs = printer.runs /\ printer'.epoch = printer.epoch
  BY <1>1, <1>2 DEF Printers
<1>4. Running(printer')
  BY <1>1, <1>3 DEF Running
<1>5. /\ f.down = Append(feed.down, lost) /\ f.subscribed = FALSE /\ f.link = feed.link
      /\ f.core = feed.core /\ f.stamps = feed.stamps /\ f.http = feed.http
      /\ f.snap = feed.snap /\ f.enabled = feed.enabled
  BY <1>1 DEF Sends, Fit, Feeds
<1>6. feed.link = "upgraded" => Fit(quiet, printer.bound) /\ quiet.link = "upgraded"
  BY <1>1 DEF Fit, Feeds, Wanted, Slotted, Clean
<1> HIDE DEF quiet
<1>7. lost \in Messages /\ Carries(lost, printer.bound) /\ lost.kind \notin {"patch", "sync"}
  BY DEF Messages, Carries
<1> HIDE DEF lost
<1>8. feed.link = "upgraded" => Fit(f, printer.bound)
  BY <1>6, <1>7, SendsFit
<1> HIDE DEF f
<1>9. CASE feed.link = "upgraded"
  <2>1. InOrder(printer', f)
    BY <1>1, <1>3, <1>5, <1>7, <1>9, RemarkSent
  <2> QED BY <1>2, <1>4, <1>5, <1>8, <1>9, <2>1, MovedOrder
<1>10. CASE feed.link # "upgraded"
  <2>1. InOrder(printer', feed)
    BY <1>1, <1>3, <1>10 DEF InOrder, Line, Shown
  <2> QED BY <1>1, <1>2, <1>4, <1>10, <2>1, MovedOrder
<1> QED BY <1>9, <1>10

LEMMA KlippyReadyOrder == ASSUME OrderInv, KlippyReady PROVE Kept
<1> DEFINE n     == Newest + 1
           ready == [kind |-> "ready"]
           every == [y \in Fields |-> n]
           f     == IF feed.link = "upgraded" THEN Sends(feed, ready) ELSE feed
<1>1. /\ Fit(feed, printer.bound) /\ printer \in Printers
      /\ Running(printer) /\ InOrder(printer, feed)
      /\ Newest < MaxVersion /\ printer.klippy = "down"
  BY DEF OrderInv, FeedInv, TypeOK, PrinterFit, KlippyReady
<1>2. /\ Newest \in Versions /\ \A y \in Fields : Newest >= printer.status[y]
      /\ \A y \in Fields : printer.status[y] \in Versions
      /\ MaxVersion \in Nat
  BY <1>1, NewestIs, BoundsAssumption DEF Printers, Statuses
<1>3. n \in Versions /\ n \in Nat /\ n # 0 /\ \A y \in Fields : printer.status[y] < n
  BY <1>1, <1>2 DEF Versions
<1>4. /\ printer' = [printer EXCEPT !.klippy = "up", !.epoch = n, !.status = every,
                                    !.runs = @ \cup {n}]
      /\ feed' = f
  BY DEF KlippyReady
<1>5. /\ f.down = IF feed.link = "upgraded" THEN Append(feed.down, ready) ELSE feed.down
      /\ f.subscribed = feed.subscribed /\ f.link = feed.link /\ f.core = feed.core
      /\ f.stamps = feed.stamps /\ f.http = feed.http /\ f.snap = feed.snap
      /\ f.enabled = feed.enabled
  BY <1>1 DEF Sends, Fit, Feeds
<1> HIDE DEF n
<1>6. every \in Statuses /\ \A y \in Fields : every[y] = n
  BY <1>3 DEF Statuses
<1> HIDE DEF every
<1>7. /\ printer' \in Printers /\ printer'.epoch = n /\ printer'.status = every
      /\ printer'.runs = printer.runs \cup {n}
  BY <1>1, <1>3, <1>4, <1>6 DEF Printers
<1>8. Running(printer') /\ printer.runs \subseteq printer'.runs
  BY <1>3, <1>6, <1>7 DEF Running
<1>9. ready \in Messages /\ Carries(ready, printer.bound) /\ ready.kind = "ready"
  BY DEF Messages, Carries
<1> HIDE DEF ready
<1>10. Fit(f, printer.bound)
  BY <1>1, <1>9, SendsFit
<1> HIDE DEF f
<1>11. \A y \in Fields : printer.status[y] < n /\ printer'.status[y] = n
  BY <1>3, <1>6, <1>7
<1>12. InOrder(printer', f)
  BY <1>1, <1>3, <1>5, <1>7, <1>8, <1>9, <1>11, ReadySent
<1> QED BY <1>4, <1>5, <1>8, <1>10, <1>12, MovedOrder

LEMMA ConfigureOrder ==
    ASSUME OrderInv, NEW mode \in Modes, NEW moved \in BOOLEAN, Configure(mode, moved)
    PROVE  Kept
<1> DEFINE S == {printer.status[x] : x \in Fields} \cup {printer.epoch}
           v == Max(S) + 1
           f == Configured(feed, mode, moved)
<1>1. Fit(feed, printer.bound) /\ printer \in Printers
      /\ Running(printer) /\ InOrder(printer, feed)
  BY DEF OrderInv, FeedInv, TypeOK
<1>2. /\ Becomes(f)
      /\ moved => /\ v <= MaxVersion
                  /\ printer' = [status |-> [x \in Fields |-> v], klippy |-> "up",
                                 epoch |-> v, bound |-> v, runs |-> {v}]
      /\ ~moved => UNCHANGED printer
  BY DEF Configure
<1>3. CASE ~moved
  <2>1. Fit(f, printer.bound)
    BY <1>1, <1>3, ConfiguredFit
  <2>2. InOrder(printer, f) /\ f.snap \in {feed.snap, Nothing}
    BY <1>1, <1>3, ConfiguredKeeps
  <2> HIDE DEF f
  <2> QED BY <1>2, <1>3, <2>1, <2>2, SilentOrder
<1>4. CASE moved
  <2>1. S \in SUBSET Versions /\ S # {}
    BY <1>1 DEF Printers, Statuses
  <2>2. S \in SUBSET Nat /\ MaxVersion \in Nat /\ \A s \in S : s <= MaxVersion
    BY <2>1, BoundsAssumption DEF Versions
  <2> HIDE DEF S
  <2>3. Max(S) \in Nat
    BY <2>1, <2>2, Greatest
  <2>4. v \in Versions /\ v # 0 /\ v \in Nat
    BY <1>2, <1>4, <2>2, <2>3 DEF Versions
  <2> HIDE DEF v
  <2>5. Running(printer')
    BY <1>2, <1>4, <2>4 DEF Printers, Statuses, Running
  <2>6. Fit(f, v)
    BY <1>1, <1>4, ConfiguredFit
  <2>7. InOrder(printer', f) /\ f.snap \in {feed.snap, Nothing}
    BY <1>1, <1>4, <2>5, ConfiguredKeeps
  <2> HIDE DEF f
  <2> QED BY <1>2, <2>5, <2>6, <2>7, MovedOrder
<1> QED BY <1>3, <1>4

LEMMA OrderStep ==
    ASSUME OrderInv, [Next]_vars
    PROVE  OrderInv' /\ [NoneBackwards]_vars
<1>1. ASSUME Next PROVE Kept
  <2>1. CASE Owner
    <3>1. ASSUME NEW mode \in Modes, NEW moved \in BOOLEAN, Configure(mode, moved)
          PROVE  Kept
      BY <3>1, ConfigureOrder
    <3> QED BY <2>1, <3>1, OwnersOrder DEF Owner
  <2>2. CASE Clocks
    BY <2>2, ClocksOrder
  <2>3. CASE Link
    BY <2>3, UpgradeOrder, LinkEndsOrder, DeliverOrder, HttpReplyOrder DEF Link
  <2>4. CASE Remote
    <3>1. ASSUME NEW x \in Fields, Change(x) PROVE Kept
      BY <3>1, ChangeOrder
    <3> QED BY <2>4, <3>1, ServeSubscribeOrder, DenyOrder, HttpServedOrder, KlippyLostOrder,
               KlippyReadyOrder DEF Remote
  <2> QED BY <1>1, <2>1, <2>2, <2>3, <2>4 DEF Next
<1>2. FeedInv'
  BY FeedStep DEF OrderInv
<1>3. CASE Next
  BY <1>1, <1>2, <1>3 DEF OrderInv, Kept
<1>4. CASE UNCHANGED vars
  <2>1. Running(printer') /\ InOrder(printer', feed')
    BY <1>4 DEF vars, OrderInv
  <2> QED BY <1>2, <1>4, <2>1, NextOrder DEF OrderInv
<1> QED BY <1>3, <1>4

LEMMA OrderInvariant == Spec => []OrderInv
<1>1. OrderInv /\ [Next]_vars => OrderInv'
  BY OrderStep
<1> QED BY InitOrder, <1>1, PTL DEF Spec

\* No fragment, HTTP answer or refresh, and no restart, rebind or failure of
\* the link, takes a shown value back to an older one, except as NeverBackwards
\* says: the order of admit_status and the stamps of the two feeds suffice,
\* whatever the interleaving of the websocket and HTTP.
THEOREM NothingGoesBackwards == Spec => NeverBackwards
<1>1. OrderInv /\ [Next]_vars => [NoneBackwards]_vars
  BY OrderStep
<1>2. NoneBackwards <=>
        \A x \in Fields : feed'.snap[x] < feed.snap[x] =>
            \/ feed'.snap[x] = 0
            \/ feed.down # <<>> /\ feed'.down = Tail(feed.down) /\ Head(feed.down).kind = "sync"
            \/ /\ feed'.snap[x] = feed.core[x]
               /\ \E e \in printer.runs : feed'.snap[x] < e /\ e <= feed.snap[x]
  BY DEF NoneBackwards
<1> QED BY OrderInvariant, <1>1, <1>2, PTL DEF Spec, NeverBackwards
====
