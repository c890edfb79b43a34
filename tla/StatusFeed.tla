----------------------------- MODULE StatusFeed -----------------------------
(***************************************************************************)
(* The status feed: MoonrakerClient with its websocket (MoonrakerSocket),  *)
(* its HTTP poll and the coalescer of the session, against one Moonraker.  *)
(*                                                                         *)
(* Everything on the plugin's side runs on the UI thread, so a step is one *)
(* handler with the handlers it calls synchronously.  The handlers are     *)
(* functions of the feed's state, and an action names the event that runs  *)
(* them.  A value of the printer is the version number it was given, so    *)
(* that newer and older, this printer and the last one, are comparisons.   *)
(***************************************************************************)
EXTENDS Naturals, Sequences, FiniteSets, FiniteSetsExt

CONSTANTS Fields,       \* status fields the subscription asks for
          MaxVersion,   \* bound: values the printers report
          MaxRestarts,  \* bound: restarts of Klippy
          MaxFaults,    \* bound: faults of the link and of HTTP
          MaxActs       \* bound: start, stop, configure, resubscribe

ASSUME FieldsAssumption == Fields # {} /\ IsFiniteSet(Fields)
ASSUME BoundsAssumption ==
    /\ MaxVersion \in Nat \ {0} /\ MaxRestarts \in Nat
    /\ MaxFaults \in Nat /\ MaxActs \in Nat

VARIABLES
    printer,   \* what the bound printer really reports
    feed,      \* the client, its socket and its HTTP request
    relics,    \* fields shown with a value from before the restart again
    budget     \* faults, acts and restarts still to come

vars == <<printer, feed, relics, budget>>

\* A status maps a field to the version of its value; 0 is a field not there.
Versions == 0 .. MaxVersion
Statuses == [Fields -> Versions]
Nothing  == [x \in Fields |-> 0]
Merged(old, patch) == [x \in Fields |-> IF patch[x] # 0 THEN patch[x] ELSE old[x]]

\* epoch is the first version of this run of Klippy, bound of this printer, and
\* runs are those of all its runs so far (ghost).
Printers == [status : Statuses, klippy : {"up", "down"},
             epoch : Versions, bound : Versions, runs : SUBSET Versions]

Modes    == {"websocket", "http"}
Links    == {"none", "connecting", "upgraded", "dead"}
Backoffs == {"clear", "waiting", "due"}   \* no delay, before and after its end
Slots    == {"free", "taken", "forced"}   \* in_flight and pending
Requests == [at : {"none", "asked", "answered", "failed"}, status : Statuses]
NoRequest == [at |-> "none", status |-> Nothing]

Messages == [kind : {"patch", "sync"}, status : Statuses]
                \cup [kind : {"refused", "denied", "ready", "lost"}]

\* Times are only compared, so a stamp is its rank among those still in use;
\* 0 is "not stamped".
Stamps == [http : Nat, sub : Nat, core : Nat, applied : Nat]
NoStamps == [http |-> 0, sub |-> 0, core |-> 0, applied |-> 0]
Now(f) == 1 + Max({f.stamps[k] : k \in DOMAIN f.stamps})
Ranked(stamps) ==
    [k \in DOMAIN stamps |->
        Cardinality({stamps[j] : j \in DOMAIN stamps} \cap 1 .. stamps[k])]

Feeds == [enabled    : BOOLEAN,
          configured : Modes,       \* session.feed_mode
          mode       : Modes,       \* _effective_feed_mode
          connected  : BOOLEAN,
          backoff    : Backoffs,
          proof      : BOOLEAN,     \* the proof timer is armed
          queued     : BOOLEAN,     \* a zero-timer refresh of this generation
          slot       : Slots,
          http       : Requests,
          link       : Links,
          asks       : Nat,         \* subscribe requests Moonraker has to answer
          subscribed : BOOLEAN,     \* Moonraker pushes changes on this link
          denied     : BOOLEAN,     \* it rejected the key of the last subscribe (ghost)
          down       : Seq(Messages), \* sent by Moonraker, not yet read
          core       : Statuses,    \* fragments accumulated for the next drain
          stamps     : Stamps,
          snap       : Statuses]    \* the session snapshot

Init ==
    /\ printer = [status |-> [x \in Fields |-> 1], klippy |-> "up",
                  epoch |-> 1, bound |-> 1, runs |-> {1}]
    /\ feed = [enabled |-> FALSE, configured |-> "websocket", mode |-> "websocket",
               connected |-> FALSE, backoff |-> "clear", proof |-> FALSE,
               queued |-> FALSE, slot |-> "free", http |-> NoRequest,
               link |-> "none", asks |-> 0, subscribed |-> FALSE, denied |-> FALSE, down |-> <<>>,
               core |-> Nothing, stamps |-> NoStamps, snap |-> Nothing]
    /\ relics = {}
    /\ budget = [faults |-> MaxFaults, acts |-> MaxActs, restarts |-> MaxRestarts]
-----------------------------------------------------------------------------
(* The socket. *)

\* A link that is gone takes what was on it with it.
Unlinked(f, link) ==
    [f EXCEPT !.link = link, !.asks = 0, !.subscribed = FALSE, !.denied = FALSE, !.down = <<>>]

SocketStopped(f) ==
    [Unlinked(f, "none") EXCEPT !.core = Nothing, !.stamps.core = 0]

SocketStarted(f) == [SocketStopped(f) EXCEPT !.link = "connecting", !.proof = TRUE]

\* One stamp serves every subscription of the socket.
Subscribed(f) ==
    IF f.link = "upgraded"
    THEN [f EXCEPT !.asks = @ + 1, !.stamps.sub = Now(f)]
    ELSE f

Accumulated(f, patch) ==
    [f EXCEPT !.core = Merged(@, patch), !.stamps.core = Now(f)]
-----------------------------------------------------------------------------
(* The client. *)

Succeeded(f) == [f EXCEPT !.backoff = "clear", !.connected = TRUE]
Failed(f)    == [f EXCEPT !.backoff = "waiting", !.connected = FALSE]

\* Mutant of Admitted: a complete status is applied whenever it comes.
AdmitsAnySync(f, origin, status, stamp) ==
    Succeeded([f EXCEPT !.snap = Merged(@, status), !.stamps.applied = Max({@, stamp})])
\* A complete status is dropped whole when a newer write is already applied.
Admitted(f, origin, status, stamp) ==
    IF origin = "sync" /\ stamp < f.stamps.applied
    THEN f
    ELSE Succeeded([f EXCEPT !.snap = Merged(@, status),
                             !.stamps.applied = Max({@, stamp})])

\* Mutant of Drained: only a stopped socket is started again.
LeavesDeadLinks(f) ==
    CASE f.link = "upgraded" /\ f.core # Nothing ->
            Admitted([f EXCEPT !.core = Nothing, !.stamps.core = 0],
                     "fragment", f.core, f.stamps.core)
      [] f.link = "none" -> SocketStarted(f)
      [] OTHER -> f

\* _drain_socket_feed: the tick of a websocket feed.
Drained(f) ==
    CASE f.link = "upgraded" /\ f.core # Nothing ->
            Admitted([f EXCEPT !.core = Nothing, !.stamps.core = 0],
                     "fragment", f.core, f.stamps.core)
      [] f.link \in {"none", "dead"} -> SocketStarted(f)
      [] OTHER -> f

\* The tick of an HTTP feed, through the coalescer.
Polled(f, force) ==
    CASE f.slot = "free" ->
            [f EXCEPT !.slot = "taken", !.stamps.http = Now(f),
                      !.http = [at |-> "asked", status |-> Nothing]]
      [] f.slot = "taken" /\ force -> [f EXCEPT !.slot = "forced"]
      [] OTHER -> f

Refreshed(f, force) ==
    IF ~f.enabled \/ f.backoff = "waiting" THEN f
    ELSE IF f.mode = "websocket" THEN Drained(f)
    ELSE Polled(f, force)

\* Mutant of Degraded: the refused socket stays open.
KeepsTheSocket(f) == Refreshed([f EXCEPT !.mode = "http", !.proof = FALSE], TRUE)

\* A silent or refused websocket gives way to HTTP, without a session reset.
Degraded(f) ==
    Refreshed([SocketStopped(f) EXCEPT !.mode = "http", !.proof = FALSE], TRUE)

\* stop() also retires the request of the coalescer's slot and the queued
\* refreshes of the generation.
Stopped(f) ==
    [SocketStopped(f) EXCEPT !.enabled = FALSE, !.proof = FALSE, !.queued = FALSE,
                             !.backoff = "clear", !.connected = FALSE,
                             !.slot = "free", !.http = NoRequest, !.stamps.http = 0]

\* Mutant of SessionReset: the snapshot outlives its session.
KeepsTheSnapshot(f, mode) == [SocketStopped(f) EXCEPT !.configured = mode]

\* The session's state goes back to its defaults, the feed mode among them.
SessionReset(f, mode) == [SocketStopped(f) EXCEPT !.configured = mode, !.snap = Nothing]

Started(f) ==
    LET fresh == [f EXCEPT !.enabled = TRUE, !.backoff = "clear",
                           !.mode = f.configured, !.stamps.applied = 0]
    IN  IF f.enabled THEN f
        ELSE IF f.configured = "websocket" THEN SocketStarted(fresh)
        ELSE Refreshed(fresh, TRUE)

Configured(f, mode, moved) ==
    LET bound == SessionReset(Stopped(f), mode)
        now   == IF moved \/ mode # f.configured THEN bound ELSE f
        next  == [now EXCEPT !.mode = mode]
    IN  IF f.enabled THEN Started(next) ELSE next
-----------------------------------------------------------------------------
(* The owner's acts, and the clocks. *)

\* Stamps are renamed to their ranks after every step, and a field of this
\* run that goes back to a value from before the restart is noted.
Becomes(f) ==
    /\ feed' = [f EXCEPT !.stamps = Ranked(@)]
    /\ relics' = {x \in Fields : /\ f.snap[x] \in 1 .. printer.epoch - 1
                                 /\ x \in relics \/ feed.snap[x] >= printer.epoch}

Act   == budget.acts > 0 /\ budget' = [budget EXCEPT !.acts = @ - 1]
Fault == budget.faults > 0 /\ budget' = [budget EXCEPT !.faults = @ - 1]

Start == ~feed.enabled /\ Becomes(Started(feed)) /\ Act /\ UNCHANGED printer

Stop(reset) ==
    /\ Becomes(IF reset THEN SessionReset(Stopped(feed), "http") ELSE Stopped(feed))
    /\ Act /\ UNCHANGED printer

\* Another endpoint is another printer: none of its values was seen before.
Configure(mode, moved) ==
    /\ Becomes(Configured(feed, mode, moved))
    /\ IF moved
       THEN LET v == Max({printer.status[x] : x \in Fields} \cup {printer.epoch}) + 1
            IN  /\ v <= MaxVersion
                /\ printer' = [status |-> [x \in Fields |-> v], klippy |-> "up",
                               epoch |-> v, bound |-> v, runs |-> {v}]
       ELSE UNCHANGED printer
    /\ Act

Resubscribe ==
    /\ feed.enabled /\ feed.mode = "websocket"
    /\ Becomes(Subscribed(feed)) /\ Act /\ UNCHANGED printer

Tick         == feed.enabled /\ Becomes(Refreshed(feed, FALSE)) /\ UNCHANGED <<printer, budget>>
ForceRefresh == Becomes(Refreshed(feed, TRUE)) /\ UNCHANGED <<printer, budget>>

QueuedRefresh ==
    /\ feed.queued
    /\ Becomes(Refreshed([feed EXCEPT !.queued = FALSE], TRUE))
    /\ UNCHANGED <<printer, budget>>

BackoffOver ==
    /\ feed.backoff = "waiting"
    /\ Becomes([feed EXCEPT !.backoff = "due"]) /\ UNCHANGED <<printer, budget>>

\* The startup proof: no data within its window, whatever the link does.
ProofTimer ==
    /\ feed.proof
    /\ LET over == [feed EXCEPT !.proof = FALSE]
       IN  Becomes(IF feed.mode = "websocket" /\ feed.stamps.applied = 0
                   THEN Degraded(over) ELSE over)
    /\ UNCHANGED <<printer, budget>>
-----------------------------------------------------------------------------
(* The link. *)

Upgrade ==
    /\ feed.link = "connecting"
    /\ Becomes(Subscribed([feed EXCEPT !.link = "upgraded"]))
    /\ UNCHANGED <<printer, budget>>

\* A socket error leaves the socket in place; a refused handshake stops it.
ConnectFails ==
    /\ feed.link = "connecting" /\ Fault
    /\ \E link \in {"none", "dead"} : Becomes(Failed(Unlinked(feed, link)))
    /\ UNCHANGED printer

LinkError ==
    /\ feed.link = "upgraded" /\ Fault
    /\ Becomes(Failed(Unlinked(feed, "dead"))) /\ UNCHANGED printer

\* A frame that cannot be read, or the keepalive deadline.
LinkFails ==
    /\ \/ feed.link = "upgraded" /\ Fault
       \/ feed.link = "dead" /\ UNCHANGED budget
    /\ Becomes(SocketStopped(Failed(feed))) /\ UNCHANGED printer

\* A close frame of the peer stops the socket and tells nobody.
PeerClose ==
    /\ feed.link = "upgraded" /\ Fault
    /\ Becomes(SocketStopped(feed)) /\ UNCHANGED printer

Deliver ==
    /\ feed.down # <<>>
    /\ LET message == Head(feed.down)
           read    == [feed EXCEPT !.down = Tail(@)]
       IN  Becomes(CASE message.kind = "patch"   -> Accumulated(read, message.status)
                     [] message.kind = "sync"    -> Admitted(read, "sync", message.status, read.stamps.sub)
                     [] message.kind = "refused" -> Degraded(read)
                     [] message.kind = "denied"  -> Failed(read)
                     [] message.kind = "ready"   -> Subscribed(read)
                     [] message.kind = "lost"    -> Failed(read))
    /\ UNCHANGED <<printer, budget>>

HttpReply ==
    /\ feed.http.at \in {"answered", "failed"}
    /\ LET judged == IF feed.http.at = "failed" THEN Failed(feed)
                     ELSE Admitted(feed, "sync", feed.http.status, feed.stamps.http)
       IN  Becomes([judged EXCEPT !.http = NoRequest, !.stamps.http = 0, !.slot = "free",
                                  !.queued = @ \/ (feed.slot = "forced" /\ judged.backoff = "clear")])
    /\ UNCHANGED <<printer, budget>>
-----------------------------------------------------------------------------
(* Moonraker and Klippy. *)

Sends(f, message) == [f EXCEPT !.down = Append(@, message)]

ServeSubscribe ==
    /\ feed.asks > 0
    /\ LET heard == [feed EXCEPT !.asks = @ - 1]
       IN  Becomes(IF printer.klippy = "up"
                   THEN Sends([heard EXCEPT !.subscribed = TRUE, !.denied = FALSE],
                              [kind |-> "sync", status |-> printer.status])
                   ELSE Sends(heard, [kind |-> "refused"]))
    /\ UNCHANGED <<printer, budget>>

\* "Unauthorized": the link stays as it is.
Deny ==
    /\ feed.asks > 0 /\ Fault
    /\ Becomes(Sends([feed EXCEPT !.asks = @ - 1, !.denied = TRUE], [kind |-> "denied"]))
    /\ UNCHANGED printer

ServeHttp ==
    /\ feed.http.at = "asked"
    /\ Becomes([feed EXCEPT !.http =
            IF printer.klippy = "up"
            THEN [at |-> "answered", status |-> printer.status]
            ELSE [at |-> "failed", status |-> Nothing]])
    /\ UNCHANGED <<printer, budget>>

HttpLost ==
    /\ feed.http.at \in {"asked", "answered"} /\ Fault
    /\ Becomes([feed EXCEPT !.http = [at |-> "failed", status |-> Nothing]])
    /\ UNCHANGED printer

\* Only the fields that change are pushed.
Newest == Max({printer.status[x] : x \in Fields})
Change(x) ==
    /\ printer.klippy = "up" /\ Newest < MaxVersion
    /\ printer' = [printer EXCEPT !.status[x] = Newest + 1]
    /\ Becomes(IF feed.subscribed
               THEN Sends(feed, [kind |-> "patch",
                                 status |-> [Nothing EXCEPT ![x] = Newest + 1]])
               ELSE feed)
    /\ UNCHANGED budget

\* Klippy's end wipes every subscription; its start gives every field anew.
KlippyLost ==
    /\ printer.klippy = "up" /\ budget.restarts > 0 /\ Newest < MaxVersion
    /\ printer' = [printer EXCEPT !.klippy = "down"]
    /\ budget' = [budget EXCEPT !.restarts = @ - 1]
    /\ Becomes(IF feed.link = "upgraded"
               THEN Sends([feed EXCEPT !.subscribed = FALSE], [kind |-> "lost"])
               ELSE feed)

KlippyReady ==
    /\ printer.klippy = "down"
    /\ printer' = [printer EXCEPT !.klippy = "up", !.epoch = Newest + 1,
                                  !.status = [x \in Fields |-> Newest + 1],
                                  !.runs = @ \cup {Newest + 1}]
    /\ feed' = IF feed.link = "upgraded" THEN Sends(feed, [kind |-> "ready"]) ELSE feed
    /\ relics' = {}
    /\ UNCHANGED budget
-----------------------------------------------------------------------------
Owner  == \/ Start \/ \E reset \in BOOLEAN : Stop(reset)
          \/ \E mode \in Modes, moved \in BOOLEAN : Configure(mode, moved)
          \/ Resubscribe \/ ForceRefresh
Clocks == Tick \/ QueuedRefresh \/ BackoffOver \/ ProofTimer
Link   == Upgrade \/ ConnectFails \/ LinkError \/ LinkFails \/ PeerClose \/ Deliver \/ HttpReply
Remote == \/ ServeSubscribe \/ Deny \/ ServeHttp \/ HttpLost
          \/ \E x \in Fields : Change(x)
          \/ KlippyLost \/ KlippyReady

Next == Owner \/ Clocks \/ Link \/ Remote
Spec == Init /\ [][Next]_vars

\* The timers fire, the peer answers what it is asked, but for a handshake, and Klippy
\* comes back.
Fairness ==
    /\ WF_vars(Tick) /\ WF_vars(QueuedRefresh) /\ WF_vars(BackoffOver) /\ WF_vars(ProofTimer)
    /\ WF_vars(Deliver) /\ WF_vars(HttpReply)
    /\ WF_vars(ServeSubscribe) /\ WF_vars(ServeHttp) /\ WF_vars(KlippyReady)
FairSpec == Spec /\ Fairness
-----------------------------------------------------------------------------
(* Properties. *)

\* Every variable keeps its type.
TypeOK ==
    /\ printer \in Printers
    /\ feed \in Feeds
    /\ relics \subseteq Fields
    /\ budget \in [faults : 0 .. MaxFaults, acts : 0 .. MaxActs, restarts : 0 .. MaxRestarts]

\* Rebinding to another printer leaves nothing of the last one behind: not in
\* the snapshot, not among the fragments, not on the link and not in an answer
\* still to come (configure, stop and MoonrakerSession.configure together).
OnlyThisPrinter ==
    LET Own(status) == \A x \in Fields : status[x] = 0 \/ status[x] >= printer.bound
    IN  /\ Own(feed.snap) /\ Own(feed.core) /\ Own(feed.http.status)
        /\ \A i \in 1 .. Len(feed.down) :
                feed.down[i].kind \in {"patch", "sync"} => Own(feed.down[i].status)

\* A feed that runs on HTTP keeps no websocket open beside it ("an otherwise-
\* unused socket must not stay alive", on_refused), whatever degraded it.
UnusedSocketIsClosed ==
    feed.mode = "http" => feed.link = "none" /\ feed.core = Nothing

\* The coalescer's slot is taken exactly while its request is out: a slot left
\* taken would end the poll for ever, one freed early would let two requests
\* overlap (begin, complete and cancel over stop, rebind, failure and degradation).
SlotHasItsRequest == (feed.slot # "free") <=> (feed.http.at # "none")

\* A value is never replaced by an older one of the printer's, except by the
\* reply to a subscribe, which the order of the link makes whole again, and by
\* fragments from before a restart of Klippy that the value came after.  So an
\* HTTP answer that overlaps the websocket is dropped whenever the websocket has
\* said more (the stamps of admit_status), and but for that restart fragments
\* never undo what a sync brought.
NeverBackwards ==
    [][\A x \in Fields : feed'.snap[x] < feed.snap[x] =>
        \/ feed'.snap[x] = 0
        \/ feed.down # <<>> /\ feed'.down = Tail(feed.down) /\ Head(feed.down).kind = "sync"
        \/ /\ feed'.snap[x] = feed.core[x]
           /\ \E e \in printer.runs : feed'.snap[x] < e /\ e <= feed.snap[x]]_vars

\* However often the link, HTTP, Klippy and the owner got in the way, a feed
\* left running ends showing what the printer reports, on the websocket or
\* degraded to HTTP, but for fields a relic covers.  It ends connected, too, or
\* with a live subscription whose next change will say so: a late failure of an
\* HTTP request is not retried while the websocket is up (_drain_socket_feed).
\* No handshake has to end and no key to be accepted for it: the startup proof
\* replaces a link that stays silent (_proof_failed), but only before the first
\* data.  After that a handshake that hangs and a rejected subscribe stay.
Unproven ==
    /\ feed.stamps.applied # 0
    /\ feed.link = "connecting" \/ (feed.denied /\ ~feed.subscribed)
FeedConverges ==
    <>[](feed.enabled /\ ~Unproven =>
            /\ feed.connected \/ feed.subscribed
            /\ \A x \in Fields \ relics : feed.snap[x] = printer.status[x])

\* "the ready broadcast is the re-subscribe trigger, and the previous print is
\* definitively over" (on_klippy_ready): once a value of the new run is shown,
\* no value from before the restart comes back.
PreviousRunIsOver == relics = {}
=============================================================================
