------------------------------ MODULE LogStreams ------------------------------
(***************************************************************************)
(* Live logs of one model profile: owners who watch (server/spark_logs.go), *)
(* the worker that carries records (spark/worker_logs.go), and the broker's *)
(* hub that reads the source once for all subscribers (spark/logs.go).      *)
(*                                                                         *)
(* A stream belongs to the owners who asked for the same request.  The     *)
(* worker polls for leases and keeps one subscription per leased stream;    *)
(* the hub runs a collector while it has subscribers, and numbers records   *)
(* from 1 in every collector.  A record is its number; texts, byte budgets  *)
(* and redaction are left out.  `wanted' counts what a request names      *)
(* (generation, epoch, session): a stream of an older one is invalid.       *)
(***************************************************************************)
EXTENDS Naturals, Sequences, FiniteSets

CONSTANTS
    Owners,         \* owner sessions; each has at most one viewer here
    Ids,            \* stream ids, 1..n
    Room,           \* records a subscriber's or a viewer's channel holds
    Watches,        \* bounds: how many streams, and records of one collector
    MaxReaders,     \* bound: collectors started
    MaxTurns        \* bound: authority lost, requests changed, leases and posts
                    \* lost, sources ended

VARIABLES
    streams,        \* sparkLogs.streams: state, request, owners, leased, lastSequence
    authority,      \* logOwnerValid, per owner
    wanted,         \* the request that logRequestValid accepts now
    viewers,        \* per owner: stream (0 none), queue, done, last record shown
    sessions,       \* worker: logSessions; what each has not posted yet
    renewed,        \* broker: logLeases that are in time
    hub,            \* LogHub: the profile's state, seq, subscribers, viewers
    readers,        \* collect goroutines: cancelled or not
    watch,          \* the bounds of this behaviour
    turns

limits == <<watch, turns>>
logVars == <<streams, authority, wanted, viewers, sessions, renewed, hub, readers, limits>>

NoStream == [st |-> "none", wanted |-> 0, owners |-> {}, leased |-> FALSE, last |-> 0]
NoViewer == [stream |-> 0, queue |-> <<>>, done |-> FALSE, shown |-> 0]
NoSession == [st |-> "none", pipe |-> <<>>]
NoProfile == [st |-> "none", reader |-> 0, seq |-> 0, subs |-> {}, count |-> 0]

Turn == turns < MaxTurns /\ turns' = turns + 1 /\ UNCHANGED watch

Streaming(i) == streams[i].st = "open"
ValidOwners(i) == {o \in streams[i].owners : authority[o]}
Permitted(i) == ValidOwners(i) # {} /\ streams[i].wanted = wanted

-----------------------------------------------------------------------------
(* The controller. *)

\* closeLogStream and the removal that follows it, for a set of streams.
ClosedStreams(gone) == [i \in Ids |-> IF i \in gone THEN [NoStream EXCEPT !.st = "gone"] ELSE streams[i]]
DismissedViewers(gone) == [o \in Owners |-> IF viewers[o].stream \in gone THEN [viewers[o] EXCEPT !.done = TRUE] ELSE viewers[o]]

\* handleSparkLogCreate: the stream of this request is joined or made.
OpenLog(o) ==
    /\ authority[o]
    /\ \E i \in Ids :
           \/ /\ Streaming(i) /\ streams[i].wanted = wanted
              /\ streams' = [streams EXCEPT ![i].owners = @ \cup {o}]
           \/ /\ ~\E k \in Ids : Streaming(k) /\ streams[k].wanted = wanted
              /\ i <= watch.streams /\ streams[i].st = "none" /\ \A k \in 1..(i - 1) : streams[k].st # "none"
              /\ streams' = [streams EXCEPT ![i] = [NoStream EXCEPT !.st = "open", !.wanted = wanted, !.owners = {o}]]
    /\ streams' # streams
    /\ UNCHANGED <<authority, wanted, viewers, sessions, renewed, hub, readers, limits>>

\* handleSparkLogEvents, until it waits: the tail is shown first.
View(o) ==
    /\ authority[o] /\ viewers[o].stream = 0
    /\ \E i \in Ids :
           /\ Streaming(i) /\ o \in streams[i].owners
           /\ viewers' = [viewers EXCEPT ![o] = [NoViewer EXCEPT !.stream = i, !.shown = streams[i].last]]
    /\ UNCHANGED <<streams, authority, wanted, sessions, renewed, hub, readers, limits>>

\* handleSparkLogEvents: the next group of records is written.
Show(o) ==
    /\ viewers[o].stream # 0 /\ viewers[o].queue # <<>> /\ authority[o]
    /\ viewers' = [viewers EXCEPT ![o].shown = Head(viewers[o].queue), ![o].queue = Tail(@)]
    /\ UNCHANGED <<streams, authority, wanted, sessions, renewed, hub, readers, limits>>

\* handleSparkLogEvents returns: the browser left, the viewer was dismissed,
\* or its authority or source is gone; the last owner closes the stream.
Depart(o) ==
    LET i == viewers[o].stream
        left == streams[i].owners \ {o}
    IN  /\ i # 0
        /\ viewers' = [viewers EXCEPT ![o] = NoViewer]
        /\ streams' = IF ~Streaming(i) THEN streams
                      ELSE IF left = {} THEN ClosedStreams({i})
                      ELSE [streams EXCEPT ![i].owners = left]
        /\ UNCHANGED <<authority, wanted, sessions, renewed, hub, readers, limits>>

\* handleSparkLogDelete.
CloseLog(o) ==
    \E i \in Ids :
        /\ Streaming(i) /\ o \in streams[i].owners
        /\ LET left == streams[i].owners \ {o}
               mine == IF viewers[o].stream = i THEN [viewers EXCEPT ![o].done = TRUE] ELSE viewers
           IN  /\ streams' = IF left = {} THEN ClosedStreams({i}) ELSE [streams EXCEPT ![i].owners = left]
               /\ viewers' = IF left = {} THEN DismissedViewers({i}) ELSE mine
        /\ UNCHANGED <<authority, wanted, sessions, renewed, hub, readers, limits>>

\* pruneLogStreamsLocked: five minutes are over; closeSparkLogs.
StreamExpires ==
    \E i \in Ids :
        /\ Streaming(i)
        /\ streams' = ClosedStreams({i})
        /\ viewers' = DismissedViewers({i})
        /\ UNCHANGED <<authority, wanted, sessions, renewed, hub, readers, limits>>

\* Mutant: a record the stream has had already is taken again.
UnseenAny(last, batch) == batch

\* handleAgentSparkLogBatch: what the stream has not had yet.
Unseen(last, batch) == SelectSeq(batch, LAMBDA seq : seq > last)

\* handleAgentSparkLogBatch: accepted records reach every viewer, and the
\* viewer whose channel is full is dismissed.
Accepted(i, batch) ==
    LET new == Unseen(streams[i].last, batch)
        full(o) == Len(viewers[o].queue) + Len(new) > Room
    IN  /\ streams' = IF new = <<>> THEN streams ELSE [streams EXCEPT ![i].last = new[Len(new)]]
        /\ viewers' = [o \in Owners |->
               IF viewers[o].stream # i \/ viewers[o].done THEN viewers[o]
               ELSE IF full(o) THEN [viewers[o] EXCEPT !.done = TRUE]
               ELSE [viewers[o] EXCEPT !.queue = @ \o new]]

-----------------------------------------------------------------------------
(* The broker's hub. *)

\* Mutant: the last subscriber leaves and the collector goes on.
LeftIdle(h, i) == [h EXCEPT !.subs = @ \ {i}, !.count = @ - 1]

\* closeFn and append: a subscriber is removed; the last one cancels.
Left(h, i) ==
    [h EXCEPT !.subs = @ \ {i}, !.count = @ - 1, !.st = IF h.subs = {i} THEN "closing" ELSE @]

Cancelled(h) == IF h.st = "closing" THEN [readers EXCEPT ![h.reader] = "cancelled"] ELSE readers

\* Mutant: a subscriber joins a profile that is being cleaned up.
JoinableEver == TRUE

\* Subscribe: not while the old collector is being cleaned up.
Joinable == hub.st # "closing"

\* Subscribe.
Subscribed(i) ==
    IF hub.st = "none"
    THEN LET n == Cardinality({r \in DOMAIN readers : readers[r] # "idle"}) + 1
         IN  /\ n <= MaxReaders
             /\ hub' = [st |-> "open", reader |-> n, seq |-> 0, subs |-> {i}, count |-> 1]
             /\ readers' = [readers EXCEPT ![n] = "running"]
    ELSE /\ hub' = [hub EXCEPT !.subs = @ \cup {i}, !.count = @ + 1]
         /\ UNCHANGED readers

\* collect, append: a record is numbered and sent to every subscriber; one
\* whose channel is full is dropped.
ReadRecord ==
    LET n == hub.seq + 1
        slow == {i \in hub.subs : Len(sessions[i].pipe) >= Room}
        after == [hub EXCEPT !.seq = n, !.subs = @ \ slow, !.count = @ - Cardinality(slow),
                             !.st = IF hub.subs = slow THEN "closing" ELSE @]
    IN  /\ hub.st = "open" /\ hub.reader # 0 /\ readers[hub.reader] = "running" /\ n <= watch.records
        /\ hub' = after
        /\ readers' = Cancelled(after)
        /\ sessions' = [i \in Ids |-> IF i \in hub.subs \ slow THEN [sessions[i] EXCEPT !.pipe = Append(@, n)] ELSE sessions[i]]
        /\ UNCHANGED <<streams, authority, wanted, viewers, renewed, limits>>

\* collect, CloseProfile: the source ended or could not be read or redacted.
SourceEnds ==
    /\ hub.st = "open" /\ Turn
    /\ hub' = [hub EXCEPT !.st = "closing", !.subs = {}, !.count = @ - Cardinality(hub.subs)]
    /\ readers' = [readers EXCEPT ![hub.reader] = "cancelled"]
    /\ UNCHANGED <<streams, authority, wanted, viewers, sessions, renewed>>

\* collect returns: its profile is removed from the hub.
CollectorReturns ==
    \E r \in DOMAIN readers :
        /\ readers[r] = "cancelled"
        /\ readers' = [readers EXCEPT ![r] = "over"]
        /\ hub' = IF hub.reader = r THEN NoProfile ELSE hub
        /\ UNCHANGED <<streams, authority, wanted, viewers, sessions, renewed, limits>>

-----------------------------------------------------------------------------
(* The worker. *)

\* handleAgentSparkLogLeases: the streams it leases to the worker.
Leases == {i \in Ids : Streaming(i) /\ Permitted(i)}

\* handleAgentSparkLogLeases and pollLogs: invalid streams are closed, leases
\* renewed here and at the broker, sessions begun, and those without a lease
\* cancelled.
Poll ==
    LET bad == {i \in Ids : Streaming(i) /\ ~Permitted(i)}
        good == Leases
    IN  /\ streams' = [i \in Ids |-> IF i \in good THEN [streams[i] EXCEPT !.owners = ValidOwners(i), !.leased = TRUE]
                                     ELSE ClosedStreams(bad)[i]]
        /\ viewers' = DismissedViewers(bad)
        /\ renewed' = renewed \cup good
        /\ sessions' = [i \in Ids |-> CASE i \in good /\ sessions[i].st = "none" -> [NoSession EXCEPT !.st = "starting"]
                                        [] i \notin good /\ sessions[i].st # "none" -> [sessions[i] EXCEPT !.st = "cancelled"]
                                        [] OTHER -> sessions[i]]
        /\ <<streams', viewers', renewed', sessions'>> # <<streams, viewers, renewed, sessions>>
        /\ UNCHANGED <<authority, wanted, hub, readers, limits>>

\* handleBrokerConnection: a subscription needs a lease in time.
Granted(i) == i \in renewed /\ Joinable

\* streamLogs, BrokerClient.Logs: the subscription, or a refusal.
Connect(i) ==
    /\ sessions[i].st = "starting"
    /\ \/ /\ Granted(i)
          /\ Subscribed(i)
          /\ sessions' = [sessions EXCEPT ![i].st = "on"]
       \/ /\ ~Granted(i)
          /\ sessions' = [sessions EXCEPT ![i] = NoSession]
          /\ UNCHANGED <<hub, readers>>
    /\ UNCHANGED <<streams, authority, wanted, viewers, renewed, limits>>

\* streamLogs, flush: the batch arrives, or its answer or itself is lost.
PostBatch(i) ==
    /\ sessions[i].st = "on" /\ sessions[i].pipe # <<>>
    /\ LET takes == Streaming(i) /\ streams[i].leased /\ Permitted(i)
       IN  \/ /\ takes
              /\ Accepted(i, sessions[i].pipe)
              /\ sessions' = [sessions EXCEPT ![i].pipe = <<>>]
              /\ UNCHANGED limits
           \/ /\ takes /\ Turn
              /\ \/ Accepted(i, sessions[i].pipe)
                 \/ UNCHANGED <<streams, viewers>>
              /\ sessions' = [sessions EXCEPT ![i] = [st |-> "cancelled", pipe |-> <<>>]]
           \/ /\ ~takes
              /\ IF Streaming(i) /\ streams[i].leased
                 THEN streams' = ClosedStreams({i}) /\ viewers' = DismissedViewers({i})
                 ELSE UNCHANGED <<streams, viewers>>
              /\ sessions' = [sessions EXCEPT ![i] = [st |-> "cancelled", pipe |-> <<>>]]
              /\ UNCHANGED limits
    /\ UNCHANGED <<authority, wanted, renewed, hub, readers>>

\* handleBrokerConnection, streamLogs: cancelled, dropped by the hub, or the
\* lease was not renewed; the subscription is closed.
EndSession(i) ==
    /\ sessions[i].st = "cancelled" \/ (sessions[i].st = "on" /\ (i \notin hub.subs \/ i \notin renewed))
    /\ sessions' = [sessions EXCEPT ![i] = NoSession]
    /\ LET after == IF i \in hub.subs THEN Left(hub, i) ELSE hub
       IN  hub' = after /\ readers' = Cancelled(after)
    /\ UNCHANGED <<streams, authority, wanted, viewers, renewed, limits>>

\* A lease the last poll did not renew runs out, on either side.
LeaseEnds ==
    /\ Turn
    /\ \E i \in Ids :
           \/ i \in renewed /\ renewed' = renewed \ {i} /\ UNCHANGED streams
           \/ Streaming(i) /\ streams[i].leased /\ streams' = [streams EXCEPT ![i].leased = FALSE] /\ UNCHANGED renewed
    /\ UNCHANGED <<authority, wanted, viewers, sessions, hub, readers>>

\* An owner's session or recent authentication ends; the request changes.
Withdraw ==
    /\ Turn
    /\ \/ \E o \in Owners : authority[o] /\ authority' = [authority EXCEPT ![o] = FALSE] /\ UNCHANGED wanted
       \/ wanted' = wanted + 1 /\ UNCHANGED authority
    /\ UNCHANGED <<streams, viewers, sessions, renewed, hub, readers>>

-----------------------------------------------------------------------------
LogInit ==
    /\ streams = [i \in Ids |-> NoStream]
    /\ authority = [o \in Owners |-> TRUE]
    /\ wanted = 1
    /\ viewers = [o \in Owners |-> NoViewer]
    /\ sessions = [i \in Ids |-> NoSession]
    /\ renewed = {}
    /\ hub = NoProfile
    /\ readers = [r \in 1..MaxReaders |-> "idle"]
    /\ watch \in Watches
    /\ turns = 0

LogNext ==
    \/ \E o \in Owners : OpenLog(o) \/ View(o) \/ Show(o) \/ Depart(o) \/ CloseLog(o)
    \/ StreamExpires \/ Poll \/ LeaseEnds \/ Withdraw
    \/ \E i \in Ids : Connect(i) \/ PostBatch(i) \/ EndSession(i)
    \/ ReadRecord \/ SourceEnds \/ CollectorReturns

\* The worker polls every second and its goroutines and the collector return.
LogFairness ==
    /\ WF_logVars(Poll) /\ WF_logVars(CollectorReturns)
    /\ \A i \in Ids : WF_logVars(Connect(i)) /\ WF_logVars(EndSession(i))

-----------------------------------------------------------------------------
\* Every subscriber of the hub has a collector that reads for it, and the hub
\* counts its subscribers right, whoever left first: the browser, the slow
\* channel, the source or the lease (Subscribe, append, CloseProfile).
SubscriberHasReader ==
    /\ hub.subs # {} => readers[hub.reader] = "running"
    /\ hub.count = Cardinality(hub.subs)

\* A viewer is shown no record twice and none out of order, though posts are
\* repeated and a reopened source numbers from 1 again
\* (handleAgentSparkLogBatch).
ShownOnce ==
    [][\A o \in Owners : viewers'[o].stream = viewers[o].stream /\ viewers'[o].shown # viewers[o].shown
           => viewers'[o].shown > viewers[o].shown]_logVars

\* A reader of the source does not outlive the streams: when none is open any
\* more, no collector runs in the end unless a stream is opened again
\* (pollLogs, handleBrokerConnection, closeFn).
ReaderReleased ==
    (\A i \in Ids : ~Streaming(i)) ~> ((\E i \in Ids : Streaming(i)) \/ "running" \notin {readers[r] : r \in DOMAIN readers})

\* Readers match streams: each subscriber has a reader, and none is left when
\* the last stream is closed (Subscribe, pollLogs, CloseProfile).
ReadersMatch == []SubscriberHasReader /\ ReaderReleased
=============================================================================
