---------------------------- MODULE SessionStream ----------------------------
(***************************************************************************)
(* How a client follows a Session: the Data Worker's conversation watch,   *)
(* the Core's control snapshot with its revision, the subscribers of       *)
(* subscribeSession with their buffers and resynchronisation, the          *)
(* one-frame credit of the API stream and the client's reducer.            *)
(*                                                                         *)
(* The conversation is its cut, the number of deltas in it; the control    *)
(* state is its revision, which names one published content.  A published  *)
(* frame carries revision rev, from rev - 1, and with cut # 0 the delta    *)
(* that makes that cut.  Buffers count frames instead of bytes.            *)
(***************************************************************************)
EXTENDS Integers, Sequences, FiniteSetsExt

CONSTANTS Streams,
          DataLimit,   \* CONVERSATION_WATCH_PENDING_BYTES
          WatchLimit,  \* the bytes a watch holds while it is initialised
          FrameLimit,  \* the bytes a subscriber buffers
          MaxCut, MaxRev, MaxFailures  \* bounds

ASSUME StreamAssumption ==
  /\ {DataLimit, WatchLimit, FrameLimit} \subseteq Nat \ {0}
  /\ {MaxCut, MaxRev, MaxFailures} \subseteq Nat
  /\ Streams \cap {"none", "watch", "unwatch"} = {}

VARIABLES
  cut,      \* Data: the conversation of the Session
  entry,    \* Data: ConversationWatchEntry; pump is where its delivery loop is
  requests, \* Core to Data: "watch", "unwatch" and the streams that want a snapshot
  replies,  \* Data: answers formed and not yet posted (withSessionRead still awaits)
  port,     \* Data to Core: updates and replies, in order
  remote,   \* DataWorkerClient: what it knows of the watch in Data
  rev,      \* Core: the revision in sessionSnapshots
  shown,    \* history: shown[r] is the last cut whose delta was published by revision r
  watch,    \* Core: SessionConversationWatch
  stream,   \* Core: the state of every subscribeSession call
  wire,     \* the frame on its way to the client, at most one
  client,   \* SessionClientState: revision and cut, or none
  gap,      \* the client met a frame that does not follow its state
  behind,   \* history: a stream began behind its watch, see ReceiveSnapshot
  failures

dataVars == <<cut, entry, requests, replies, failures>>
hostVars == <<rev, shown, watch, stream>>
clientVars == <<wire, client, gap, behind>>
streamVars == <<dataVars, port, remote, hostVars, clientVars>>

NoEntry == [on |-> FALSE, pending |-> << >>, resync |-> FALSE, pump |-> "idle", last |-> 0]
NoWatch == [on |-> FALSE, initializing |-> FALSE, cut |-> 0, base |-> 0,
            pending |-> << >>, over |-> FALSE, first |-> "none"]
NoStream == [at |-> "off", q |-> << >>, resync |-> FALSE, busy |-> FALSE, cut |-> 0,
             resnap |-> FALSE]
NoState == [rev |-> -1, cut |-> -1]

StreamInit ==
  /\ cut = 0 /\ entry = NoEntry /\ requests = {} /\ replies = {} /\ failures = 0
  /\ port = << >> /\ remote = "none"
  /\ rev = 0 /\ shown = << >> /\ watch = NoWatch
  /\ stream = [s \in Streams |-> NoStream]
  /\ wire = [s \in Streams |-> << >>]
  /\ client = [s \in Streams |-> NoState]
  /\ gap = {} /\ behind = FALSE

StreamTypeOK ==
  /\ cut \in 0 .. MaxCut /\ rev \in Nat /\ Len(shown) = rev
  /\ entry.pump \in {"idle", "run", "forming", "sent"}
  /\ entry.pump \in {"run", "forming", "sent"} => entry.on
  /\ requests \subseteq {"watch", "unwatch"} \cup Streams
  /\ remote \in {"none", "asked", "ready", "stopping"}
  /\ \A s \in Streams :
       /\ stream[s].at \in {"off", "waiting", "reading", "live", "closed"}
       /\ Len(stream[s].q) <= FrameLimit + Len(watch.pending) + 1
       /\ Len(wire[s]) <= 1
       /\ stream[s].resnap => stream[s].busy /\ wire[s] = << >>
  /\ gap \subseteq Streams

-----------------------------------------------------------------------------
(* The Data Worker.                                                        *)

\* enqueueConversationDelta: a full buffer is replaced by the wish to resync.
Enqueue(e, c) ==
  LET starts == e.pump = "idle" /\ e.pending = << >>
      next == IF e.resync THEN e
              ELSE IF ~starts /\ Len(e.pending) + 1 > DataLimit
                   THEN [e EXCEPT !.pending = << >>, !.resync = TRUE]
                   ELSE [e EXCEPT !.pending = Append(@, c)]
  IN  [next EXCEPT !.pump = IF @ = "idle" THEN "run" ELSE @]

\* The conversation of the Session grows by one delta.
Produce ==
  /\ cut < MaxCut
  /\ cut' = cut + 1
  /\ entry' = IF entry.on THEN Enqueue(entry, cut + 1) ELSE entry
  /\ UNCHANGED <<requests, replies, failures, port, remote, hostVars, clientVars>>

\* pumpConversationWatch: one update at a time, a resync first.
PumpTakes ==
  /\ entry.pump = "run"
  /\ \/ /\ entry.resync
        /\ entry' = [entry EXCEPT !.resync = FALSE, !.pending = << >>, !.pump = "forming"]
        /\ UNCHANGED port
     \/ /\ ~entry.resync
        /\ entry' = [entry EXCEPT !.pending = Tail(@), !.pump = "sent"]
        /\ port' = Append(port, [kind |-> "update", cut |-> Head(entry.pending), snap |-> FALSE])
  /\ UNCHANGED <<cut, requests, replies, failures, remote, hostVars, clientVars>>

\* publicSnapshotUpdate: the snapshot is taken after the awaits.
PumpPosts ==
  /\ entry.pump = "forming"
  /\ entry' = [entry EXCEPT !.pump = "sent"]
  /\ port' = Append(port, [kind |-> "update", cut |-> cut, snap |-> TRUE])
  /\ UNCHANGED <<cut, requests, replies, failures, remote, hostVars, clientVars>>

\* An update that cannot be formed or posted ends the loop: only the wish to
\* resync is kept, until the next delta.
DeliveryFails ==
  /\ failures < MaxFailures
  /\ entry.pump \in {"run", "forming"}
  /\ failures' = failures + 1
  /\ entry' = [entry EXCEPT !.pending = << >>, !.resync = TRUE, !.pump = "idle"]
  /\ UNCHANGED <<cut, requests, replies, port, remote, hostVars, clientVars>>

\* A queue whose elements up to the last of those at positions passed are taken off.
Shifted(queue, passed) == SubSeq(queue, Max(passed \cup {0}) + 1, Len(queue))

\* The acknowledgement of an update lets the loop go on.
Acknowledged(e, c) ==
  LET last == IF c > e.last THEN c ELSE e.last
      left == Shifted(e.pending, {i \in DOMAIN e.pending : e.pending[i] <= last})
  IN  IF ~e.on \/ e.pump # "sent" THEN e
      ELSE [e EXCEPT !.last = last, !.pending = left,
                     !.pump = IF left = << >> /\ ~e.resync THEN "idle" ELSE "run"]

\* watchConversation: the deltas after the snapshot are delivered from now on.
HandleWatch ==
  /\ "watch" \in requests
  /\ entry' = [NoEntry EXCEPT !.on = TRUE, !.last = cut]
  /\ replies' = replies \cup {[kind |-> "watched", cut |-> cut]}
  /\ requests' = requests \ {"watch"}
  /\ UNCHANGED <<cut, failures, port, remote, hostVars, clientVars>>

HandleUnwatch ==
  /\ "unwatch" \in requests
  /\ entry' = NoEntry
  /\ port' = Append(port, [kind |-> "unwatched"])
  /\ requests' = requests \ {"unwatch"}
  /\ UNCHANGED <<cut, replies, failures, remote, hostVars, clientVars>>

\* conversationSnapshot: deliveries under way are drained first.
HandleSnapshot(s) ==
  /\ s \in requests
  /\ entry.pump = "idle"
  /\ replies' = replies \cup {[kind |-> "snapshot", cut |-> cut, stream |-> s]}
  /\ requests' = requests \ {s}
  /\ UNCHANGED <<cut, entry, failures, port, remote, hostVars, clientVars>>

\* The read is over and its answer posted; updates may have been posted before it.
Reply(r) ==
  /\ r \in replies
  /\ replies' = replies \ {r}
  /\ port' = Append(port, r)
  /\ UNCHANGED <<cut, entry, requests, failures, remote, hostVars, clientVars>>

-----------------------------------------------------------------------------
(* The Core.  c = [rev, shown, watch, stream] is what its functions change. *)

Core == [rev |-> rev, shown |-> shown, watch |-> watch, stream |-> stream]

Subscribed(c, s) == c.stream[s].at \in {"waiting", "reading", "live"}

\* buffer: a subscriber that is too slow drops everything and resynchronises.
Receive(st, f) ==
  IF st.resync THEN st
  ELSE IF Len(st.q) >= FrameLimit THEN [st EXCEPT !.q = << >>, !.resync = TRUE]
       ELSE [st EXCEPT !.q = Append(@, f)]

\* publishSnapshot: a new revision, with the delta that makes cut d if d # 0.
Publish(c, d) ==
  LET f == [rev |-> c.rev + 1, cut |-> d]
      last == IF c.rev = 0 THEN 0 ELSE c.shown[c.rev]
  IN  [c EXCEPT !.rev = @ + 1,
                !.shown = Append(@, IF d = 0 THEN last ELSE d),
                !.stream = [s \in Streams |-> IF Subscribed(c, s) THEN Receive(@[s], f)
                                              ELSE @[s]]]

\* resync of every subscriber.
Resync(c) ==
  [c EXCEPT !.stream = [s \in Streams |->
     IF Subscribed(c, s) THEN [@[s] EXCEPT !.q = << >>, !.resync = TRUE] ELSE @[s]]]

\* applyConversationUpdate: an update the watch has passed is ignored.
Apply(c, u) ==
  IF ~c.watch.on \/ u.cut <= c.watch.cut THEN c
  ELSE LET n == [c EXCEPT !.watch.cut = u.cut]
       IN  IF u.snap THEN Resync(Publish(n, 0)) ELSE Publish(n, u.cut)

MutantControl(c, q, d) == c.rev

\* The control state that goes with a conversation snapshot of cut d: the one
\* before the first buffered delta that the snapshot does not have.
Control(c, q, d) ==
  LET after == {i \in DOMAIN q : q[i].cut > d}
  IN  IF after = {} THEN c.rev ELSE q[Min(after)].rev - 1

\* The frames of a subscriber's queue behind revision r.
Later(q, r) == Shifted(q, {i \in DOMAIN q : q[i].rev <= r})

\* The last delta that a watch which overflowed may have dropped (a snapshot update
\* resynchronises everyone when it is applied).
Lost(w) == IF w.over /\ ~Head(w.pending).snap THEN Head(w.pending).cut - 1 ELSE 0

\* The updates that were kept are applied in turn.
Flushed(c, updates) ==
  LET f[i \in 0 .. Len(updates)] == IF i = 0 THEN c ELSE Apply(f[i - 1], updates[i])
  IN  f[Len(updates)]

\* A stream that begins with a snapshot of cut d and revision r.
Joined(st, d, r) ==
  [st EXCEPT !.at = "live", !.busy = TRUE, !.cut = d, !.q = Later(@, r)]
\* A watch whose initialisation ends with the snapshot of cut d.
Initialized(w, d) ==
  [w EXCEPT !.cut = d, !.base = Max({d, Lost(w)}), !.initializing = FALSE, !.pending = << >>]

\* The rest of subscribeSession once its snapshot of cut d is there; the first to
\* get here ends the initialisation of the watch.
Begin(c, s, d) ==
  LET r == Control(c, c.stream[s].q, d)
      n == [c EXCEPT !.stream[s] = Joined(@, d, r)]
      w == [n EXCEPT !.watch = Initialized(@, d)]
      flushed == Flushed(w, c.watch.pending)
  IN  IF ~c.watch.initializing THEN n
      ELSE IF c.watch.over THEN [flushed EXCEPT !.stream[s].resync = TRUE] ELSE flushed

Becomes(c) == rev' = c.rev /\ shown' = c.shown /\ watch' = c.watch /\ stream' = c.stream

SnapshotFrame(c, s, d) ==
  [snap |-> TRUE, rev |-> Control(c, c.stream[s].q, d), cut |-> d]

\* Something of the control state changes: runtime, pending input, selection ...
ControlChanges ==
  /\ rev < MaxRev
  /\ Becomes(Publish(Core, 0))
  /\ UNCHANGED <<dataVars, port, remote, clientVars>>

\* subscribeSession up to its first await; a second stream joins the watch.  The
\* DataWorkerClient waits for the end of a watch that is being stopped.
Subscribe(s) ==
  /\ stream[s].at = "off"
  /\ LET at == IF watch.on /\ remote = "ready" THEN "reading" ELSE "waiting"
         asks == remote = "none"
     IN  /\ stream' = [stream EXCEPT ![s].at = at]
         /\ requests' = requests \cup (IF at = "reading" THEN {s} ELSE {})
                                 \cup (IF asks THEN {"watch"} ELSE {})
         /\ remote' = IF asks THEN "asked" ELSE remote
  /\ watch' = IF watch.on THEN watch
              ELSE [NoWatch EXCEPT !.on = TRUE, !.initializing = TRUE, !.first = s]
  /\ UNCHANGED <<cut, entry, replies, failures, port, rev, shown, clientVars>>

\* release: the last subscriber stops the watch.
Released(s) ==
  /\ stream' = [stream EXCEPT ![s] = [NoStream EXCEPT !.at = "closed"]]
  /\ wire' = [wire EXCEPT ![s] = << >>]
  /\ LET last == \A t \in Streams \ {s} : ~Subscribed(Core, t)
     IN  /\ watch' = IF last THEN NoWatch ELSE watch
         /\ remote' = IF last THEN "stopping" ELSE remote
         /\ requests' = (requests \ {s}) \cup (IF last THEN {"unwatch"} ELSE {})
  /\ UNCHANGED <<cut, entry, replies, port, rev, shown, client, gap, behind>>

\* The client goes away.  (Before the stream is live its unsubscribe is only noted.)
Unsubscribe(s) ==
  /\ stream[s].at = "live"
  /\ Released(s)
  /\ UNCHANGED failures

\* The read of a snapshot fails: subscribeSession or the pump closes the stream.
ReadFails(s) ==
  /\ s \in requests /\ failures < MaxFailures
  /\ failures' = failures + 1
  /\ Released(s)

\* An update of Data: kept while the watch is being initialised, else applied.
ReceiveUpdate ==
  /\ port # << >> /\ Head(port).kind = "update"
  /\ port' = Tail(port)
  /\ entry' = Acknowledged(entry, Head(port).cut)
  /\ LET u == Head(port)
         over == watch.pending # << >> /\ Len(watch.pending) + 1 > WatchLimit
     IN  \/ /\ ~watch.on \/ remote = "stopping"
            /\ UNCHANGED hostVars
         \/ /\ watch.on /\ remote # "stopping" /\ watch.initializing
            /\ watch' = [watch EXCEPT !.pending = IF over THEN <<u>> ELSE Append(@, u),
                                      !.over = @ \/ over]
            /\ UNCHANGED <<rev, shown, stream>>
         \/ /\ watch.on /\ ~watch.initializing
            /\ Becomes(Apply(Core, u))
  /\ UNCHANGED <<cut, requests, replies, failures, remote, clientVars>>

\* The watch is ready: the stream that asked for it begins with its snapshot, the
\* ones that joined read their own.  (Nobody is released before the watch is ready.)
ReceiveWatched ==
  /\ port # << >> /\ Head(port).kind = "watched"
  /\ port' = Tail(port)
  /\ LET d == Head(port).cut
         f == watch.first
         begins == ~watch.over
         readers == {s \in Streams : stream[s].at = "waiting" /\ ~(begins /\ s = f)}
         c == [Core EXCEPT !.watch.cut = d,
                           !.stream = [s \in Streams |->
                              IF s \in readers THEN [@[s] EXCEPT !.at = "reading"] ELSE @[s]]]
     IN  /\ remote' = "ready"
         /\ requests' = requests \cup readers
         /\ Becomes(IF begins THEN Begin(c, f, d) ELSE c)
         /\ wire' = IF begins THEN [wire EXCEPT ![f] = <<SnapshotFrame(c, f, d)>>] ELSE wire
  /\ UNCHANGED <<cut, entry, replies, failures, client, gap, behind>>

\* The watch in Data is gone; a subscriber that waited for that asks for a new one.
ReceiveUnwatched ==
  /\ port # << >> /\ Head(port).kind = "unwatched"
  /\ port' = Tail(port)
  /\ remote' = IF watch.on THEN "asked" ELSE "none"
  /\ requests' = requests \cup (IF watch.on THEN {"watch"} ELSE {})
  /\ UNCHANGED <<cut, entry, replies, failures, hostVars, clientVars>>

\* The snapshot a stream asked for: its first one, or the one of resnapshot, which
\* asks again if another resync was wanted meanwhile.  A first one that was overtaken
\* by a newer one may lack updates that the newer one made the watch pass over.
ReceiveSnapshot ==
  /\ port # << >> /\ Head(port).kind = "snapshot"
  /\ port' = Tail(port)
  /\ LET d == Head(port).cut
         s == Head(port).stream
         r == Control(Core, stream[s].q, d)
     IN  \/ /\ ~Subscribed(Core, s)
            /\ UNCHANGED <<hostVars, requests, wire, behind>>
         \/ /\ stream[s].at = "reading"
            /\ Becomes(Begin(Core, s, d))
            /\ wire' = [wire EXCEPT ![s] = <<SnapshotFrame(Core, s, d)>>]
            /\ behind' = (behind \/ (~watch.initializing /\ d < watch.base))
            /\ UNCHANGED requests
         \/ /\ stream[s].at = "live" /\ stream[s].resync
            /\ stream' = [stream EXCEPT ![s].resync = FALSE, ![s].q = << >>]
            /\ requests' = requests \cup {s}
            /\ UNCHANGED <<rev, shown, watch, wire, behind>>
         \/ /\ stream[s].at = "live" /\ ~stream[s].resync
            /\ stream' = [stream EXCEPT ![s].resnap = FALSE, ![s].cut = d,
                                        ![s].q = Later(@, r)]
            /\ wire' = [wire EXCEPT ![s] = <<SnapshotFrame(Core, s, d)>>]
            /\ UNCHANGED <<rev, shown, watch, requests, behind>>
  /\ UNCHANGED <<cut, entry, replies, failures, remote, client, gap>>

\* deliver: a delta the snapshot already had is left out of its frame.
Deliver(st, f) ==
  [snap |-> FALSE, rev |-> f.rev, cut |-> IF f.cut <= st.cut THEN 0 ELSE f.cut]

MutantPump(s) ==
  /\ stream[s].at = "live" /\ ~stream[s].busy
  /\ ~stream[s].resync /\ stream[s].q # << >>
  /\ LET f == Head(stream[s].q)
     IN  /\ stream' = [stream EXCEPT ![s].busy = TRUE, ![s].q = Tail(@),
                                     ![s].cut = IF f.cut > @ THEN f.cut ELSE @]
         /\ wire' = [wire EXCEPT ![s] = <<Deliver(stream[s], f)>>]
  /\ UNCHANGED <<dataVars, port, remote, rev, shown, watch, client, gap, behind>>

\* pump: one frame, or the request for a new snapshot, at a time.
Pump(s) ==
  /\ stream[s].at = "live" /\ ~stream[s].busy
  /\ \/ /\ stream[s].resync
        /\ stream' = [stream EXCEPT ![s].busy = TRUE, ![s].resnap = TRUE, ![s].resync = FALSE,
                                    ![s].q = << >>]
        /\ requests' = requests \cup {s}
        /\ UNCHANGED wire
     \/ /\ ~stream[s].resync /\ stream[s].q # << >>
        /\ LET f == Head(stream[s].q)
           IN  /\ stream' = [stream EXCEPT ![s].busy = TRUE, ![s].q = Tail(@),
                                           ![s].cut = IF f.cut > @ THEN f.cut ELSE @]
               /\ wire' = [wire EXCEPT ![s] = <<Deliver(stream[s], f)>>]
        /\ UNCHANGED requests
  /\ UNCHANGED <<cut, entry, replies, failures, port, remote, rev, shown, watch, client, gap, behind>>

-----------------------------------------------------------------------------
(* The client.                                                             *)

\* reduceSessionStreamFrame.
Reduce(state, f) ==
  IF f.snap THEN [rev |-> f.rev, cut |-> f.cut]
  ELSE [rev |-> f.rev, cut |-> IF f.cut = 0 THEN state.cut ELSE f.cut]

Follows(state, f) == f.rev - 1 = state.rev /\ f.cut \in {0, state.cut + 1}

\* The client takes a frame, which gives the credit for the next one back.
ClientReceives(s) ==
  /\ wire[s] # << >>
  /\ wire' = [wire EXCEPT ![s] = << >>]
  /\ stream' = [stream EXCEPT ![s].busy = FALSE]
  /\ LET f == Head(wire[s])
         old == ~f.snap /\ f.rev <= client[s].rev
         good == f.snap \/ Follows(client[s], f)
     IN  /\ client' = IF old \/ ~good THEN client
                      ELSE [client EXCEPT ![s] = Reduce(@, f)]
         /\ gap' = IF old \/ good THEN gap ELSE gap \cup {s}
  /\ UNCHANGED <<dataVars, port, remote, rev, shown, watch, behind>>

-----------------------------------------------------------------------------

CoreSteps == ReceiveUpdate \/ ReceiveWatched \/ ReceiveUnwatched \/ ReceiveSnapshot

StreamNext ==
  \/ Produce \/ PumpTakes \/ PumpPosts \/ DeliveryFails \/ HandleWatch \/ HandleUnwatch
  \/ \E r \in replies : Reply(r)
  \/ ControlChanges \/ CoreSteps
  \/ \E s \in Streams : \/ HandleSnapshot(s)
                        \/ Subscribe(s) \/ Unsubscribe(s) \/ ReadFails(s)
                        \/ Pump(s) \/ ClientReceives(s)

StreamSpec == StreamInit /\ [][StreamNext]_streamVars

\* The event loops of Data and Core go on, and a client that stays connected reads.
FairStreamSpec ==
  /\ StreamSpec
  /\ WF_streamVars(PumpTakes \/ PumpPosts) /\ WF_streamVars(HandleWatch) /\ WF_streamVars(HandleUnwatch)
  /\ WF_streamVars(\E r \in replies : Reply(r)) /\ WF_streamVars(CoreSteps)
  /\ \A s \in Streams :
       WF_streamVars(HandleSnapshot(s)) /\ WF_streamVars(Pump(s)) /\ WF_streamVars(ClientReceives(s))

-----------------------------------------------------------------------------
(* Properties.                                                             *)

\* Whichever of the three buffers overflowed, whenever it joined and whatever delivery
\* failed, a client is resynchronised before it is handed a frame that does not follow
\* what it has (the terminal client ends with an error when the conversation's cuts
\* have a gap).  The exception: of two streams that read while the watch is still
\* initialised the one with the newer snapshot may come first.
NoGap == behind \/ gap = {}

\* A new snapshot is wanted, asked for or on its way to the client.
Resynchronising(s) ==
  \/ stream[s].resync \/ stream[s].resnap
  \/ wire[s] # << >> /\ Head(wire[s]).snap

\* A client that shows a control state has every delta that was published before it,
\* unless its resynchronisation is under way: neither the choice of the control state
\* for a snapshot nor the removal of deltas the snapshot already had loses one.
NothingSkipped ==
  \A s \in Streams :
    stream[s].at = "live" /\ client[s].rev > 0 /\ ~Resynchronising(s)
      => client[s].cut >= shown[client[s].rev]

\* What a client shows follows what it was shown before and is what was published.
StreamInvariant == StreamTypeOK /\ NoGap /\ NothingSkipped

\* The delivery of Data gave up and waits for the next delta.
GaveUp == entry.resync /\ entry.pump = "idle"

\* Every stream that stays open begins, and when nothing changes any more its
\* client shows the current control state and the whole conversation (with the
\* exceptions of NoGap and of a failed delivery).
CatchesUp ==
  \A s \in Streams :
    <>[](/\ stream[s].at \notin {"waiting", "reading"}
         /\ stream[s].at = "live" /\ ~behind =>
              client[s].rev = rev /\ (client[s].cut = cut \/ GaveUp))

=============================================================================
