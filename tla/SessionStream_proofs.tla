------------------------- MODULE SessionStream_proofs -------------------------
(***************************************************************************)
(* Proofs about SessionStream, for any streams, limits and failures: what  *)
(* a client is shown has no gap.                                           *)
(*                                                                         *)
(* The inductive invariant follows a delta on its way: the entry of the    *)
(* watch at Data and its update on the port (Pipeline), the watch of the   *)
(* Core (WatchFollows), the queue of every subscriber (CoreFits), the      *)
(* snapshots under way (AnswersFit), and the client with the frame on its  *)
(* wire (ClientsFit).  The other parts say which requests, answers and     *)
(* messages there can be at all.                                           *)
(***************************************************************************)
EXTENDS SessionStream, TLAPS, WellFoundedInduction

-----------------------------------------------------------------------------
(* The inductive invariant.                                                *)


\* The messages of the port.
Updates == [kind : {"update"}, cut : Nat, snap : BOOLEAN]
Unwatched == [kind : {"unwatched"}]
Watched == [kind : {"watched"}, cut : Nat]
Snapshots == [kind : {"snapshot"}, cut : Nat, stream : Streams]
SnapshotOf(s) == [kind : {"snapshot"}, cut : Nat, stream : {s}]
Posts == Updates \cup Unwatched \cup Watched \cup Snapshots

Published == [rev : Nat, cut : Nat]
Frames == [snap : BOOLEAN, rev : Int, cut : Nat]
States == [rev : Int, cut : Int]
Watches == [on : BOOLEAN, initializing : BOOLEAN, cut : Nat, base : Int, pending : Seq(Updates),
            over : BOOLEAN, first : Streams \cup {"none"}]
Subscribers == [at : {"off", "waiting", "reading", "live", "closed"}, q : Seq(Published),
                resync : BOOLEAN, busy : BOOLEAN, cut : Nat, resnap : BOOLEAN]
Entries == [on : BOOLEAN, pending : Seq(Nat), resync : BOOLEAN,
            pump : {"idle", "run", "forming", "sent"}, last : Nat]
Cores == [rev : Nat, shown : Seq(Nat), watch : Watches, stream : [Streams -> Subscribers]]

StreamTyped ==
  /\ cut \in Nat /\ entry \in Entries
  /\ requests \subseteq {"watch", "unwatch"} \cup Streams
  /\ replies \subseteq Watched \cup Snapshots
  /\ port \in Seq(Posts)
  /\ remote \in {"none", "asked", "ready", "stopping"}
  /\ Core \in Cores
  /\ wire \in [Streams -> Seq(Frames)] /\ client \in [Streams -> States]
  /\ gap \subseteq Streams /\ behind \in BOOLEAN /\ failures \in Nat

Once(S, q) == \A i, j \in DOMAIN q : q[i] \in S /\ q[j] \in S => i = j
NoneOf(S, q) == \A i \in DOMAIN q : q[i] \notin S

\* An update is posted before the answer to unwatch.
UpdatesFirst(q) == \A i, j \in DOMAIN q : q[i] \in Unwatched /\ q[j] \in Updates => j < i

\* What the Core knows of the watch (remote) against the entry at Data (on) and the
\* requests and answers under way.
Watching(on, asked, stopped, answers) ==
  /\ remote = "none" => ~on
  /\ remote = "ready" => on
  /\ remote = "asked" => asked \/ on
  /\ remote = "stopping" => stopped \/ ~on
  /\ asked => remote = "asked" /\ ~on
  /\ stopped => remote = "stopping" /\ on
  /\ remote # "asked" \/ asked => answers \cap Watched = {} /\ NoneOf(Watched, port)
  /\ remote # "stopping" \/ stopped => NoneOf(Unwatched, port)

WatchProtocol ==
  /\ ~entry.on => entry = NoEntry
  /\ Watching(entry.on, "watch" \in requests, "unwatch" \in requests, replies)
  /\ Once(Updates, port) /\ Once(Watched, port) /\ Once(Unwatched, port) /\ UpdatesFirst(port)
  /\ \A a, b \in replies \cap Watched : a = b
  /\ replies \cap Watched # {} => NoneOf(Watched, port)
  /\ NoneOf(Updates, port) \/ entry.pump = "sent" \/ (remote = "stopping" /\ ~entry.on)

\* Where the subscribers of c and its watch are, by what the Core knows of Data.
Placed(c, known, asked) ==
  LET w == c.watch
  IN  /\ \A s \in Streams :
           /\ c.stream[s].at \in {"reading", "live"} => known = "ready"
           /\ c.stream[s].at = "waiting" => w.on /\ w.initializing /\ known \in {"asked", "stopping"}
           /\ c.stream[s].at = "live" => ~w.initializing
      /\ known \in {"asked", "ready"} => w.on
      /\ w.on => known # "none"
      /\ ~w.on => w = NoWatch
      /\ w.on /\ w.initializing /\ known = "ready" => w.over
      /\ w.on /\ ~w.initializing => known = "ready"
      /\ w.on /\ known # "ready" => w.first \in Streams /\ c.stream[w.first].at = "waiting"
      /\ known = "stopping" \/ asked => w.pending = << >> /\ ~w.over
      /\ w.over /\ w.initializing => w.pending # << >>

StreamPlaces == Placed(Core, remote, "watch" \in requests)

\* The one snapshot that subscriber s with state st is waiting for.
Token(s, asked, answers, posts, st) ==
  LET mine == SnapshotOf(s)
  IN  /\ asked => st.at \in {"reading", "live"}
      /\ asked \/ answers \cap mine # {} \/ ~NoneOf(mine, posts) =>
           st.at \in {"reading", "closed"} \/ (st.at = "live" /\ st.resnap)
      /\ asked => answers \cap mine = {} /\ NoneOf(mine, posts)
      /\ answers \cap mine # {} => NoneOf(mine, posts)
      /\ \A a, b \in answers \cap mine : a = b
      /\ Once(mine, posts)

Tokens == \A s \in Streams : Token(s, s \in requests, replies, port, stream[s])

\* The control state of a subscriber with state st and wire w.
Shape(st, w) ==
  /\ Len(w) <= 1
  /\ st.at # "live" => w = << >> /\ ~st.busy /\ ~st.resnap
  /\ st.resnap => st.busy /\ w = << >>
  /\ w # << >> => st.busy
  /\ Len(st.q) <= FrameLimit
  /\ st.at = "off" => st = NoStream

Shapes == \A s \in Streams : Shape(stream[s], wire[s])

\* An update on its way, from an entry e of a conversation of k deltas.
UpdateFits(e, k, u) ==
  /\ e.last <= u.cut /\ u.cut <= k
  /\ u.snap \/ u.cut = e.last + 1
  /\ e.resync \/ k - Len(e.pending) <= u.cut

\* The pending updates of an entry are the last of the k deltas.
EntryFits(e, k) ==
  /\ e.last <= k
  /\ e.resync => e.pending = << >>
  /\ \A i \in DOMAIN e.pending : e.pending[i] = k - Len(e.pending) + i
  /\ e.pump = "idle" => e.pending = << >> /\ (e.resync \/ e.last = k)
  /\ e.pump = "run" => e.resync \/ (Len(e.pending) = k - e.last /\ e.last < k)

Pipeline ==
  entry.on => /\ EntryFits(entry, cut)
              /\ \A i \in DOMAIN port : port[i] \in Updates => UpdateFits(entry, cut, port[i])

\* The last cut whose delta was published by revision r.
Before(c, r) == IF r = 0 THEN 0 ELSE c.shown[r]

\* The updates held back during initialisation: each follows the one before it.
InOrder(updates) ==
  \A i \in DOMAIN updates :
    i > 1 => /\ updates[i - 1].cut <= updates[i].cut
             /\ updates[i].snap \/ updates[i].cut = updates[i - 1].cut + 1

\* The watch of c, for a conversation of k deltas of which Data had last acknowledged.
WatchFits(c, k, last) ==
  LET w == c.watch
  IN  /\ Before(c, c.rev) <= k
      /\ w.on /\ ~w.initializing => Before(c, c.rev) <= w.cut /\ w.cut <= k /\ last <= w.cut
      /\ w.initializing =>
           /\ \A i \in DOMAIN w.pending : w.pending[i].cut <= k
           /\ InOrder(w.pending)
           /\ w.pending # << >> => w.pending[Len(w.pending)].cut = last
      /\ ~w.initializing => w.pending = << >>

WatchFollows == WatchFits(Core, cut, entry.last)

\* A queue holds the last frames that were published.
FramesFollow(c, q) ==
  /\ Len(q) <= c.rev
  /\ \A i \in DOMAIN q :
       /\ q[i].rev = c.rev - Len(q) + i
       /\ IF q[i].cut = 0 THEN c.shown[q[i].rev] = Before(c, q[i].rev - 1)
          ELSE c.shown[q[i].rev] = q[i].cut /\ Before(c, q[i].rev - 1) < q[i].cut

Faithful(c, s) == Subscribed(c, s) /\ ~c.stream[s].resync => FramesFollow(c, c.stream[s].q)

\* The deltas are published in order, and every queue is the end of what was.
CoreFits(c) ==
  /\ Len(c.shown) = c.rev
  /\ \A i, j \in 0 .. c.rev : i <= j => Before(c, i) <= Before(c, j)
  /\ \A s \in Streams : Faithful(c, s)

\* The revision before the first frame of a queue.
Start(c, s) == c.rev - Len(c.stream[s].q)

\* The queue has every delta behind d that the watch has passed.
Holds(c, s, d) ==
  \A x \in d + 1 .. c.watch.cut : \E i \in DOMAIN c.stream[s].q : c.stream[s].q[i].cut = x

\* A snapshot under way has whatever its subscriber's queue will not give it.
AnswerFits(c, a) ==
  LET s == a.stream
  IN  /\ Subscribed(c, s) /\ c.watch.initializing => Before(c, c.rev) <= a.cut
      /\ Subscribed(c, s) /\ ~c.stream[s].resync =>
           /\ Before(c, Start(c, s)) <= a.cut
           /\ c.watch.initializing \/ Holds(c, s, a.cut)
                \/ (c.stream[s].at = "reading" /\ a.cut < c.watch.base)

\* The watch begins at or behind what the Core has published.
WatchedFits(c, last, a) ==
  /\ Before(c, c.rev) <= a.cut
  /\ c.watch.pending = << >> => last = a.cut
  /\ c.watch.pending # << >> /\ ~c.watch.over =>
       c.watch.pending[1].snap \/ c.watch.pending[1].cut = a.cut + 1

Answers == replies \cup {port[i] : i \in DOMAIN port}

AnswersFit ==
  /\ \A a \in Answers \cap Watched : a.cut <= cut /\ WatchedFits(Core, entry.last, a)
  /\ \A a \in Answers \cap Snapshots : a.cut <= cut /\ AnswerFits(Core, a)

\* A client with st has every delta that was published up to its revision.
GoodState(c, st) == st.rev \in 0 .. c.rev /\ Before(c, st.rev) <= st.cut

\* What the client will have when it has taken the frame that is on its way.
Taken(st, f) == IF f.snap \/ Follows(st, f) THEN Reduce(st, f) ELSE st
After(w, st) == IF w = << >> THEN st ELSE Taken(st, Head(w))
Reached(c, s) == [rev |-> Start(c, s), cut |-> c.stream[s].cut]

\* The client, with st, follows what its queue goes on from.
Following(c, s, st, late) ==
  /\ GoodState(c, Reached(c, s))
  /\ st = Reached(c, s) \/ (late /\ GoodState(c, st) /\ st.rev < Start(c, s))
  /\ late \/ Holds(c, s, c.stream[s].cut)

\* The client of s, with wire w and state st; late: what behind records.
ClientFits(c, s, w, st, late) ==
  /\ w # << >> /\ ~Head(w).snap => late \/ Follows(st, Head(w))
  /\ c.stream[s].at = "live" /\ ~c.stream[s].resync /\ ~c.stream[s].resnap =>
       /\ Following(c, s, After(w, st), late)
       /\ (w # << >> /\ Head(w).snap) \/ GoodState(c, st)

ClientsFit == NoGap /\ \A s \in Streams : ClientFits(Core, s, wire[s], client[s], behind)

StreamInduct ==
  /\ StreamTyped /\ WatchProtocol /\ StreamPlaces /\ Tokens /\ Shapes /\ Pipeline
  /\ WatchFollows /\ CoreFits(Core) /\ AnswersFit /\ ClientsFit

-----------------------------------------------------------------------------
(* Positions of a queue.                                                   *)

\* Induction over the natural numbers, for a set.
LEMMA EveryNatural ==
  ASSUME NEW T, 0 \in T, \A n \in Nat : n \in T => n + 1 \in T
  PROVE  Nat \subseteq T
  <1> DEFINE R == OpToRel(<, Nat)
             Rest == Nat \ T
  <1>1. SUFFICES ASSUME Rest # {} PROVE FALSE
    OBVIOUS
  <1>2. \E x \in Rest : \A y \in Rest : ~ (<<y, x>> \in R)
    <2>1. IsWellFoundedOn(R, Nat) /\ Rest \subseteq Nat
      BY NatLessThanWellFounded, ZenonT(40)
    <2> HIDE DEF R, Rest
    <2>2. QED
      BY <1>1, <2>1, WFMin
  <1>3. PICK x \in Rest : \A y \in Rest : ~ (<<y, x>> \in R)
    BY <1>2, ZenonT(40)
  <1>4. \A y \in Rest : ~ (y < x)
    BY <1>3 DEF OpToRel
  <1>5. x \in Nat /\ x # 0 /\ x - 1 \in Nat /\ x - 1 < x /\ (x - 1) + 1 = x
    OBVIOUS
  <1>6. QED
    BY <1>4, <1>5

\* The least of some positions.
LEMMA LeastPosition ==
  ASSUME NEW S \in SUBSET Nat, S # {}
  PROVE  Min(S) \in S /\ \A y \in S : Min(S) <= y
  <1> DEFINE T == {n \in Nat : \A y \in S : y >= n}
  <1>1. \E x \in S : \A y \in S : x <= y
    <2>1. SUFFICES ASSUME \A x \in S : \E y \in S : y < x
                   PROVE  FALSE
      OBVIOUS
    <2>2. 0 \in T /\ \A n \in Nat : n \in T => n + 1 \in T
      <3>1. ASSUME NEW n \in Nat, n \in T, NEW y \in S
            PROVE  y >= n + 1
        <4>1. PICK z \in S : z < y
          BY <2>1
        <4>2. QED
          BY <3>1, <4>1
      <3>2. QED
        BY <3>1
    <2>3. Nat \subseteq T
      <3> HIDE DEF T
      <3>1. QED
        BY <2>2, EveryNatural
    <2>4. PICK x : x \in S
      OBVIOUS
    <2>5. x + 1 \in Nat /\ x + 1 \in T
      BY <2>3, <2>4
    <2>6. QED
      BY <2>4, <2>5
  <1>2. QED
    BY <1>1 DEF Min

\* The greatest of them.
LEMMA GreatestPosition ==
  ASSUME NEW n \in Nat, NEW S \in SUBSET (1 .. n), S # {}
  PROVE  Max(S) \in S /\ \A y \in S : Max(S) >= y
  <1> DEFINE U == {m \in Nat : \A y \in S : y <= m}
  <1>1. U \in SUBSET Nat /\ n \in U
    OBVIOUS
  <1>2. Min(U) \in U /\ \A y \in U : Min(U) <= y
    <2> HIDE DEF U
    <2>1. QED
      BY <1>1, LeastPosition
  <1>3. Min(U) \in Nat /\ \A y \in S : y <= Min(U)
    BY <1>2
  <1>4. Min(U) \in S
    <2>1. SUFFICES ASSUME Min(U) \notin S PROVE FALSE
      OBVIOUS
    <2> DEFINE m == Min(U)
    <2>2. m \in Nat /\ \A y \in S : y <= m /\ y # m /\ y \in Nat /\ y >= 1
      BY <1>3, <2>1
    <2>3. m - 1 \in Nat /\ \A y \in S : y <= m - 1
      <3> HIDE DEF m
      <3>1. PICK z : z \in S
        OBVIOUS
      <3>2. m >= 1
        BY <2>2, <3>1
      <3>3. QED
        BY <2>2, <3>2
    <2>4. m - 1 \in U /\ ~ (m <= m - 1)
      <3>1. m - 1 \in U
        BY <2>3
      <3> HIDE DEF m
      <3>2. QED
        BY <2>2, <3>1
    <2>5. QED
      BY <1>2, <2>4
  <1>5. \E x \in S : \A y \in S : x >= y
    BY <1>3, <1>4
  <1>6. QED
    BY <1>5 DEF Max

\* What is left of a queue is its end.
LEMMA ShiftedIsEnd ==
  ASSUME NEW T, NEW q \in Seq(T), NEW P \in SUBSET (DOMAIN q)
  PROVE  \E k \in 0 .. Len(q) :
           /\ k = 0 \/ k \in P
           /\ \A i \in P : i <= k
           /\ Shifted(q, P) = SubSeq(q, k + 1, Len(q))
           /\ Shifted(q, P) \in Seq(T) /\ Len(Shifted(q, P)) = Len(q) - k
           /\ \A i \in 1 .. Len(q) - k : Shifted(q, P)[i] = q[i + k]
  <1> DEFINE S == P \cup {0}
             k == Max(S)
             n == Len(q) + 1
             U == {i + 1 : i \in S}
  <1>1. DOMAIN q = 1 .. Len(q) /\ Len(q) \in Nat
    OBVIOUS
  <1>2. k \in S /\ \A y \in S : k >= y
    <2>1. S \in SUBSET Nat /\ S # {} /\ \A y \in S : y <= Len(q)
      BY <1>1
    <2>2. \E x \in S : \A y \in S : x >= y
      <3>1. CASE P = {}
        BY <3>1
      <3>2. CASE P # {}
        <4>1. Max(P) \in P /\ \A y \in P : Max(P) >= y
          BY <1>1, <3>2, GreatestPosition
        <4>2. Max(P) >= 0
          BY <1>1, <4>1
        <4>3. QED
          BY <4>1, <4>2
      <3>3. QED
        BY <3>1, <3>2
    <2>3. QED
      BY <2>2 DEF Max
  <1>3. k \in 0 .. Len(q) /\ (k = 0 \/ k \in P)
    BY <1>1, <1>2
  <1>4. Shifted(q, P) = SubSeq(q, k + 1, Len(q))
    BY DEF Shifted
  <1> HIDE DEF k
  <1>5. SubSeq(q, k + 1, Len(q)) \in Seq(T) /\ Len(SubSeq(q, k + 1, Len(q))) = Len(q) - k
        /\ \A i \in 1 .. Len(q) - k : SubSeq(q, k + 1, Len(q))[i] = q[i + k]
    <2>1. k + 1 \in Int /\ Len(q) \in Int /\ \A i \in k + 1 .. Len(q) : q[i] \in T
      BY <1>1, <1>3
    <2> DEFINE e == SubSeq(q, k + 1, Len(q))
    <2>2. /\ e \in Seq(T)
          /\ Len(e) = IF k + 1 <= Len(q) THEN Len(q) - (k + 1) + 1 ELSE 0
          /\ \A i \in 1 .. Len(q) - (k + 1) + 1 : e[i] = q[(k + 1) + i - 1]
      BY <2>1, SMTT(40)
    <2> HIDE DEF e
    <2>3. Len(e) = Len(q) - k /\ \A i \in 1 .. Len(q) - k : e[i] = q[i + k]
      <3>0. Len(q) \in Nat /\ k \in 0 .. Len(q) /\ Len(e) = IF k + 1 <= Len(q) THEN Len(q) - (k + 1) + 1 ELSE 0
        BY <1>1, <1>3, <2>2, ZenonT(40)
      <3>1. Len(e) = Len(q) - k
        BY <3>0
      <3>2. ASSUME NEW i \in 1 .. Len(q) - k PROVE e[i] = q[i + k]
        <4>1. i \in 1 .. Len(q) - (k + 1) + 1 /\ (k + 1) + i - 1 = i + k
          BY <1>1, <1>3
        <4>2. e[i] = q[(k + 1) + i - 1]
          BY <2>2, <4>1
        <4>3. QED
          BY <4>1, <4>2
      <3>3. QED
        BY <3>1, <3>2, SMTT(40)
    <2>4. QED
      BY <2>2, <2>3 DEF e
  <1>6. QED
    BY <1>2, <1>3, <1>4, <1>5

\* Any queue has an end that is no longer.
LEMMA LaterIsShorter ==
  ASSUME NEW q \in Seq(Published), NEW r
  PROVE  Later(q, r) \in Seq(Published) /\ Len(Later(q, r)) <= Len(q)
  <1> DEFINE P == {i \in DOMAIN q : q[i].rev <= r}
  <1>1. Later(q, r) = Shifted(q, P) /\ P \in SUBSET (DOMAIN q)
    BY DEF Later
  <1> HIDE DEF P
  <1>2. PICK k \in 0 .. Len(q) : Shifted(q, P) \in Seq(Published) /\ Len(Shifted(q, P)) = Len(q) - k
    BY <1>1, ShiftedIsEnd
  <1>3. QED
    BY <1>1, <1>2

\* The frames behind a revision, in a queue of the last frames of n revisions.
LEMMA LaterIsEnd ==
  ASSUME NEW q \in Seq(Published), NEW n \in Nat, Len(q) <= n,
         \A i \in DOMAIN q : q[i].rev = n - Len(q) + i,
         NEW r \in n - Len(q) .. n
  PROVE  /\ Later(q, r) \in Seq(Published) /\ Len(Later(q, r)) = n - r
         /\ \A i \in 1 .. n - r : Later(q, r)[i] = q[i + (Len(q) - (n - r))]
  <1> DEFINE P == {i \in DOMAIN q : q[i].rev <= r}
             m == Len(q) - (n - r)
  <1>1. DOMAIN q = 1 .. Len(q) /\ Len(q) \in Nat
    OBVIOUS
  <1>2. P = 1 .. m /\ m \in 0 .. Len(q)
    BY <1>1
  <1>3. Later(q, r) = Shifted(q, P) /\ P \in SUBSET (DOMAIN q)
    BY DEF Later
  <1> HIDE DEF P
  <1>4. PICK k \in 0 .. Len(q) :
           /\ k = 0 \/ k \in P
           /\ \A i \in P : i <= k
           /\ Shifted(q, P) \in Seq(Published) /\ Len(Shifted(q, P)) = Len(q) - k
           /\ \A i \in 1 .. Len(q) - k : Shifted(q, P)[i] = q[i + k]
    BY <1>3, ShiftedIsEnd
  <1>5. k = m
    <2>1. CASE m = 0
      BY <1>1, <1>2, <1>4, <2>1
    <2>2. CASE m # 0
      <3>1. m \in P /\ m >= 1
        BY <1>2, <2>2
      <3>2. m <= k
        BY <1>4, <3>1
      <3>3. k \in 1 .. m
        <4>1. k # 0
          BY <3>1, <3>2
        <4>2. k \in P
          BY <1>4, <4>1
        <4>3. QED
          BY <1>2, <4>2
      <3> HIDE DEF m
      <3>4. QED
        BY <1>2, <3>2, <3>3
    <2>3. QED
      BY <2>1, <2>2
  <1>6. QED
    BY <1>1, <1>3, <1>4, <1>5

\* Nothing newer than d was published up to r, if the queue holds nothing newer up to there.
LEMMA NothingNewer ==
  ASSUME NEW c \in Cores, CoreFits(c), NEW q \in Seq(Published), FramesFollow(c, q),
         NEW d \in Nat, Before(c, c.rev - Len(q)) <= d,
         NEW r \in c.rev - Len(q) .. c.rev,
         \A i \in DOMAIN q : q[i].rev <= r => q[i].cut <= d
  PROVE  Before(c, r) <= d
  <1> DEFINE a == c.rev - Len(q)
             S == {i \in DOMAIN q : q[i].rev <= r /\ Before(c, a + i) > d}
  <1>1. DOMAIN q = 1 .. Len(q) /\ Len(q) \in Nat /\ c.rev \in Nat /\ a \in Nat /\ a <= r
        /\ r \in Nat /\ r <= c.rev
    BY DEF FramesFollow, Cores
  <1>0. \A i \in 1 .. Len(q) : q[i].cut \in Nat /\ q[i].rev = a + i
    <2>1. ASSUME NEW i \in 1 .. Len(q) PROVE q[i].cut \in Nat /\ q[i].rev = a + i
      <3>1. q[i] \in Published /\ i \in DOMAIN q
        BY <1>1
      <3>2. q[i].rev = c.rev - Len(q) + i
        BY <3>1 DEF FramesFollow
      <3>3. QED
        BY <3>1, <3>2 DEF Published
    <2>2. QED
      BY <2>1
  <1>2. SUFFICES ASSUME ~ (Before(c, r) <= d) PROVE FALSE
    OBVIOUS
  <1>3. \A i \in 0 .. c.rev : Before(c, i) \in Nat
    <2>1. \A i \in 1 .. c.rev : c.shown[i] \in Nat
      BY DEF Cores, CoreFits
    <2>2. QED
      BY <1>1, <2>1 DEF Before
  <1>4. r # a
    BY <1>2, <1>1
  <1>5. r - a \in S
    <2>1. r - a \in DOMAIN q /\ q[r - a].rev = r /\ a + (r - a) = r /\ r \in 0 .. c.rev
      <3> HIDE DEF S
      <3>1. r - a \in 1 .. Len(q) /\ a + (r - a) = r /\ r \in 0 .. c.rev
        <4>1. c.rev \in Nat /\ Len(q) \in Nat /\ r \in Nat /\ c.rev - Len(q) <= r /\ r <= c.rev
              /\ r # c.rev - Len(q)
          BY <1>1, <1>4
        <4>2. QED
          BY <4>1
      <3>2. r - a \in DOMAIN q
        BY <1>1, <3>1
      <3>3. q[r - a].rev = a + (r - a)
        BY <1>0, <3>1
      <3>4. QED
        BY <3>1, <3>2, <3>3
    <2>2. Before(c, r) > d
      BY <1>2, <1>3, <2>1
    <2>3. Before(c, a + (r - a)) > d
      BY <2>1, <2>2
    <2>4. q[r - a].rev <= r
      BY <2>1, <1>1
    <2> HIDE DEF a
    <2>5. QED
      BY <2>1, <2>3, <2>4
  <1>6. S \in SUBSET Nat
    BY <1>1
  <1> DEFINE m == Min(S)
  <1>7. m \in S /\ \A y \in S : m <= y
    <2> HIDE DEF S
    <2>1. QED
      BY <1>5, <1>6, LeastPosition
  <1> HIDE DEF m
  <1>8. m \in 1 .. Len(q) /\ q[m].rev <= r /\ q[m].rev = a + m /\ Before(c, a + m) > d
        /\ a + m \in 1 .. c.rev
    BY <1>1, <1>7 DEF FramesFollow
  <1>9. Before(c, a + m - 1) <= d
    <2>1. CASE m = 1
      BY <1>1, <2>1
    <2>2. CASE m # 1
      <3>1. m - 1 \in DOMAIN q /\ m - 1 \notin S /\ q[m - 1].rev = a + (m - 1)
            /\ q[m - 1].rev <= r
        BY <1>1, <1>7, <1>8, <2>2, SMTT(40) DEF FramesFollow
      <3>2. ~ (Before(c, a + (m - 1)) > d)
        BY <3>1
      <3>3. a + (m - 1) \in 0 .. c.rev /\ a + (m - 1) = a + m - 1
        BY <1>1, <1>8, SMTT(40)
      <3>4. QED
        BY <1>3, <3>2, <3>3
    <2>3. QED
      BY <2>1, <2>2
  <1>10. c.shown[a + m] = Before(c, a + m) /\ (a + m) - 1 = a + m - 1
    BY <1>8, <1>1 DEF Before
  <1>11. q[m].cut <= d /\ q[m].cut \in Nat
    BY <1>0, <1>1, <1>8
  <1>12. IF q[m].cut = 0 THEN c.shown[a + m] = Before(c, a + m - 1)
         ELSE c.shown[a + m] = q[m].cut /\ Before(c, a + m - 1) < q[m].cut
    BY <1>1, <1>8, <1>10 DEF FramesFollow
  <1>13. Before(c, a + m) \in Nat /\ Before(c, a + m - 1) \in Nat
    <2>1. a + m \in 0 .. c.rev /\ a + m - 1 \in 0 .. c.rev
      BY <1>1, <1>8
    <2>2. QED
      BY <1>3, <2>1
  <1>14. QED
    BY <1>8, <1>9, <1>10, <1>11, <1>12, <1>13

\* The control state for a snapshot of cut d: nothing published by then is newer.
LEMMA ControlPrecedes ==
  ASSUME NEW c \in Cores, CoreFits(c), NEW q \in Seq(Published), FramesFollow(c, q),
         NEW d \in Nat, Before(c, c.rev - Len(q)) <= d
  PROVE  /\ Control(c, q, d) \in c.rev - Len(q) .. c.rev
         /\ Before(c, Control(c, q, d)) <= d
         /\ \A i \in DOMAIN q : q[i].rev <= Control(c, q, d) => q[i].cut <= d
  <1> DEFINE after == {i \in DOMAIN q : q[i].cut > d}
             r == Control(c, q, d)
  <1>1. DOMAIN q = 1 .. Len(q) /\ Len(q) \in Nat /\ c.rev \in Nat /\ c.rev - Len(q) \in Nat
        /\ \A i \in DOMAIN q : q[i].cut \in Nat
    <2>1. c.rev \in Nat /\ Len(q) <= c.rev
      BY DEF Cores, FramesFollow
    <2>2. ASSUME NEW i \in DOMAIN q PROVE q[i].cut \in Nat
      <3>1. q[i] \in Published
        OBVIOUS
      <3>2. QED
        BY <3>1 DEF Published
    <2>3. QED
      BY <2>1, <2>2
  <1>2. r \in c.rev - Len(q) .. c.rev /\ \A i \in DOMAIN q : q[i].rev <= r => q[i].cut <= d
    <2>1. CASE after = {}
      <3>1. r = c.rev
        BY <2>1 DEF Control
      <3>2. QED
        BY <1>1, <2>1, <3>1
    <2>2. CASE after # {}
      <3> DEFINE m == Min(after)
      <3>1. r = q[m].rev - 1
        BY <2>2 DEF Control
      <3>2. m \in after /\ \A y \in after : m <= y
        <4>1. after \in SUBSET Nat
          BY <1>1
        <4> HIDE DEF after
        <4>2. QED
          BY <2>2, <4>1, LeastPosition
      <3> HIDE DEF m, r
      <3>3. m \in 1 .. Len(q) /\ q[m].rev = c.rev - Len(q) + m
        BY <1>1, <3>2 DEF FramesFollow
      <3>4. r = c.rev - Len(q) + (m - 1)
        BY <1>1, <3>1, <3>3
      <3>5. ASSUME NEW i \in DOMAIN q, q[i].rev <= r PROVE q[i].cut <= d
        <4>1. q[i].rev = c.rev - Len(q) + i
          BY DEF FramesFollow
        <4>2. ~ (m <= i)
          BY <1>1, <3>3, <3>4, <3>5, <4>1
        <4>3. QED
          BY <1>1, <3>2, <4>2
      <3>6. QED
        BY <1>1, <3>3, <3>4, <3>5
    <2>3. QED
      BY <2>1, <2>2
  <1> HIDE DEF r
  <1>3. Before(c, r) <= d
    BY <1>2, NothingNewer
  <1>4. QED
    BY <1>2, <1>3 DEF r

-----------------------------------------------------------------------------
(* Publishing.                                                             *)

Bounded(c) == \A s \in Streams : Len(c.stream[s].q) <= FrameLimit

\* What may have happened to a Core that has published and resynchronised.
Advanced(c, n) ==
  /\ c.rev <= n.rev /\ \A i \in 0 .. c.rev : Before(n, i) = Before(c, i)
  /\ n.watch = [c.watch EXCEPT !.cut = n.watch.cut]
  /\ \A s \in Streams :
       /\ n.stream[s] = [c.stream[s] EXCEPT !.q = n.stream[s].q, !.resync = n.stream[s].resync]
       /\ ~Subscribed(c, s) => n.stream[s] = c.stream[s]
       /\ c.stream[s].resync => n.stream[s].resync
       /\ Subscribed(c, s) /\ ~n.stream[s].resync => Start(n, s) = Start(c, s)

Fits(c) == c \in Cores /\ CoreFits(c) /\ Bounded(c)

\* The parts of a Core.
LEMMA PartsOfCore ==
  ASSUME NEW c \in Cores
  PROVE  /\ c = [rev |-> c.rev, shown |-> c.shown, watch |-> c.watch, stream |-> c.stream]
         /\ c.rev \in Nat /\ c.shown \in Seq(Nat) /\ c.watch \in Watches
         /\ c.stream \in [Streams -> Subscribers]
  BY DEF Cores

\* The fields of a subscriber.
LEMMA PartsOfSubscriber ==
  ASSUME NEW st \in Subscribers
  PROVE  /\ st.at \in {"off", "waiting", "reading", "live", "closed"}
         /\ st.q \in Seq(Published) /\ st.resync \in BOOLEAN /\ st.busy \in BOOLEAN
         /\ st.cut \in Nat /\ st.resnap \in BOOLEAN
  BY DEF Subscribers

\* What was published last is a cut.
LEMMA BeforeIsCut ==
  ASSUME NEW c \in Cores, Len(c.shown) = c.rev, NEW i \in 0 .. c.rev
  PROVE  Before(c, i) \in Nat
  <1>1. c.shown \in Seq(Nat) /\ c.rev \in Nat
    BY PartsOfCore
  <1>2. CASE i = 0
    BY <1>2 DEF Before
  <1>3. CASE i # 0
    <2>1. i \in 1 .. Len(c.shown)
      BY <1>1, <1>3
    <2>2. QED
      BY <1>1, <1>3, <2>1 DEF Before
  <1>4. QED
    BY <1>2, <1>3

\* What a new frame makes of a subscriber.
LEMMA Received ==
  ASSUME NEW st \in Subscribers, NEW f \in Published, Len(st.q) <= FrameLimit
  PROVE  LET n == Receive(st, f)
         IN  /\ n \in Subscribers /\ Len(n.q) <= FrameLimit
             /\ n = [st EXCEPT !.q = n.q, !.resync = n.resync]
             /\ st.resync => n.resync
             /\ ~n.resync => ~st.resync /\ n.q = Append(st.q, f)
  <1> DEFINE n == Receive(st, f)
  <1>0. FrameLimit \in Nat /\ st.q \in Seq(Published) /\ Len(st.q) \in Nat
    BY StreamAssumption, PartsOfSubscriber
  <1>1. CASE st.resync
    <2>1. n = st
      BY <1>1 DEF Receive
    <2>2. QED
      BY <1>1, <2>1 DEF Subscribers
  <1>2. CASE ~st.resync /\ Len(st.q) >= FrameLimit
    <2>1. n = [st EXCEPT !.q = << >>, !.resync = TRUE]
      BY <1>2 DEF Receive
    <2>0. << >> \in Seq(Published) /\ Len(<< >>) = 0
      OBVIOUS
    <2>2. n.q = << >> /\ n.resync /\ n \in Subscribers
      BY <2>0, <2>1 DEF Subscribers
    <2>3. QED
      BY <1>0, <2>1, <2>2
  <1>3. CASE ~st.resync /\ ~(Len(st.q) >= FrameLimit)
    <2>1. n = [st EXCEPT !.q = Append(@, f)]
      BY <1>3 DEF Receive
    <2>2. n.q = Append(st.q, f) /\ n.resync = st.resync
      BY <2>1 DEF Subscribers
    <2>3. n \in Subscribers
      BY <2>1, <1>0, SMTT(40) DEF Subscribers
    <2>4. Len(n.q) <= FrameLimit
      BY <1>0, <1>3, <2>2
    <2>5. n = [st EXCEPT !.q = n.q, !.resync = n.resync]
      BY <1>3, <2>1, <2>2 DEF Subscribers
    <2>6. QED
      BY <1>3, <2>2, <2>3, <2>4, <2>5
  <1>4. QED
    BY <1>1, <1>2, <1>3

\* Publishing a delta that is new, or a change of the control state.
LEMMA PublishFits ==
  ASSUME NEW c, Fits(c), NEW d \in Nat, d = 0 \/ Before(c, c.rev) < d
  PROVE  LET n == Publish(c, d)
         IN  /\ Fits(n) /\ Advanced(c, n) /\ n.watch = c.watch /\ n.rev = c.rev + 1
             /\ Before(n, n.rev) = IF d = 0 THEN Before(c, c.rev) ELSE d
             /\ \A s \in Streams :
                  Subscribed(c, s) /\ ~n.stream[s].resync =>
                    /\ ~c.stream[s].resync
                    /\ n.stream[s].q = Append(c.stream[s].q, [rev |-> c.rev + 1, cut |-> d])
  <1> DEFINE n == Publish(c, d)
             f == [rev |-> c.rev + 1, cut |-> d]
             last == Before(c, c.rev)
             new == IF d = 0 THEN last ELSE d
  <1>1. c \in Cores /\ CoreFits(c) /\ Bounded(c) /\ c.rev \in Nat /\ c.shown \in Seq(Nat)
        /\ c.stream \in [Streams -> Subscribers] /\ c.watch \in Watches /\ Len(c.shown) = c.rev
    BY PartsOfCore DEF Fits, CoreFits
  <1>2. last \in Nat /\ new \in Nat /\ last <= new
    <2>1. last \in Nat
      BY <1>1, BeforeIsCut
    <2>2. d = 0 \/ last < d
      OBVIOUS
    <2> HIDE DEF last
    <2>3. QED
      BY <2>1, <2>2
  <1>3. n = [rev |-> c.rev + 1, shown |-> Append(c.shown, new), watch |-> c.watch,
             stream |-> [s \in Streams |-> IF Subscribed(c, s) THEN Receive(c.stream[s], f)
                                           ELSE c.stream[s]]]
    <2>1. n = [c EXCEPT !.rev = @ + 1, !.shown = Append(@, new),
                        !.stream = [s \in Streams |-> IF Subscribed(c, s) THEN Receive(@[s], f)
                                                      ELSE @[s]]]
      BY DEF Publish, Before
    <2> HIDE DEF new, f
    <2>2. QED
      BY <1>1, <2>1 DEF Cores
  <1>4. n.rev = c.rev + 1 /\ n.shown = Append(c.shown, new) /\ n.watch = c.watch
        /\ \A s \in Streams : n.stream[s] = IF Subscribed(c, s) THEN Receive(c.stream[s], f)
                                            ELSE c.stream[s]
    BY <1>3
  <1> HIDE DEF n, new
  <1>5. f \in Published
    BY <1>1 DEF Published
  <1>6. ASSUME NEW s \in Streams
        PROVE  /\ n.stream[s] \in Subscribers /\ Len(n.stream[s].q) <= FrameLimit
               /\ n.stream[s] = [c.stream[s] EXCEPT !.q = n.stream[s].q, !.resync = n.stream[s].resync]
               /\ c.stream[s].resync => n.stream[s].resync
               /\ Subscribed(c, s) /\ ~n.stream[s].resync =>
                    ~c.stream[s].resync /\ n.stream[s].q = Append(c.stream[s].q, f)
               /\ ~Subscribed(c, s) => n.stream[s] = c.stream[s]
               /\ n.stream[s].at = c.stream[s].at
    <2>1. c.stream[s] \in Subscribers /\ Len(c.stream[s].q) <= FrameLimit
      BY <1>1 DEF Bounded
    <2>2. CASE Subscribed(c, s)
      <3>1. n.stream[s] = Receive(c.stream[s], f)
        BY <1>4, <2>2, SMTT(40)
      <3> DEFINE m == Receive(c.stream[s], f)
      <3> HIDE DEF f
      <3>0. /\ m \in Subscribers /\ Len(m.q) <= FrameLimit
            /\ m = [c.stream[s] EXCEPT !.q = m.q, !.resync = m.resync]
            /\ c.stream[s].resync => m.resync
            /\ ~m.resync => ~c.stream[s].resync /\ m.q = Append(c.stream[s].q, f)
        BY <1>5, <2>1, Received, ZenonT(40)
      <3>5. n.stream[s] = m
        BY <3>1
      <3> HIDE DEF m
      <3>2. /\ n.stream[s] \in Subscribers /\ Len(n.stream[s].q) <= FrameLimit
            /\ n.stream[s] = [c.stream[s] EXCEPT !.q = n.stream[s].q, !.resync = n.stream[s].resync]
            /\ c.stream[s].resync => n.stream[s].resync
            /\ ~n.stream[s].resync => ~c.stream[s].resync /\ n.stream[s].q = Append(c.stream[s].q, f)
        BY <3>0, <3>5
      <3>3. n.stream[s].at = c.stream[s].at
        BY <2>1, <3>2 DEF Subscribers
      <3>4. QED
        BY <2>2, <3>2, <3>3
    <2>3. CASE ~Subscribed(c, s)
      <3>1. n.stream[s] = c.stream[s]
        BY <1>4, <2>3
      <3>2. c.stream[s] = [c.stream[s] EXCEPT !.q = c.stream[s].q, !.resync = c.stream[s].resync]
        BY <2>1 DEF Subscribers
      <3>3. QED
        BY <2>1, <2>3, <3>1, <3>2
    <2>4. QED
      BY <2>2, <2>3
  <1>7. n \in Cores
    <2>1. n.stream \in [Streams -> Subscribers]
      <3>1. n.stream = [s \in Streams |-> n.stream[s]]
        BY <1>3
      <3>2. QED
        BY <1>6, <3>1, ZenonT(40)
    <2>2. n = [rev |-> n.rev, shown |-> n.shown, watch |-> n.watch, stream |-> n.stream]
      BY <1>3
    <2>3. n.rev \in Nat /\ n.shown \in Seq(Nat) /\ n.watch \in Watches
      BY <1>1, <1>2, <1>4
    <2>4. QED
      BY <2>1, <2>2, <2>3 DEF Cores
  <1>8. Len(n.shown) = n.rev /\ \A i \in 0 .. c.rev : Before(n, i) = Before(c, i)
    <2>1. Len(n.shown) = n.rev
      BY <1>1, <1>2, <1>4
    <2>2. ASSUME NEW i \in 0 .. c.rev PROVE Before(n, i) = Before(c, i)
      <3>1. CASE i = 0
        BY <3>1 DEF Before
      <3>2. CASE i # 0
        <4>1. i \in 1 .. Len(c.shown)
          BY <1>1, <3>2
        <4>2. n.shown[i] = c.shown[i]
          BY <1>1, <1>2, <1>4, <4>1
        <4>3. QED
          BY <3>2, <4>2 DEF Before
      <3>3. QED
        BY <3>1, <3>2
    <2>3. QED
      BY <2>1, <2>2
  <1>9. n.shown[n.rev] = new /\ Before(n, n.rev) = new
    <2>1. n.shown[c.rev + 1] = new
      BY <1>1, <1>2, <1>4
    <2>2. QED
      BY <1>1, <1>4, <2>1 DEF Before
  <1>10. \A i, j \in 0 .. n.rev : i <= j => Before(n, i) <= Before(n, j)
    <2>1. ASSUME NEW i \in 0 .. n.rev, NEW j \in 0 .. n.rev, i <= j
          PROVE  Before(n, i) <= Before(n, j)
      <3>1. CASE j \in 0 .. c.rev
        <4>1. i \in 0 .. c.rev
          BY <2>1, <3>1, <1>1
        <4>2. Before(c, i) <= Before(c, j)
          BY <1>1, <2>1, <3>1, <4>1 DEF CoreFits
        <4>3. QED
          BY <1>8, <3>1, <4>1, <4>2
      <3>2. CASE j = n.rev /\ i \in 0 .. c.rev
        <4>1. c.rev \in 0 .. c.rev /\ i <= c.rev
          BY <1>1, <3>2
        <4>2. Before(c, i) <= last /\ Before(c, i) \in Nat
          BY <1>1, <3>2, <4>1, BeforeIsCut DEF CoreFits
        <4>3. Before(n, i) = Before(c, i) /\ Before(n, j) = new
          BY <1>8, <1>9, <3>2
        <4> HIDE DEF last
        <4>4. QED
          BY <1>2, <4>2, <4>3
      <3>3. CASE i = n.rev /\ j = n.rev
        BY <1>2, <1>9, <3>3
      <3>4. QED
        BY <1>1, <1>4, <2>1, <3>1, <3>2, <3>3
    <2>2. QED
      BY <2>1
  <1>11. ASSUME NEW s \in Streams PROVE Faithful(n, s)
    <2> DEFINE p == c.stream[s].q
               q == n.stream[s].q
    <2>1. SUFFICES ASSUME Subscribed(n, s), ~n.stream[s].resync PROVE FramesFollow(n, q)
      BY DEF Faithful, FramesFollow
    <2>2. Subscribed(c, s) /\ ~c.stream[s].resync /\ q = Append(p, f)
      BY <1>6, <2>1, ZenonT(40) DEF Subscribed
    <2>3. p \in Seq(Published) /\ Len(p) \in Nat /\ DOMAIN p = 1 .. Len(p) /\ Len(p) <= c.rev
      BY <1>1, <2>2, PartsOfSubscriber DEF CoreFits, Faithful, FramesFollow
    <2>4. Len(q) = Len(p) + 1 /\ q[Len(p) + 1] = f /\ \A i \in 1 .. Len(p) : q[i] = p[i]
      BY <1>5, <2>2, <2>3, SMTT(40)
    <2>5. DOMAIN q = 1 .. Len(p) + 1 /\ Len(q) <= n.rev
      <3>1. q \in Seq(Published)
        BY <1>5, <2>2, <2>3
      <3>2. QED
        BY <1>1, <1>4, <2>3, <2>4, <3>1
    <2>6. ASSUME NEW i \in 1 .. Len(p)
          PROVE  /\ q[i].rev = n.rev - Len(q) + i
                 /\ IF q[i].cut = 0 THEN n.shown[q[i].rev] = Before(n, q[i].rev - 1)
                    ELSE n.shown[q[i].rev] = q[i].cut /\ Before(n, q[i].rev - 1) < q[i].cut
      <3>1. /\ p[i].rev = c.rev - Len(p) + i
            /\ IF p[i].cut = 0 THEN c.shown[p[i].rev] = Before(c, p[i].rev - 1)
               ELSE c.shown[p[i].rev] = p[i].cut /\ Before(c, p[i].rev - 1) < p[i].cut
        BY <1>1, <2>2, <2>3 DEF CoreFits, Faithful, FramesFollow
      <3>2. p[i].rev \in 1 .. c.rev /\ p[i].rev - 1 \in 0 .. c.rev
        <4>1. Len(p) \in Nat /\ Len(p) <= c.rev /\ c.rev \in Nat /\ p[i].rev = c.rev - Len(p) + i
          BY <1>1, <2>3, <3>1
        <4> HIDE DEF p
        <4>2. QED
          BY <4>1
      <3>3. n.shown[p[i].rev] = c.shown[p[i].rev] /\ Before(n, p[i].rev - 1) = Before(c, p[i].rev - 1)
        <4>1. Before(n, p[i].rev - 1) = Before(c, p[i].rev - 1)
          BY <1>8, <3>2
        <4>2. ASSUME NEW j \in 1 .. c.rev PROVE n.shown[j] = c.shown[j]
          BY <1>1, <1>2, <1>4
        <4>3. QED
          BY <3>2, <4>1, <4>2
      <3>4. q[i] = p[i]
        BY <2>4
      <3>5. n.rev - Len(q) + i = c.rev - Len(p) + i
        <4>1. Len(p) \in Nat /\ c.rev \in Nat /\ Len(q) = Len(p) + 1 /\ n.rev = c.rev + 1
          BY <1>1, <1>4, <2>3, <2>4
        <4> HIDE DEF p, q
        <4>2. QED
          BY <4>1
      <3>6. QED
        BY <3>1, <3>3, <3>4, <3>5, SMTT(40)
    <2>7. LET i == Len(p) + 1
          IN  /\ q[i].rev = n.rev - Len(q) + i
              /\ IF q[i].cut = 0 THEN n.shown[q[i].rev] = Before(n, q[i].rev - 1)
                 ELSE n.shown[q[i].rev] = q[i].cut /\ Before(n, q[i].rev - 1) < q[i].cut
      <3>1. n.rev - Len(q) + (Len(p) + 1) = n.rev
        BY <1>1, <1>4, <2>3, <2>4
      <3>2. q[Len(p) + 1].rev = n.rev /\ q[Len(p) + 1].cut = d
        BY <1>4, <2>4
      <3>3. Before(n, n.rev - 1) = last
        BY <1>1, <1>4, <1>8, SMTT(40)
      <3>4. IF d = 0 THEN new = last ELSE new = d /\ last < d
        BY DEF new
      <3>5. QED
        BY <1>9, <3>1, <3>2, <3>3, <3>4
    <2>8. QED
      <3>1. \A i \in DOMAIN q : i \in 1 .. Len(p) \/ i = Len(p) + 1
        BY <2>3, <2>5
      <3> HIDE DEF q
      <3>2. QED
        BY <2>5, <2>6, <2>7, <3>1 DEF FramesFollow
  <1>12. Fits(n)
    BY <1>6, <1>7, <1>8, <1>10, <1>11, ZenonT(40) DEF Fits, CoreFits, Bounded
  <1>13. Advanced(c, n)
    <2>1. c.rev <= n.rev
      BY <1>1, <1>4
    <2>2. n.watch = [c.watch EXCEPT !.cut = n.watch.cut]
      BY <1>1, <1>4 DEF Watches
    <2>3. ASSUME NEW s \in Streams, Subscribed(c, s), ~n.stream[s].resync
          PROVE  Start(n, s) = Start(c, s)
      <3>1. n.stream[s].q = Append(c.stream[s].q, f) /\ c.stream[s].q \in Seq(Published)
        BY <1>1, <1>6, <2>3, PartsOfSubscriber, ZenonT(40)
      <3>2. Len(n.stream[s].q) = Len(c.stream[s].q) + 1 /\ Len(c.stream[s].q) \in Nat
        BY <1>5, <3>1
      <3>3. c.rev \in Nat /\ n.rev = c.rev + 1
        BY <1>1, <1>4
      <3>4. (c.rev + 1) - (Len(c.stream[s].q) + 1) = c.rev - Len(c.stream[s].q)
        BY <3>2, <3>3
      <3>5. QED
        BY <3>2, <3>3, <3>4, SMTT(40) DEF Start
    <2>4. QED
      BY <1>6, <1>8, <2>1, <2>2, <2>3, ZenonT(40) DEF Advanced
  <1>14. Before(n, n.rev) = IF d = 0 THEN Before(c, c.rev) ELSE d
    BY <1>9 DEF new
  <1>15. QED
    BY <1>4, <1>6, <1>12, <1>13, <1>14, ZenonT(40) DEF n

\* A Core that did nothing, and one that did two things.
LEMMA AdvancedSelf ==
  ASSUME NEW c \in Cores
  PROVE  Advanced(c, c)
  <1>1. c.rev \in Nat /\ c.watch \in Watches /\ c.stream \in [Streams -> Subscribers]
    BY PartsOfCore
  <1>2. c.watch = [c.watch EXCEPT !.cut = c.watch.cut]
    BY <1>1 DEF Watches
  <1>3. ASSUME NEW s \in Streams
        PROVE  c.stream[s] = [c.stream[s] EXCEPT !.q = c.stream[s].q, !.resync = c.stream[s].resync]
    <2>1. c.stream[s] \in Subscribers
      BY <1>1
    <2>2. QED
      BY <2>1 DEF Subscribers
  <1>4. c.rev <= c.rev
    BY <1>1
  <1>5. QED
    BY <1>2, <1>3, <1>4, Zenon DEF Advanced

\* Two changes of the queue of a subscriber are one.
LEMMA SubscriberTwice ==
  ASSUME NEW a \in Subscribers, NEW b \in Subscribers, NEW e \in Subscribers,
         b = [a EXCEPT !.q = b.q, !.resync = b.resync],
         e = [b EXCEPT !.q = e.q, !.resync = e.resync]
  PROVE  e = [a EXCEPT !.q = e.q, !.resync = e.resync] /\ b.at = a.at
  <1> DEFINE k == [a EXCEPT !.q = e.q, !.resync = e.resync]
  <1>1. b.at = a.at /\ b.busy = a.busy /\ b.cut = a.cut /\ b.resnap = a.resnap
    BY DEF Subscribers
  <1>2. e.at = b.at /\ e.busy = b.busy /\ e.cut = b.cut /\ e.resnap = b.resnap
    BY DEF Subscribers
  <1>3. k \in Subscribers /\ k.at = a.at /\ k.q = e.q /\ k.resync = e.resync /\ k.busy = a.busy
        /\ k.cut = a.cut /\ k.resnap = a.resnap
    <2>1. e.q \in Seq(Published) /\ e.resync \in BOOLEAN
      BY PartsOfSubscriber
    <2>2. QED
      BY <2>1 DEF Subscribers
  <1> HIDE DEF k
  <1>4. e = k
    BY <1>1, <1>2, <1>3, SMTT(40) DEF Subscribers
  <1>5. QED
    BY <1>1, <1>4 DEF k

\* Two steps in which a Core publishes are one.
LEMMA AdvancedTwice ==
  ASSUME NEW c \in Cores, NEW m \in Cores, NEW n \in Cores, Advanced(c, m), Advanced(m, n)
  PROVE  Advanced(c, n)
  <1>1. c.rev \in Nat /\ m.rev \in Nat /\ n.rev \in Nat /\ c.watch \in Watches /\ m.watch \in Watches
        /\ n.watch \in Watches /\ c.stream \in [Streams -> Subscribers]
        /\ m.stream \in [Streams -> Subscribers] /\ n.stream \in [Streams -> Subscribers]
    BY PartsOfCore
  <1>2. c.rev <= n.rev /\ \A i \in 0 .. c.rev : Before(n, i) = Before(c, i)
    <2>1. c.rev <= m.rev /\ m.rev <= n.rev
      BY ZenonT(40) DEF Advanced
    <2>2. ASSUME NEW i \in 0 .. c.rev PROVE Before(n, i) = Before(c, i)
      <3>1. i \in 0 .. m.rev
        BY <1>1, <2>1
      <3>2. QED
        BY <3>1, ZenonT(40) DEF Advanced
    <2>3. QED
      BY <1>1, <2>1, <2>2, SMTT(40)
  <1>3. n.watch = [c.watch EXCEPT !.cut = n.watch.cut]
    <2>1. m.watch = [c.watch EXCEPT !.cut = m.watch.cut] /\ n.watch = [m.watch EXCEPT !.cut = n.watch.cut]
      BY ZenonT(40) DEF Advanced
    <2>2. QED
      BY <1>1, <2>1 DEF Watches
  <1>4. ASSUME NEW s \in Streams
        PROVE  /\ n.stream[s] = [c.stream[s] EXCEPT !.q = n.stream[s].q, !.resync = n.stream[s].resync]
               /\ ~Subscribed(c, s) => n.stream[s] = c.stream[s]
               /\ c.stream[s].resync => n.stream[s].resync
               /\ Subscribed(c, s) /\ ~n.stream[s].resync => Start(n, s) = Start(c, s)
    <2>1. c.stream[s] \in Subscribers /\ m.stream[s] \in Subscribers /\ n.stream[s] \in Subscribers
      BY <1>1
    <2>2. /\ m.stream[s] = [c.stream[s] EXCEPT !.q = m.stream[s].q, !.resync = m.stream[s].resync]
          /\ n.stream[s] = [m.stream[s] EXCEPT !.q = n.stream[s].q, !.resync = n.stream[s].resync]
      BY ZenonT(40) DEF Advanced
    <2>3. n.stream[s] = [c.stream[s] EXCEPT !.q = n.stream[s].q, !.resync = n.stream[s].resync]
          /\ m.stream[s].at = c.stream[s].at
      BY <2>1, <2>2, SubscriberTwice, ZenonT(40)
    <2>4. Subscribed(m, s) <=> Subscribed(c, s)
      BY <2>3 DEF Subscribed
    <2>5. QED
      BY <2>3, <2>4, ZenonT(40) DEF Advanced
  <1>5. QED
    BY <1>2, <1>3, <1>4, ZenonT(40) DEF Advanced

\* Where the subscribers of an advanced Core stand.
LEMMA PlacesKept ==
  ASSUME NEW c \in Cores, NEW n \in Cores, Advanced(c, n), NEW s \in Streams
  PROVE  /\ n.stream[s].at = c.stream[s].at /\ n.stream[s].busy = c.stream[s].busy
         /\ n.stream[s].cut = c.stream[s].cut /\ n.stream[s].resnap = c.stream[s].resnap
         /\ Subscribed(n, s) <=> Subscribed(c, s)
         /\ n.watch.on = c.watch.on /\ n.watch.initializing = c.watch.initializing
         /\ n.watch.base = c.watch.base /\ n.watch.pending = c.watch.pending
         /\ n.watch.over = c.watch.over /\ n.watch.first = c.watch.first
  <1>1. c.stream[s] \in Subscribers /\ c.watch \in Watches
    BY PartsOfCore, SMTT(40)
  <1>2. /\ n.stream[s] = [c.stream[s] EXCEPT !.q = n.stream[s].q, !.resync = n.stream[s].resync]
        /\ n.watch = [c.watch EXCEPT !.cut = n.watch.cut]
    BY ZenonT(40) DEF Advanced
  <1>3. /\ n.stream[s].at = c.stream[s].at /\ n.stream[s].busy = c.stream[s].busy
        /\ n.stream[s].cut = c.stream[s].cut /\ n.stream[s].resnap = c.stream[s].resnap
    BY <1>1, <1>2 DEF Subscribers
  <1>4. /\ n.watch.on = c.watch.on /\ n.watch.initializing = c.watch.initializing
        /\ n.watch.base = c.watch.base /\ n.watch.pending = c.watch.pending
        /\ n.watch.over = c.watch.over /\ n.watch.first = c.watch.first
    BY <1>1, <1>2 DEF Watches
  <1>5. QED
    BY <1>3, <1>4 DEF Subscribed

\* A resynchronisation of every subscriber.
LEMMA ResyncFits ==
  ASSUME NEW c, Fits(c)
  PROVE  LET n == Resync(c)
         IN  /\ Fits(n) /\ Advanced(c, n) /\ n.watch = c.watch /\ n.rev = c.rev /\ n.shown = c.shown
             /\ \A s \in Streams : Subscribed(c, s) => n.stream[s].resync
  <1> DEFINE n == Resync(c)
             h(s) == IF Subscribed(c, s) THEN [c.stream[s] EXCEPT !.q = << >>, !.resync = TRUE]
                     ELSE c.stream[s]
  <1>1. c \in Cores /\ CoreFits(c) /\ Bounded(c) /\ c.rev \in Nat /\ c.watch \in Watches
        /\ c.stream \in [Streams -> Subscribers]
    BY PartsOfCore DEF Fits
  <1>2. n = [rev |-> c.rev, shown |-> c.shown, watch |-> c.watch,
             stream |-> [s \in Streams |-> h(s)]]
    <2>1. n = [c EXCEPT !.stream = [s \in Streams |-> IF Subscribed(c, s)
                THEN [@[s] EXCEPT !.q = << >>, !.resync = TRUE] ELSE @[s]]]
      BY DEF Resync
    <2>2. QED
      BY <1>1, <2>1, ZenonT(40) DEF Cores
  <1> HIDE DEF n
  <1>3. n.rev = c.rev /\ n.shown = c.shown /\ n.watch = c.watch
        /\ \A s \in Streams : n.stream[s] = h(s)
    <2> HIDE DEF h
    <2>1. QED
      BY <1>2
  <1>4. ASSUME NEW s \in Streams
        PROVE  /\ n.stream[s] \in Subscribers /\ Len(n.stream[s].q) <= FrameLimit
               /\ n.stream[s] = [c.stream[s] EXCEPT !.q = n.stream[s].q, !.resync = n.stream[s].resync]
               /\ ~Subscribed(c, s) => n.stream[s] = c.stream[s]
               /\ c.stream[s].resync => n.stream[s].resync
               /\ Subscribed(c, s) => n.stream[s].resync
               /\ Subscribed(n, s) <=> Subscribed(c, s)
    <2>1. c.stream[s] \in Subscribers /\ Len(c.stream[s].q) <= FrameLimit
      BY <1>1 DEF Bounded
    <2>2. CASE Subscribed(c, s)
      <3>1. n.stream[s] = [c.stream[s] EXCEPT !.q = << >>, !.resync = TRUE]
        BY <1>3, <2>2, ZenonT(40)
      <3>2. << >> \in Seq(Published) /\ Len(<< >>) = 0
        OBVIOUS
      <3>3. n.stream[s] \in Subscribers /\ n.stream[s].q = << >> /\ n.stream[s].resync
            /\ n.stream[s].at = c.stream[s].at
            /\ n.stream[s] = [c.stream[s] EXCEPT !.q = n.stream[s].q, !.resync = n.stream[s].resync]
        BY <2>1, <3>1, <3>2 DEF Subscribers
      <3>4. Len(n.stream[s].q) <= FrameLimit
        BY <3>3, <3>2, StreamAssumption
      <3>5. QED
        BY <2>2, <3>3, <3>4 DEF Subscribed
    <2>3. CASE ~Subscribed(c, s)
      <3>1. n.stream[s] = c.stream[s]
        BY <1>3, <2>3, ZenonT(40)
      <3>2. c.stream[s] = [c.stream[s] EXCEPT !.q = c.stream[s].q, !.resync = c.stream[s].resync]
        BY <2>1 DEF Subscribers
      <3>3. QED
        BY <2>1, <2>3, <3>1, <3>2 DEF Subscribed
    <2>4. QED
      BY <2>2, <2>3
  <1>5. n \in Cores
    <2>1. n.stream \in [Streams -> Subscribers]
      <3>1. n.stream = [s \in Streams |-> n.stream[s]]
        BY <1>2, ZenonT(40)
      <3>2. QED
        BY <1>4, <3>1, ZenonT(40)
    <2>2. n = [rev |-> n.rev, shown |-> n.shown, watch |-> n.watch, stream |-> n.stream]
      BY <1>2, ZenonT(40)
    <2>3. n.rev \in Nat /\ n.shown \in Seq(Nat) /\ n.watch \in Watches
      BY <1>1, <1>3, PartsOfCore, ZenonT(40)
    <2>4. QED
      BY <2>1, <2>2, <2>3 DEF Cores
  <1>6. \A i : Before(n, i) = Before(c, i)
    BY <1>3, ZenonT(40) DEF Before
  <1>7. Fits(n)
    BY <1>1, <1>3, <1>4, <1>5, <1>6, ZenonT(40) DEF Fits, CoreFits, Bounded, Faithful
  <1>8. Advanced(c, n)
    <2>1. n.watch = [c.watch EXCEPT !.cut = n.watch.cut]
      BY <1>1, <1>3, ZenonT(40) DEF Watches
    <2>2. c.rev <= n.rev
      <3>1. c.rev \in Nat /\ n.rev = c.rev
        BY <1>1, <1>3, ZenonT(40)
      <3>2. QED
        BY <3>1
    <2>3. QED
      BY <1>4, <1>6, <2>1, <2>2, Zenon DEF Advanced
  <1>9. QED
    BY <1>3, <1>4, <1>7, <1>8, ZenonT(40) DEF n

\* The watch passes an update.
LEMMA PassedFits ==
  ASSUME NEW c, Fits(c), NEW d \in Nat
  PROVE  LET n == [c EXCEPT !.watch.cut = d]
         IN  /\ Fits(n) /\ Advanced(c, n) /\ n.watch.cut = d
             /\ n.rev = c.rev /\ n.shown = c.shown /\ n.stream = c.stream
  <1> DEFINE n == [c EXCEPT !.watch.cut = d]
  <1>1. c \in Cores /\ CoreFits(c) /\ Bounded(c) /\ c.rev \in Nat /\ c.watch \in Watches
        /\ c.stream \in [Streams -> Subscribers]
    BY PartsOfCore DEF Fits
  <1>2. n \in Cores /\ n.rev = c.rev /\ n.shown = c.shown /\ n.stream = c.stream
        /\ n.watch = [c.watch EXCEPT !.cut = d]
    <2>1. [c.watch EXCEPT !.cut = d] \in Watches
      BY <1>1 DEF Watches
    <2>2. QED
      BY <1>1, <2>1 DEF Cores
  <1> HIDE DEF n
  <1>3. n.watch.cut = d
    BY <1>1, <1>2 DEF Watches
  <1>4. \A i : Before(n, i) = Before(c, i)
    BY <1>2 DEF Before
  <1>5. \A s \in Streams : (Subscribed(n, s) <=> Subscribed(c, s)) /\ Start(n, s) = Start(c, s)
    BY <1>2, SMTT(40) DEF Subscribed, Start
  <1>6. CoreFits(n)
    BY <1>1, <1>2, <1>4, <1>5 DEF CoreFits, Faithful, FramesFollow
  <1>7. Bounded(n)
    BY <1>1, <1>2, SMTT(40) DEF Bounded
  <1>8. Advanced(c, n)
    <2>1. Advanced(c, c)
      BY <1>1, AdvancedSelf
    <2>2. QED
      BY <1>2, <1>3, <1>4, <1>5, <2>1, ZenonT(40) DEF Advanced
  <1>9. QED
    BY <1>2, <1>3, <1>6, <1>7, <1>8 DEF n, Fits

\* An update of the watch.
LEMMA ApplyFits ==
  ASSUME NEW c, Fits(c), NEW u \in Updates, c.watch.on, Before(c, c.rev) <= c.watch.cut
  PROVE  LET n == Apply(c, u)
         IN  /\ Fits(n) /\ Advanced(c, n)
             /\ n.watch.cut = IF u.cut <= c.watch.cut THEN c.watch.cut ELSE u.cut
             /\ Before(n, n.rev) <= n.watch.cut
             /\ \A s \in Streams, d \in Nat :
                  /\ Subscribed(c, s) /\ ~n.stream[s].resync /\ Holds(c, s, d)
                  /\ u.snap \/ u.cut <= c.watch.cut + 1 \/ u.cut <= d + 1
                  => Holds(n, s, d)
  <1> DEFINE n == Apply(c, u)
             m == [c EXCEPT !.watch.cut = u.cut]
  <1>1. c \in Cores /\ CoreFits(c) /\ c.rev \in Nat /\ c.watch \in Watches /\ c.watch.cut \in Nat
        /\ u.cut \in Nat /\ u.snap \in BOOLEAN /\ c.stream \in [Streams -> Subscribers]
        /\ Before(c, c.rev) \in Nat
    <2>1. c \in Cores /\ CoreFits(c)
      BY DEF Fits
    <2>2. c.rev \in Nat /\ c.watch \in Watches /\ c.stream \in [Streams -> Subscribers]
      BY <2>1, PartsOfCore
    <2>3. Before(c, c.rev) \in Nat
      BY <2>1, <2>2, BeforeIsCut DEF CoreFits
    <2>4. QED
      BY <2>1, <2>2, <2>3 DEF Watches, Updates
  <1>2. CASE u.cut <= c.watch.cut
    <2>1. n = c
      BY <1>2 DEF Apply
    <2>2. QED
      BY <1>1, <1>2, <2>1, AdvancedSelf
  <1>3. CASE ~ (u.cut <= c.watch.cut)
    <2>1. /\ Fits(m) /\ Advanced(c, m) /\ m.watch.cut = u.cut
          /\ m.rev = c.rev /\ m.shown = c.shown /\ m.stream = c.stream
      BY <1>1, PassedFits
    <2>2. n = IF u.snap THEN Resync(Publish(m, 0)) ELSE Publish(m, u.cut)
      BY <1>3 DEF Apply
    <2> HIDE DEF m
    <2>3. Before(m, m.rev) = Before(c, c.rev)
      BY <2>1 DEF Before
    <2>4. m \in Cores /\ \A s \in Streams : Subscribed(m, s) <=> Subscribed(c, s)
      BY <2>1 DEF Fits, Subscribed
    <2>5. CASE u.snap
      <3> DEFINE p == Publish(m, 0)
      <3>1. Fits(p) /\ Advanced(m, p) /\ p.watch = m.watch /\ Before(p, p.rev) = Before(m, m.rev)
        BY <2>1, PublishFits
      <3>2. n = Resync(p)
        BY <2>2, <2>5
      <3> HIDE DEF p
      <3>3. Fits(n) /\ Advanced(p, n) /\ n.watch = p.watch /\ n.rev = p.rev /\ n.shown = p.shown
            /\ \A s \in Streams : Subscribed(p, s) => n.stream[s].resync
        <4>1. LET k == Resync(p)
              IN  /\ Fits(k) /\ Advanced(p, k) /\ k.watch = p.watch /\ k.rev = p.rev /\ k.shown = p.shown
                  /\ \A s \in Streams : Subscribed(p, s) => k.stream[s].resync
          BY <3>1, ResyncFits
        <4> HIDE DEF n
        <4>2. QED
          BY <3>2, <4>1
      <3> HIDE DEF n
      <3>4. Advanced(c, n) /\ Advanced(c, p)
        BY <1>1, <2>1, <2>4, <3>1, <3>3, AdvancedTwice DEF Fits
      <3>5. \A s \in Streams : Subscribed(c, s) => n.stream[s].resync
        BY <1>1, <3>1, <3>3, <3>4, PlacesKept DEF Fits
      <3>6. Before(n, n.rev) = Before(c, c.rev) /\ n.watch.cut = u.cut
        BY <2>1, <2>3, <3>1, <3>3 DEF Before
      <3>7. Before(n, n.rev) <= n.watch.cut
        BY <1>1, <1>3, <3>6
      <3>8. QED
        BY <1>3, <3>3, <3>4, <3>5, <3>6, <3>7 DEF n
    <2>6. CASE ~u.snap
      <3>1. u.cut \in Nat /\ Before(m, m.rev) < u.cut /\ u.cut # 0
        BY <1>1, <1>3, <2>3
      <3>2. n = Publish(m, u.cut)
        BY <2>2, <2>6, SMTT(40)
      <3> HIDE DEF n
      <3>3. /\ Fits(n) /\ Advanced(m, n) /\ n.watch = m.watch
            /\ Before(n, n.rev) = u.cut
            /\ \A s \in Streams : Subscribed(m, s) /\ ~n.stream[s].resync =>
                 n.stream[s].q = Append(m.stream[s].q, [rev |-> m.rev + 1, cut |-> u.cut])
        <4> DEFINE e == u.cut
        <4>0. e \in Nat /\ (e = 0 \/ Before(m, m.rev) < e)
          BY <3>1
        <4> HIDE DEF e
        <4>1. LET k == Publish(m, e)
              IN  /\ Fits(k) /\ Advanced(m, k) /\ k.watch = m.watch
                  /\ Before(k, k.rev) = IF e = 0 THEN Before(m, m.rev) ELSE e
                  /\ \A s \in Streams : Subscribed(m, s) /\ ~k.stream[s].resync =>
                       k.stream[s].q = Append(m.stream[s].q, [rev |-> m.rev + 1, cut |-> e])
          BY <2>1, <4>0, PublishFits, ZenonT(40)
        <4>2. QED
          BY <3>1, <3>2, <4>1 DEF e
      <3>4. Advanced(c, n)
        BY <1>1, <2>1, <2>4, <3>3, AdvancedTwice DEF Fits
      <3>5. n.watch.cut = u.cut /\ Before(n, n.rev) <= n.watch.cut
        BY <1>1, <2>1, <3>3
      <3>6. ASSUME NEW s \in Streams, NEW d \in Nat, Subscribed(c, s), ~n.stream[s].resync,
                   Holds(c, s, d), u.cut <= c.watch.cut + 1 \/ u.cut <= d + 1
            PROVE  Holds(n, s, d)
        <4> DEFINE f == [rev |-> m.rev + 1, cut |-> u.cut]
                   q == c.stream[s].q
        <4>1. n.stream[s].q = Append(q, f) /\ q \in Seq(Published) /\ f \in Published
          BY <1>1, <2>1, <2>4, <3>3, <3>6, PartsOfSubscriber DEF Published
        <4>2. f.cut = u.cut
          OBVIOUS
        <4> HIDE DEF f, q
        <4>3. Len(q) \in Nat /\ DOMAIN q = 1 .. Len(q) /\ DOMAIN n.stream[s].q = 1 .. Len(q) + 1
              /\ n.stream[s].q[Len(q) + 1] = f /\ \A i \in 1 .. Len(q) : n.stream[s].q[i] = q[i]
          BY <4>1
        <4>4. ASSUME NEW x \in d + 1 .. n.watch.cut
              PROVE  \E i \in DOMAIN n.stream[s].q : n.stream[s].q[i].cut = x
          <5>1. x \in d + 1 .. c.watch.cut \/ x = u.cut
            BY <1>1, <1>3, <3>5, <3>6
          <5>2. CASE x \in d + 1 .. c.watch.cut
            <6>1. PICK i \in DOMAIN q : q[i].cut = x
              BY <3>6, <5>2 DEF Holds, q
            <6>2. i \in DOMAIN n.stream[s].q /\ n.stream[s].q[i] = q[i]
              BY <4>3, <6>1
            <6>3. QED
              BY <6>1, <6>2
          <5>3. CASE x = u.cut
            <6>1. Len(q) + 1 \in DOMAIN n.stream[s].q
              BY <4>3
            <6>2. QED
              BY <4>2, <4>3, <5>3, <6>1
          <5>4. QED
            BY <5>1, <5>2, <5>3
        <4>5. QED
          BY <4>4 DEF Holds
      <3>7. QED
        BY <1>3, <2>6, <3>3, <3>4, <3>5, <3>6 DEF n
    <2>7. QED
      BY <1>1, <2>5, <2>6
  <1>4. QED
    BY <1>2, <1>3

\* The updates that were kept, applied in turn.
Applied(c, p, m, g) == g = [i \in 0 .. m |-> IF i = 0 THEN c ELSE Apply(g[i - 1], p[i])]

\* There is a sequence of Cores that apply the first m updates one by one.
LEMMA AppliedExists ==
  ASSUME NEW c, NEW p
  PROVE  \A m \in Nat : \E g : Applied(c, p, m, g)
  <1> DEFINE T == {m \in Nat : \E g : Applied(c, p, m, g)}
  <1>1. 0 \in T
    <2> DEFINE g == [i \in 0 .. 0 |-> c]
    <2>1. g = [i \in 0 .. 0 |-> IF i = 0 THEN c ELSE Apply(g[i - 1], p[i])]
      OBVIOUS
    <2>2. Applied(c, p, 0, g)
      BY <2>1 DEF Applied
    <2>3. QED
      BY <2>2
  <1>2. ASSUME NEW m \in Nat, m \in T PROVE m + 1 \in T
    <2>1. PICK g : Applied(c, p, m, g)
      BY <1>2
    <2> DEFINE h == [i \in 0 .. m + 1 |-> IF i = m + 1 THEN Apply(g[m], p[m + 1]) ELSE g[i]]
    <2>2. ASSUME NEW i \in 0 .. m + 1
          PROVE  h[i] = IF i = 0 THEN c ELSE Apply(h[i - 1], p[i])
      <3>1. CASE i = m + 1
        <4>1. h[i] = Apply(g[m], p[i]) /\ i - 1 = m /\ m \in 0 .. m + 1 /\ m # m + 1
          BY <3>1
        <4>2. h[i - 1] = g[m]
          BY <4>1
        <4>3. QED
          BY <3>1, <4>1, <4>2
      <3>2. CASE i # m + 1
        <4>1. i \in 0 .. m /\ h[i] = g[i] /\ (i # 0 => i - 1 \in 0 .. m + 1 /\ i - 1 # m + 1)
          BY <3>2
        <4>2. i # 0 => h[i - 1] = g[i - 1]
          BY <4>1
        <4>3. g[i] = IF i = 0 THEN c ELSE Apply(g[i - 1], p[i])
          BY <2>1, <4>1 DEF Applied
        <4>4. QED
          BY <4>1, <4>2, <4>3
      <3>3. QED
        BY <3>1, <3>2
    <2>3. h = [i \in 0 .. m + 1 |-> h[i]]
      OBVIOUS
    <2> HIDE DEF h
    <2>4. h = [i \in 0 .. m + 1 |-> IF i = 0 THEN c ELSE Apply(h[i - 1], p[i])]
      BY <2>2, <2>3
    <2>5. QED
      BY <2>4 DEF Applied
  <1>3. Nat \subseteq T
    <2> HIDE DEF T
    <2>1. QED
      BY <1>1, <1>2, EveryNatural
  <1>4. QED
    BY <1>3

\* What the Core does with the updates held back during initialisation is
\* to apply them one by one.
LEMMA FlushedIsApplied ==
  ASSUME NEW c, NEW p \in Seq(Updates)
  PROVE  \E g : Applied(c, p, Len(p), g) /\ Flushed(c, p) = g[Len(p)]
  <1> DEFINE F == CHOOSE g : g = [i \in 0 .. Len(p) |-> IF i = 0 THEN c ELSE Apply(g[i - 1], p[i])]
  <1>1. Flushed(c, p) = F[Len(p)]
    BY DEF Flushed
  <1>2. F = CHOOSE g : Applied(c, p, Len(p), g)
    BY DEF Applied
  <1>3. Len(p) \in Nat
    OBVIOUS
  <1> HIDE DEF F
  <1>4. Applied(c, p, Len(p), F)
    BY <1>2, <1>3, AppliedExists
  <1>5. QED
    BY <1>1, <1>4

\* They leave nothing out behind b.
LEMMA FlushedFits ==
  ASSUME NEW c, Fits(c), NEW p \in Seq(Updates), c.watch.on, Before(c, c.rev) <= c.watch.cut,
         InOrder(p), NEW k \in Nat, \A i \in DOMAIN p : p[i].cut <= k, c.watch.cut <= k,
         NEW b \in Nat, c.watch.cut <= b, p # << >> => p[1].snap \/ p[1].cut <= b + 1
  PROVE  LET n == Flushed(c, p)
         IN  /\ Fits(n) /\ Advanced(c, n) /\ c.watch.cut <= n.watch.cut /\ n.watch.cut <= k
             /\ p # << >> => p[Len(p)].cut <= n.watch.cut
             /\ Before(n, n.rev) <= n.watch.cut
             /\ \A s \in Streams, d \in Nat :
                  b <= d /\ Subscribed(c, s) /\ ~n.stream[s].resync => Holds(n, s, d)
  <1>1. PICK g : Applied(c, p, Len(p), g) /\ Flushed(c, p) = g[Len(p)]
    BY FlushedIsApplied
  <1> DEFINE G(i, n) ==
               /\ Fits(n) /\ Advanced(c, n) /\ c.watch.cut <= n.watch.cut /\ n.watch.cut <= k
               /\ i # 0 => p[i].cut <= n.watch.cut
               /\ Before(n, n.rev) <= n.watch.cut
               /\ \A s \in Streams, d \in Nat :
                    b <= d /\ Subscribed(c, s) /\ ~n.stream[s].resync => Holds(n, s, d)
             T == {i \in Nat : i <= Len(p) => G(i, g[i])}
  <1>2. c \in Cores /\ Len(p) \in Nat /\ DOMAIN p = 1 .. Len(p) /\ c.watch.cut \in Nat
    <2>1. c \in Cores
      BY DEF Fits
    <2>2. QED
      BY <2>1, PartsOfCore DEF Watches
  <1>3. 0 \in T
    <2>1. g[0] = c
      BY <1>1, <1>2 DEF Applied
    <2>2. Advanced(c, c) /\ c.watch.cut <= c.watch.cut
      BY <1>2, AdvancedSelf
    <2>3. ASSUME NEW s \in Streams, NEW d \in Nat, b <= d PROVE Holds(c, s, d)
      <3>1. d + 1 .. c.watch.cut = {}
        BY <1>2, <2>3
      <3>2. QED
        BY <3>1 DEF Holds
    <2>4. G(0, c)
      BY <2>2, <2>3
    <2> HIDE DEF G
    <2>5. QED
      BY <2>1, <2>4
  <1>4. ASSUME NEW i \in Nat, i \in T PROVE i + 1 \in T
    <2>1. SUFFICES ASSUME i + 1 <= Len(p) PROVE G(i + 1, g[i + 1])
      <3> HIDE DEF G
      <3>1. QED
        OBVIOUS
    <2> DEFINE m == g[i]
               u == p[i + 1]
               n == Apply(m, u)
    <2>2. G(i, m)
      <3>1. i <= Len(p)
        BY <1>2, <2>1
      <3> HIDE DEF G
      <3>2. QED
        BY <1>4, <3>1
    <2>3. g[i + 1] = n
      <3>1. i + 1 \in 0 .. Len(p) /\ i + 1 # 0 /\ (i + 1) - 1 = i
        BY <1>2, <2>1
      <3> HIDE DEF G
      <3>2. QED
        BY <1>1, <3>1 DEF Applied
    <2>4. u \in Updates /\ i + 1 \in DOMAIN p /\ u.cut \in Nat /\ u.cut <= k
      <3>1. i + 1 \in DOMAIN p
        BY <1>2, <2>1
      <3>2. u \in Updates /\ u.cut <= k
        BY <3>1
      <3>3. QED
        BY <3>1, <3>2 DEF Updates
    <2>5. m \in Cores /\ m.watch.on /\ m.watch.cut \in Nat
      <3>1. m \in Cores
        BY <2>2 DEF Fits
      <3>2. m.watch = [c.watch EXCEPT !.cut = m.watch.cut] /\ c.watch \in Watches /\ m.watch \in Watches
        BY <1>2, <2>2, <3>1, PartsOfCore, ZenonT(40) DEF Advanced
      <3> HIDE DEF m
      <3>3. QED
        BY <3>1, <3>2, SMTT(40) DEF Watches
    <2>6. u.snap \/ u.cut <= m.watch.cut + 1 \/ u.cut <= b + 1
      <3>1. CASE i = 0
        BY <3>1, <1>2, <2>4
      <3>2. CASE i # 0
        <4>1. u.snap \/ u.cut = p[i].cut + 1
          <5>1. i + 1 > 1 /\ (i + 1) - 1 = i
            BY <3>2
          <5>2. QED
            BY <2>4, <5>1 DEF InOrder
        <4>2. p[i].cut <= m.watch.cut /\ p[i].cut \in Nat
          <5>1. i \in DOMAIN p
            BY <3>2, <1>2, <2>1
          <5>2. p[i] \in Updates
            BY <5>1
          <5>3. QED
            BY <2>2, <3>2, <5>2 DEF Updates
        <4> HIDE DEF G, m, u, n
        <4>3. QED
          BY <2>5, <4>1, <4>2, SMTT(40)
      <3>3. QED
        BY <3>1, <3>2
    <2>7. /\ Fits(n) /\ Advanced(m, n)
          /\ n.watch.cut = IF u.cut <= m.watch.cut THEN m.watch.cut ELSE u.cut
          /\ Before(n, n.rev) <= n.watch.cut
          /\ \A s \in Streams, d \in Nat :
               /\ Subscribed(m, s) /\ ~n.stream[s].resync /\ Holds(m, s, d)
               /\ u.snap \/ u.cut <= m.watch.cut + 1 \/ u.cut <= d + 1
               => Holds(n, s, d)
      <3>1. Fits(m) /\ Before(m, m.rev) <= m.watch.cut
        BY <2>2
      <3> HIDE DEF G, m, u
      <3>2. QED
        BY <2>4, <2>5, <3>1, ApplyFits
    <2>8. Advanced(c, n) /\ Advanced(c, m) /\ n \in Cores
      <3>1. n \in Cores
        BY <2>7 DEF Fits
      <3>2. Advanced(c, m)
        BY <2>2
      <3> HIDE DEF G, m, u, n
      <3>3. QED
        BY <1>2, <2>5, <2>7, <3>1, <3>2, AdvancedTwice
    <2>9. c.watch.cut <= n.watch.cut /\ n.watch.cut <= k /\ u.cut <= n.watch.cut
      <3>1. c.watch.cut <= m.watch.cut /\ m.watch.cut <= k
        BY <2>2
      <3> HIDE DEF G, m, u, n
      <3>2. QED
        BY <1>2, <2>4, <2>5, <2>7, <3>1
    <2>10. ASSUME NEW s \in Streams, NEW d \in Nat, b <= d, Subscribed(c, s), ~n.stream[s].resync
           PROVE  Holds(n, s, d)
      <3>0. \A t \in Streams, e \in Nat :
              b <= e /\ Subscribed(c, t) /\ ~m.stream[t].resync => Holds(m, t, e)
        BY <2>2
      <3> HIDE DEF G, m, u, n
      <3>1. Subscribed(m, s)
        BY <1>2, <2>5, <2>8, <2>10, PlacesKept, SMTT(40)
      <3>2. ~m.stream[s].resync
        BY <2>7, <2>10, ZenonT(40) DEF Advanced
      <3>3. Holds(m, s, d)
        BY <2>10, <3>0, <3>2
      <3>4. u.snap \/ u.cut <= m.watch.cut + 1 \/ u.cut <= d + 1
        BY <2>4, <2>5, <2>6, <2>10
      <3>5. QED
        BY <2>7, <2>10, <3>1, <3>3, <3>4
    <2> HIDE DEF m, n
    <2>11. QED
      <3>1. G(i + 1, n)
        BY <2>7, <2>8, <2>9, <2>10
      <3> HIDE DEF G
      <3>2. QED
        BY <2>3, <3>1
  <1>5. Nat \subseteq T
    <2> HIDE DEF T
    <2>1. QED
      BY <1>3, <1>4, EveryNatural
  <1>6. G(Len(p), g[Len(p)])
    <2>1. Len(p) \in T /\ Len(p) <= Len(p)
      BY <1>2, <1>5
    <2> HIDE DEF G
    <2>2. QED
      BY <2>1
  <1>7. p # << >> => Len(p) # 0
    OBVIOUS
  <1>8. QED
    BY <1>1, <1>6, <1>7

-----------------------------------------------------------------------------
(* A subscriber begins, or goes on after a resynchronisation.              *)

\* A Core in which only the subscribers and the watch changed.
LEMMA SubscribersFit ==
  ASSUME NEW c, Fits(c), NEW n \in Cores, n.rev = c.rev, n.shown = c.shown,
         \A t \in Streams :
           /\ Len(n.stream[t].q) <= FrameLimit
           /\ Subscribed(n, t) /\ ~n.stream[t].resync => FramesFollow(c, n.stream[t].q)
  PROVE  Fits(n) /\ \A i : Before(n, i) = Before(c, i)
  <1>1. \A i : Before(n, i) = Before(c, i)
    BY SMTT(40) DEF Before
  <1>2. \A t \in Streams : Faithful(n, t)
    BY <1>1 DEF Faithful, FramesFollow
  <1>3. CoreFits(n)
    BY <1>1, <1>2, SMTT(40) DEF Fits, CoreFits
  <1>4. QED
    BY <1>1, <1>3 DEF Fits, Bounded

\* What a queue of a subscriber is.
LEMMA QueueFollows ==
  ASSUME NEW c, Fits(c), NEW s \in Streams, Subscribed(c, s), ~c.stream[s].resync
  PROVE  FramesFollow(c, c.stream[s].q)
  BY DEF Fits, CoreFits, Faithful, FramesFollow

\* An empty queue goes on from the revision of the Core.
LEMMA EmptyFollows ==
  ASSUME NEW c \in Cores
  PROVE  FramesFollow(c, << >>)
  <1>1. c.rev \in Nat /\ Len(<< >>) = 0 /\ DOMAIN << >> = {}
    BY PartsOfCore
  <1>2. QED
    BY <1>1 DEF FramesFollow

\* The end of a queue, behind m frames.
LEMMA EndFollows ==
  ASSUME NEW c \in Cores, NEW q \in Seq(Published), FramesFollow(c, q), NEW m \in 0 .. Len(q),
         NEW e \in Seq(Published), Len(e) = Len(q) - m, \A i \in 1 .. Len(e) : e[i] = q[i + m]
  PROVE  FramesFollow(c, e)
  <1>1. c.rev \in Nat /\ Len(q) \in Nat /\ Len(q) <= c.rev /\ DOMAIN q = 1 .. Len(q)
        /\ DOMAIN e = 1 .. Len(e) /\ Len(e) \in Nat
    BY PartsOfCore DEF FramesFollow
  <1>2. Len(e) <= c.rev
    BY <1>1
  <1>3. ASSUME NEW i \in DOMAIN e
        PROVE  /\ e[i].rev = c.rev - Len(e) + i
               /\ IF e[i].cut = 0 THEN c.shown[e[i].rev] = Before(c, e[i].rev - 1)
                  ELSE c.shown[e[i].rev] = e[i].cut /\ Before(c, e[i].rev - 1) < e[i].cut
    <2>1. i + m \in DOMAIN q /\ e[i] = q[i + m] /\ c.rev - Len(q) + (i + m) = c.rev - Len(e) + i
      <3>1. i \in 1 .. Len(e) /\ i + m \in 1 .. Len(q) /\ c.rev - Len(q) + (i + m) = c.rev - Len(e) + i
        BY <1>1, SMTT(40)
      <3>2. QED
        BY <1>1, <3>1
    <2>2. QED
      BY <2>1 DEF FramesFollow
  <1>4. QED
    BY <1>2, <1>3 DEF FramesFollow

\* The frames that a snapshot of cut d leaves in a queue.
LEMMA LaterFollows ==
  ASSUME NEW c, Fits(c), NEW s \in Streams, Subscribed(c, s), ~c.stream[s].resync,
         NEW d \in Nat, Before(c, Start(c, s)) <= d
  PROVE  LET q == c.stream[s].q
             r == Control(c, q, d)
             e == Later(q, r)
         IN  /\ r \in Start(c, s) .. c.rev /\ r \in 0 .. c.rev /\ Before(c, r) <= d
             /\ e \in Seq(Published) /\ Len(e) <= FrameLimit /\ Len(e) = c.rev - r
             /\ FramesFollow(c, e)
             /\ \A x \in Nat : x > d /\ (\E i \in DOMAIN q : q[i].cut = x)
                                  => \E i \in DOMAIN e : e[i].cut = x
  <1> DEFINE q == c.stream[s].q
             r == Control(c, q, d)
             e == Later(q, r)
             m == Len(q) - (c.rev - r)
  <1>1. c \in Cores /\ CoreFits(c) /\ FramesFollow(c, q) /\ q \in Seq(Published) /\ Len(q) \in Nat
        /\ Len(q) <= FrameLimit /\ c.rev \in Nat /\ DOMAIN q = 1 .. Len(q) /\ Len(q) <= c.rev
    <2>1. c \in Cores /\ CoreFits(c) /\ Len(q) <= FrameLimit
      BY DEF Fits, Bounded
    <2>2. c.stream[s] \in Subscribers /\ c.rev \in Nat
      BY <2>1, PartsOfCore
    <2>3. FramesFollow(c, q)
      BY QueueFollows
    <2>4. q \in Seq(Published)
      BY <2>2, PartsOfSubscriber
    <2> HIDE DEF q
    <2>5. QED
      BY <2>1, <2>2, <2>3, <2>4 DEF FramesFollow
  <1>2. Start(c, s) = c.rev - Len(q)
    BY DEF Start
  <1> HIDE DEF q
  <1>3. r \in c.rev - Len(q) .. c.rev /\ Before(c, r) <= d
        /\ \A i \in DOMAIN q : q[i].rev <= r => q[i].cut <= d
    BY <1>1, <1>2, ControlPrecedes
  <1> HIDE DEF r
  <1>4. r \in 0 .. c.rev /\ m \in 0 .. Len(q)
    BY <1>1, <1>3
  <1>5. /\ e \in Seq(Published) /\ Len(e) = c.rev - r
        /\ \A i \in 1 .. c.rev - r : e[i] = q[i + m]
    BY <1>1, <1>3, LaterIsEnd DEF FramesFollow
  <1> HIDE DEF e
  <1>6. FramesFollow(c, e) /\ Len(e) <= FrameLimit
    <2>1. Len(e) = Len(q) - m /\ Len(e) <= FrameLimit
      BY <1>1, <1>4, <1>5, StreamAssumption, SMTT(40)
    <2>2. \A i \in 1 .. Len(e) : e[i] = q[i + m]
      BY <1>5
    <2> HIDE DEF m
    <2>3. QED
      BY <1>1, <1>4, <1>5, <2>1, <2>2, EndFollows
  <1>7. ASSUME NEW x \in Nat, x > d, NEW i \in DOMAIN q, q[i].cut = x
        PROVE  \E j \in DOMAIN e : e[j].cut = x
    <2>1. q[i].rev = c.rev - Len(q) + i /\ ~ (q[i].cut <= d)
      BY <1>1, <1>7 DEF FramesFollow
    <2>2. ~ (c.rev - Len(q) + i <= r)
      BY <1>3, <2>1
    <2>3. i - m \in 1 .. c.rev - r /\ (i - m) + m = i
      <3>1. i \in 1 .. Len(q) /\ Len(q) \in Nat /\ Len(q) <= c.rev /\ c.rev \in Nat
            /\ r \in 0 .. c.rev /\ ~ (c.rev - Len(q) + i <= r)
        BY <1>1, <1>4, <1>7, <2>2
      <3>2. QED
        BY <3>1, SMTT(40)
    <2>4. e[i - m] = q[i] /\ i - m \in DOMAIN e
      <3>1. e[i - m] = q[(i - m) + m]
        BY <1>5, <2>3
      <3>2. DOMAIN e = 1 .. c.rev - r
        BY <1>5
      <3>3. QED
        BY <2>3, <3>1, <3>2
    <2>5. QED
      BY <1>7, <2>4
  <1>8. QED
    BY <1>2, <1>3, <1>4, <1>5, <1>6, <1>7 DEF q, r, e

\* The control state that goes with a snapshot, whatever the queue.
LEMMA ControlIsRevision ==
  ASSUME NEW c \in Cores, NEW q \in Seq(Published), NEW d \in Nat
  PROVE  Control(c, q, d) \in Int
  <1> DEFINE after == {i \in DOMAIN q : q[i].cut > d}
  <1>1. CASE after = {}
    <2>1. Control(c, q, d) = c.rev
      BY <1>1 DEF Control
    <2>2. QED
      BY <2>1, PartsOfCore
  <1>2. CASE after # {}
    <2>1. Control(c, q, d) = q[Min(after)].rev - 1
      BY <1>2 DEF Control
    <2>2. Min(after) \in after
      <3>1. after \in SUBSET Nat
        OBVIOUS
      <3> HIDE DEF after
      <3>2. QED
        BY <1>2, <3>1, LeastPosition
    <2>3. q[Min(after)] \in Published
      BY <2>2
    <2>4. q[Min(after)].rev \in Nat
      BY <2>3 DEF Published
    <2> HIDE DEF after
    <2>5. QED
      BY <2>1, <2>4
  <1>3. QED
    BY <1>1, <1>2

\* The greater of two.
LEMMA GreaterOfTwo ==
  ASSUME NEW a \in Int, NEW b \in Int
  PROVE  Max({a, b}) \in {a, b} /\ Max({a, b}) >= a /\ Max({a, b}) >= b
  <1>1. \E x \in {a, b} : \A y \in {a, b} : x >= y
    <2>1. CASE a >= b
      BY <2>1
    <2>2. CASE b >= a
      BY <2>2
    <2>3. QED
      BY <2>1, <2>2
  <1>2. Max({a, b}) \in {a, b} /\ \A y \in {a, b} : Max({a, b}) >= y
    BY <1>1 DEF Max
  <1>3. QED
    BY <1>2

\* A stream joins with its snapshot of cut d.
JoinedCore(c, s, d) == [c EXCEPT !.stream[s] = Joined(@, d, Control(c, c.stream[s].q, d))]

\* A subscriber that joins with a snapshot of d starts at the revision that
\* shows d, and its queue keeps what lies behind d.
LEMMA JoinedFits ==
  ASSUME NEW c, Fits(c), NEW s \in Streams, c.stream[s].at \in {"waiting", "reading"}, NEW d \in Nat,
         ~c.stream[s].resync => Before(c, Start(c, s)) <= d,
         NEW r, r = Control(c, c.stream[s].q, d),
         NEW n, n = JoinedCore(c, s, d)
  PROVE      /\ Fits(n) /\ n.rev = c.rev /\ n.shown = c.shown /\ n.watch = c.watch
             /\ \A t \in Streams \ {s} : n.stream[t] = c.stream[t]
             /\ n.stream[s].at = "live" /\ n.stream[s].busy /\ n.stream[s].cut = d
             /\ n.stream[s].resync = c.stream[s].resync /\ n.stream[s].resnap = c.stream[s].resnap
             /\ ~n.stream[s].resync => /\ Start(n, s) = r /\ r \in 0 .. c.rev /\ Before(c, r) <= d
                                       /\ \A e \in Nat : d <= e /\ Holds(c, s, e) => Holds(n, s, e)
  <1> DEFINE q == c.stream[s].q
             st == Joined(c.stream[s], d, r)
  <1>1. c \in Cores /\ c.stream[s] \in Subscribers /\ c.stream \in [Streams -> Subscribers]
        /\ q \in Seq(Published) /\ c.rev \in Nat /\ c.shown \in Seq(Nat) /\ c.watch \in Watches
        /\ Len(q) <= FrameLimit /\ Len(q) \in Nat
    <2>1. c \in Cores /\ Len(q) <= FrameLimit
      BY DEF Fits, Bounded
    <2>2. QED
      BY <2>1, PartsOfCore, PartsOfSubscriber
  <1>2. Subscribed(c, s)
    BY DEF Subscribed
  <1> DEFINE e == Later(q, r)
  <1>3. e \in Seq(Published) /\ Len(e) <= Len(q)
    <2> HIDE DEF q
    <2>1. QED
      BY <1>1, LaterIsShorter
  <1>4. n = [rev |-> c.rev, shown |-> c.shown, watch |-> c.watch,
             stream |-> [c.stream EXCEPT ![s] = st]]
    <2>1. n = [c EXCEPT !.stream[s] = st]
      BY DEF JoinedCore
    <2> HIDE DEF st
    <2>2. QED
      BY <1>1, <2>1 DEF Cores
  <1>5. st \in Subscribers /\ st.at = "live" /\ st.busy /\ st.cut = d /\ st.q = e
        /\ st.resync = c.stream[s].resync /\ st.resnap = c.stream[s].resnap
    <2>1. st = [c.stream[s] EXCEPT !.at = "live", !.busy = TRUE, !.cut = d, !.q = e]
      BY DEF Joined
    <2> HIDE DEF st, q, e
    <2>2. QED
      BY <1>1, <1>3, <2>1 DEF Subscribers
  <1> HIDE DEF st
  <1>6. n.rev = c.rev /\ n.shown = c.shown /\ n.watch = c.watch /\ n.stream[s] = st
        /\ \A t \in Streams \ {s} : n.stream[t] = c.stream[t]
    BY <1>1, <1>4
  <1>7. n \in Cores
    <2>1. [c.stream EXCEPT ![s] = st] \in [Streams -> Subscribers]
      BY <1>1, <1>5
    <2>2. QED
      BY <1>1, <1>4, <2>1 DEF Cores
  <1>8. ASSUME ~st.resync
        PROVE  /\ r \in 0 .. c.rev /\ Before(c, r) <= d /\ FramesFollow(c, e) /\ Len(e) = c.rev - r
               /\ \A x \in Nat : x > d /\ (\E i \in DOMAIN q : q[i].cut = x)
                                    => \E i \in DOMAIN e : e[i].cut = x
    <2>1. ~c.stream[s].resync /\ Before(c, Start(c, s)) <= d
      BY <1>5, <1>8
    <2>2. QED
      BY <1>2, <2>1, LaterFollows
  <1> HIDE DEF q, e
  <1>9. Fits(n)
    <2>1. ASSUME NEW t \in Streams
          PROVE  /\ Len(n.stream[t].q) <= FrameLimit
                 /\ Subscribed(n, t) /\ ~n.stream[t].resync => FramesFollow(c, n.stream[t].q)
      <3>1. CASE t = s
        <4>1. n.stream[t].q = e /\ n.stream[t].resync = st.resync
          BY <1>5, <1>6, <3>1
        <4>2. Len(e) <= FrameLimit
          BY <1>1, <1>3, StreamAssumption
        <4>3. QED
          BY <1>8, <4>1, <4>2
      <3>2. CASE t # s
        <4>1. n.stream[t] = c.stream[t]
          BY <1>6, <3>2
        <4>2. Subscribed(n, t) => Subscribed(c, t)
          BY <4>1 DEF Subscribed
        <4>3. QED
          BY <4>1, <4>2, QueueFollows DEF Fits, Bounded
      <3>3. QED
        BY <3>1, <3>2
    <2>2. QED
      BY <1>6, <1>7, <2>1, SubscribersFit
  <1>10. ASSUME ~st.resync PROVE Start(n, s) = r
    <2>1. Start(n, s) = c.rev - Len(e)
      BY <1>5, <1>6 DEF Start
    <2>2. QED
      BY <1>1, <1>8, <1>10, <2>1
  <1>11. ASSUME ~st.resync, NEW k \in Nat, d <= k, Holds(c, s, k) PROVE Holds(n, s, k)
    <2>1. n.watch.cut = c.watch.cut /\ n.stream[s].q = e /\ c.watch.cut \in Nat
      BY <1>1, <1>5, <1>6 DEF Watches
    <2>2. ASSUME NEW x \in k + 1 .. c.watch.cut PROVE \E i \in DOMAIN e : e[i].cut = x
      <3>1. x \in Nat /\ x > d
        BY <1>11, <2>1
      <3>2. \E i \in DOMAIN q : q[i].cut = x
        BY <1>11 DEF Holds, q
      <3>3. QED
        BY <1>8, <1>11, <3>1, <3>2
    <2>3. QED
      BY <2>1, <2>2 DEF Holds
  <1>12. QED
    BY <1>5, <1>6, <1>8, <1>9, <1>10, <1>11 DEF q

\* The first to begin while the watch is initialised: what was kept is applied.
LEMMA InitializedFits ==
  ASSUME NEW c, Fits(c), NEW d \in Nat, c.watch.over => c.watch.pending # << >>
  PROVE  LET n == [c EXCEPT !.watch = Initialized(@, d)]
         IN  /\ Fits(n) /\ n.rev = c.rev /\ n.shown = c.shown /\ n.stream = c.stream
             /\ n.watch.on = c.watch.on /\ ~n.watch.initializing /\ n.watch.cut = d
             /\ n.watch.pending = << >> /\ n.watch.over = c.watch.over
             /\ n.watch.first = c.watch.first
             /\ n.watch.base \in Nat /\ d <= n.watch.base /\ (~c.watch.over => n.watch.base = d)
             /\ c.watch.over => c.watch.pending[1].snap
                                  \/ c.watch.pending[1].cut <= n.watch.base + 1
  <1> DEFINE w == c.watch
             n == [c EXCEPT !.watch = Initialized(@, d)]
             v == Initialized(w, d)
             b == Max({d, Lost(w)})
  <1>1. c \in Cores /\ w \in Watches /\ c.rev \in Nat /\ c.shown \in Seq(Nat)
        /\ c.stream \in [Streams -> Subscribers] /\ w.pending \in Seq(Updates) /\ w.over \in BOOLEAN
    <2>1. c \in Cores
      BY DEF Fits
    <2>2. QED
      BY <2>1, PartsOfCore DEF Watches
  <1>2. ASSUME w.over
        PROVE  Head(w.pending) = w.pending[1] /\ w.pending[1].cut \in Nat
               /\ w.pending[1].snap \in BOOLEAN
    <2>1. w.pending[1] \in Updates /\ Head(w.pending) = w.pending[1]
      BY <1>1, <1>2
    <2>2. QED
      BY <2>1 DEF Updates
  <1>3. b \in Int /\ d <= b /\ (~w.over => b = d)
        /\ (w.over => w.pending[1].snap \/ w.pending[1].cut <= b + 1)
    <2>1. CASE w.over /\ ~Head(w.pending).snap
      <3>1. Lost(w) = w.pending[1].cut - 1
        BY <1>2, <2>1 DEF Lost
      <3>2. Lost(w) \in Int
        BY <1>2, <2>1, <3>1
      <3>3. b \in {d, Lost(w)} /\ b >= d /\ b >= Lost(w)
        <4> DEFINE l == Lost(w)
        <4>1. l \in Int /\ d \in Int
          BY <3>2
        <4> HIDE DEF l
        <4>2. Max({d, l}) \in {d, l} /\ Max({d, l}) >= d /\ Max({d, l}) >= l
          BY <4>1, GreaterOfTwo
        <4>3. QED
          BY <4>2 DEF l
      <3> HIDE DEF b
      <3>4. QED
        BY <1>2, <2>1, <3>1, <3>2, <3>3
    <2>2. CASE w.over /\ Head(w.pending).snap
      <3>1. Lost(w) = 0
        BY <2>2 DEF Lost
      <3>2. \A l \in Int : Max({d, l}) \in {d, l} /\ Max({d, l}) >= d
        BY GreaterOfTwo
      <3>3. b \in {d, 0} /\ b >= d
        BY <3>1, <3>2
      <3> HIDE DEF b
      <3>4. QED
        BY <1>2, <2>2, <3>3
    <2>3. CASE ~w.over
      <3>1. Lost(w) = 0
        BY <2>3 DEF Lost
      <3>2. \A l \in Int : Max({d, l}) \in {d, l} /\ Max({d, l}) >= d
        BY GreaterOfTwo
      <3>3. b \in {d, 0} /\ b >= d
        BY <3>1, <3>2
      <3> HIDE DEF b
      <3>4. QED
        BY <2>3, <3>3
    <2>4. QED
      BY <1>1, <2>1, <2>2, <2>3
  <1>4. v = [w EXCEPT !.cut = d, !.base = b, !.initializing = FALSE, !.pending = << >>]
    BY DEF Initialized
  <1> HIDE DEF b
  <1>5. v \in Watches /\ v.on = w.on /\ ~v.initializing /\ v.cut = d /\ v.pending = << >>
        /\ v.over = w.over /\ v.first = w.first /\ v.base = b
    <2>1. << >> \in Seq(Updates)
      OBVIOUS
    <2> HIDE DEF v
    <2>2. QED
      BY <1>1, <1>3, <1>4, <2>1 DEF Watches
  <1>6. n = [c EXCEPT !.watch = v]
    OBVIOUS
  <1> HIDE DEF n, v
  <1>7. n \in Cores /\ n.rev = c.rev /\ n.shown = c.shown /\ n.stream = c.stream /\ n.watch = v
    BY <1>1, <1>5, <1>6 DEF Cores
  <1>8. Fits(n)
    <2>1. ASSUME NEW t \in Streams
          PROVE  /\ Len(n.stream[t].q) <= FrameLimit
                 /\ Subscribed(n, t) /\ ~n.stream[t].resync => FramesFollow(c, n.stream[t].q)
      <3>1. Subscribed(n, t) => Subscribed(c, t)
        BY <1>7 DEF Subscribed
      <3>2. QED
        BY <1>7, <3>1, QueueFollows DEF Fits, Bounded
    <2>2. QED
      BY <1>7, <2>1, SubscribersFit
  <1>9. b \in Nat
    BY <1>3
  <1>10. QED
    BY <1>3, <1>5, <1>7, <1>8, <1>9 DEF n, w

\* A subscriber that is resynchronised at once.
LEMMA ResyncedFits ==
  ASSUME NEW c, Fits(c), NEW s \in Streams
  PROVE  LET n == [c EXCEPT !.stream[s].resync = TRUE]
         IN  /\ Fits(n) /\ n.rev = c.rev /\ n.shown = c.shown /\ n.watch = c.watch
             /\ \A t \in Streams \ {s} : n.stream[t] = c.stream[t]
             /\ n.stream[s].at = c.stream[s].at /\ n.stream[s].busy = c.stream[s].busy
             /\ n.stream[s].cut = c.stream[s].cut /\ n.stream[s].resnap = c.stream[s].resnap
             /\ n.stream[s].resync
  <1> DEFINE n == [c EXCEPT !.stream[s].resync = TRUE]
             st == [c.stream[s] EXCEPT !.resync = TRUE]
  <1>1. c \in Cores /\ c.stream[s] \in Subscribers /\ c.stream \in [Streams -> Subscribers]
        /\ Len(c.stream[s].q) <= FrameLimit
    BY PartsOfCore DEF Fits, Bounded
  <1>2. n = [c EXCEPT !.stream[s] = st]
    OBVIOUS
  <1>3. st \in Subscribers /\ st.at = c.stream[s].at /\ st.busy = c.stream[s].busy /\ st.resync
        /\ st.cut = c.stream[s].cut /\ st.resnap = c.stream[s].resnap /\ st.q = c.stream[s].q
    BY <1>1 DEF Subscribers
  <1> HIDE DEF n, st
  <1>4. n \in Cores /\ n.rev = c.rev /\ n.shown = c.shown /\ n.watch = c.watch
        /\ n.stream[s] = st /\ \A t \in Streams \ {s} : n.stream[t] = c.stream[t]
    BY <1>1, <1>2, <1>3 DEF Cores
  <1>5. Fits(n)
    <2>1. ASSUME NEW t \in Streams
          PROVE  /\ Len(n.stream[t].q) <= FrameLimit
                 /\ Subscribed(n, t) /\ ~n.stream[t].resync => FramesFollow(c, n.stream[t].q)
      <3>1. CASE t = s
        BY <1>1, <1>3, <1>4, <3>1
      <3>2. CASE t # s
        <4>1. n.stream[t] = c.stream[t]
          BY <1>4, <3>2
        <4>2. Subscribed(n, t) => Subscribed(c, t)
          BY <4>1 DEF Subscribed
        <4>3. QED
          BY <4>1, <4>2, QueueFollows DEF Fits, Bounded
      <3>3. QED
        BY <3>1, <3>2
    <2>2. QED
      BY <1>4, <2>1, SubscribersFit
  <1>6. QED
    BY <1>3, <1>4, <1>5 DEF n

\* The first snapshot ends the initialisation of the watch: the updates held
\* back are applied, from the base of the watch on, and every subscriber goes on.
LEMMA BeginFits ==
  ASSUME NEW c, Fits(c), NEW s \in Streams, c.stream[s].at \in {"waiting", "reading"},
         NEW d \in Nat, NEW k \in Nat, d <= k,
         ~c.stream[s].resync => Before(c, Start(c, s)) <= d,
         c.watch.on, c.watch.initializing, Before(c, c.rev) <= d,
         InOrder(c.watch.pending), \A i \in DOMAIN c.watch.pending : c.watch.pending[i].cut <= k,
         c.watch.over => c.watch.pending # << >>,
         c.watch.pending # << >> /\ ~c.watch.over =>
           c.watch.pending[1].snap \/ c.watch.pending[1].cut <= d + 1
  PROVE  LET n == Begin(c, s, d)
             r == Control(c, c.stream[s].q, d)
             p == c.watch.pending
         IN  /\ Fits(n) /\ c.rev <= n.rev /\ \A i \in 0 .. c.rev : Before(n, i) = Before(c, i)
             /\ n.watch.on /\ ~n.watch.initializing /\ n.watch.pending = << >>
             /\ d <= n.watch.cut /\ n.watch.cut <= k /\ n.watch.base \in Nat
             /\ p # << >> => p[Len(p)].cut <= n.watch.cut
             /\ Before(n, n.rev) <= n.watch.cut
             /\ \A t \in Streams \ {s} :
                  /\ n.stream[t].at = c.stream[t].at /\ n.stream[t].busy = c.stream[t].busy
                  /\ n.stream[t].resnap = c.stream[t].resnap
                  /\ n.stream[t].cut = c.stream[t].cut
                  /\ ~Subscribed(c, t) => n.stream[t] = c.stream[t]
                  /\ Subscribed(c, t) /\ ~n.stream[t].resync =>
                       /\ ~c.stream[t].resync /\ Start(n, t) = Start(c, t)
                       /\ \A e \in Nat : n.watch.base <= e => Holds(n, t, e)
             /\ n.stream[s].at = "live" /\ n.stream[s].busy /\ n.stream[s].cut = d
             /\ n.stream[s].resnap = c.stream[s].resnap
             /\ ~n.stream[s].resync =>
                  Start(n, s) = r /\ r \in 0 .. c.rev /\ Before(c, r) <= d /\ Holds(n, s, d)
  <1> DEFINE p == c.watch.pending
             r == Control(c, c.stream[s].q, d)
             j == JoinedCore(c, s, d)
             w == [j EXCEPT !.watch = Initialized(@, d)]
             b == w.watch.base
             f == Flushed(w, p)
             n == Begin(c, s, d)
  <1>1. /\ Fits(j) /\ j.rev = c.rev /\ j.shown = c.shown /\ j.watch = c.watch
        /\ \A t \in Streams \ {s} : j.stream[t] = c.stream[t]
        /\ j.stream[s].at = "live" /\ j.stream[s].busy /\ j.stream[s].cut = d
        /\ j.stream[s].resync = c.stream[s].resync /\ j.stream[s].resnap = c.stream[s].resnap
        /\ ~j.stream[s].resync => Start(j, s) = r /\ r \in 0 .. c.rev /\ Before(c, r) <= d
    <2>1. r = Control(c, c.stream[s].q, d)
      OBVIOUS
    <2> HIDE DEF r
    <2>2. QED
      BY <2>1, JoinedFits
  <1>2. n = IF c.watch.over THEN [f EXCEPT !.stream[s].resync = TRUE] ELSE f
    BY DEF Begin, JoinedCore
  <1> HIDE DEF j, n, r
  <1>3. /\ Fits(w) /\ w.rev = c.rev /\ w.shown = c.shown /\ w.stream = j.stream
        /\ w.watch.on /\ ~w.watch.initializing /\ w.watch.cut = d
        /\ w.watch.pending = << >> /\ b \in Nat /\ d <= b /\ (~c.watch.over => b = d)
        /\ c.watch.over => p[1].snap \/ p[1].cut <= b + 1
    <2>1. LET m == [j EXCEPT !.watch = Initialized(@, d)]
          IN  /\ Fits(m) /\ m.rev = j.rev /\ m.shown = j.shown /\ m.stream = j.stream
              /\ m.watch.on = j.watch.on /\ ~m.watch.initializing /\ m.watch.cut = d
              /\ m.watch.pending = << >> /\ m.watch.over = j.watch.over
              /\ m.watch.first = j.watch.first
              /\ m.watch.base \in Nat /\ d <= m.watch.base /\ (~j.watch.over => m.watch.base = d)
              /\ j.watch.over => j.watch.pending[1].snap
                                   \/ j.watch.pending[1].cut <= m.watch.base + 1
      BY <1>1, InitializedFits
    <2> HIDE DEF w
    <2>2. /\ Fits(w) /\ w.rev = j.rev /\ w.shown = j.shown /\ w.stream = j.stream
          /\ w.watch.on = j.watch.on /\ ~w.watch.initializing /\ w.watch.cut = d
          /\ w.watch.pending = << >>
          /\ w.watch.base \in Nat /\ d <= w.watch.base /\ (~j.watch.over => w.watch.base = d)
          /\ j.watch.over => j.watch.pending[1].snap \/ j.watch.pending[1].cut <= w.watch.base + 1
      BY <2>1 DEF w
    <2>3. QED
      BY <1>1, <2>2
  <1> HIDE DEF w
  <1>4. c \in Cores /\ p \in Seq(Updates) /\ c.watch.over \in BOOLEAN /\ w \in Cores /\ c.rev \in Nat
    <2>1. c \in Cores /\ w \in Cores
      BY <1>3 DEF Fits
    <2>2. QED
      BY <2>1, PartsOfCore DEF Watches
  <1>5. \A i : Before(w, i) = Before(c, i)
    BY <1>3 DEF Before
  <1>6. /\ Fits(f) /\ Advanced(w, f) /\ d <= f.watch.cut /\ f.watch.cut <= k
        /\ p # << >> => p[Len(p)].cut <= f.watch.cut
        /\ Before(f, f.rev) <= f.watch.cut
        /\ \A t \in Streams, e \in Nat :
             b <= e /\ Subscribed(w, t) /\ ~f.stream[t].resync => Holds(f, t, e)
    <2>1. Before(w, w.rev) <= w.watch.cut /\ w.watch.cut <= k /\ w.watch.cut <= b
      BY <1>3, <1>5
    <2>2. p # << >> => p[1].snap \/ p[1].cut <= b + 1
      <3>1. CASE c.watch.over
        BY <1>3, <3>1
      <3>2. CASE ~c.watch.over
        BY <1>3, <3>2
      <3>3. QED
        BY <3>1, <3>2
    <2>3. InOrder(p) /\ \A i \in DOMAIN p : p[i].cut <= k
      OBVIOUS
    <2>4. b \in Nat /\ Fits(w) /\ w.watch.on
      BY <1>3
    <2> HIDE DEF b, p
    <2>5. /\ Fits(f) /\ Advanced(w, f) /\ w.watch.cut <= f.watch.cut /\ f.watch.cut <= k
          /\ p # << >> => p[Len(p)].cut <= f.watch.cut
          /\ Before(f, f.rev) <= f.watch.cut
          /\ \A t \in Streams, e \in Nat :
               b <= e /\ Subscribed(w, t) /\ ~f.stream[t].resync => Holds(f, t, e)
      BY <1>4, <2>1, <2>2, <2>3, <2>4, FlushedFits
    <2>6. QED
      BY <1>3, <2>5
  <1> HIDE DEF f, b
  <1>7. f \in Cores
    BY <1>6 DEF Fits
  <1>8. /\ Fits(n) /\ n.rev = f.rev /\ n.shown = f.shown /\ n.watch = f.watch
        /\ \A t \in Streams \ {s} : n.stream[t] = f.stream[t]
        /\ n.stream[s].at = f.stream[s].at /\ n.stream[s].busy = f.stream[s].busy
        /\ n.stream[s].cut = f.stream[s].cut /\ n.stream[s].resnap = f.stream[s].resnap
        /\ ~n.stream[s].resync => ~c.watch.over /\ n.stream[s] = f.stream[s]
    <2>1. CASE c.watch.over
      <3>1. n = [f EXCEPT !.stream[s].resync = TRUE]
        BY <1>2, <2>1
      <3>2. LET m == [f EXCEPT !.stream[s].resync = TRUE]
            IN  /\ Fits(m) /\ m.rev = f.rev /\ m.shown = f.shown /\ m.watch = f.watch
                /\ \A t \in Streams \ {s} : m.stream[t] = f.stream[t]
                /\ m.stream[s].at = f.stream[s].at /\ m.stream[s].busy = f.stream[s].busy
                /\ m.stream[s].cut = f.stream[s].cut /\ m.stream[s].resnap = f.stream[s].resnap
                /\ m.stream[s].resync
        BY <1>6, ResyncedFits
      <3>3. QED
        BY <3>1, <3>2
    <2>2. CASE ~c.watch.over
      BY <1>2, <1>6, <2>2
    <2>3. QED
      BY <1>4, <2>1, <2>2
  <1>9. n.rev = f.rev /\ c.rev <= n.rev /\ (\A i : Before(n, i) = Before(f, i))
        /\ \A i \in 0 .. c.rev : Before(n, i) = Before(c, i)
    <2>1. \A i : Before(n, i) = Before(f, i)
      BY <1>8, SMTT(40) DEF Before
    <2>2. c.rev <= f.rev /\ \A i \in 0 .. c.rev : Before(f, i) = Before(w, i)
      BY <1>3, <1>6, ZenonT(40) DEF Advanced
    <2>3. QED
      BY <1>5, <1>8, <2>1, <2>2
  <1>10. f.watch.on = w.watch.on /\ f.watch.initializing = w.watch.initializing
         /\ f.watch.base = w.watch.base /\ f.watch.pending = w.watch.pending
    BY <1>4, <1>6, <1>7, PlacesKept
  <1>11. ASSUME NEW t \in Streams
         PROVE  /\ f.stream[t].at = w.stream[t].at /\ f.stream[t].busy = w.stream[t].busy
                /\ f.stream[t].cut = w.stream[t].cut /\ f.stream[t].resnap = w.stream[t].resnap
                /\ ~Subscribed(w, t) => f.stream[t] = w.stream[t]
                /\ w.stream[t].resync => f.stream[t].resync
                /\ Subscribed(w, t) /\ ~f.stream[t].resync => Start(f, t) = Start(w, t)
    <2>1. /\ f.stream[t].at = w.stream[t].at /\ f.stream[t].busy = w.stream[t].busy
          /\ f.stream[t].cut = w.stream[t].cut /\ f.stream[t].resnap = w.stream[t].resnap
      BY <1>4, <1>6, <1>7, PlacesKept
    <2>2. QED
      BY <1>6, <2>1, Zenon DEF Advanced
  <1>12. ASSUME NEW t \in Streams \ {s}
         PROVE  /\ n.stream[t].at = c.stream[t].at /\ n.stream[t].busy = c.stream[t].busy
                /\ n.stream[t].resnap = c.stream[t].resnap
                /\ n.stream[t].cut = c.stream[t].cut
                /\ ~Subscribed(c, t) => n.stream[t] = c.stream[t]
                /\ Subscribed(c, t) /\ ~n.stream[t].resync =>
                     /\ ~c.stream[t].resync /\ Start(n, t) = Start(c, t)
                     /\ \A e \in Nat : n.watch.base <= e => Holds(n, t, e)
    <2>1. n.stream[t] = f.stream[t] /\ w.stream[t] = c.stream[t]
      BY <1>1, <1>3, <1>8
    <2>2. Subscribed(w, t) <=> Subscribed(c, t)
      BY <2>1 DEF Subscribed
    <2>3. Start(n, t) = Start(f, t) /\ Start(w, t) = Start(c, t)
      BY <1>3, <1>8, <2>1 DEF Start
    <2>4. \A e \in Nat : Holds(n, t, e) <=> Holds(f, t, e)
      BY <1>8, <2>1 DEF Holds
    <2>5. n.watch.base = b
      BY <1>8, <1>10 DEF b
    <2>6. QED
      BY <1>6, <1>11, <2>1, <2>2, <2>3, <2>4, <2>5
  <1>13. /\ n.stream[s].at = "live" /\ n.stream[s].busy /\ n.stream[s].cut = d
         /\ n.stream[s].resnap = c.stream[s].resnap
         /\ ~n.stream[s].resync =>
              Start(n, s) = r /\ r \in 0 .. c.rev /\ Before(c, r) <= d /\ Holds(n, s, d)
    <2>1. w.stream[s] = j.stream[s]
      BY <1>3
    <2>2. Subscribed(w, s)
      BY <1>1, <2>1 DEF Subscribed
    <2>3. ASSUME ~n.stream[s].resync
          PROVE  Start(n, s) = r /\ r \in 0 .. c.rev /\ Before(c, r) <= d /\ Holds(n, s, d)
      <3>1. n.stream[s] = f.stream[s] /\ ~w.stream[s].resync /\ b = d
        BY <1>3, <1>8, <1>11, <2>3
      <3>2. Start(n, s) = Start(w, s) /\ Start(w, s) = Start(j, s)
        <4>1. Start(n, s) = Start(f, s)
          BY <1>8, <3>1 DEF Start
        <4>2. Start(f, s) = Start(w, s)
          BY <1>11, <2>2, <2>3, <3>1
        <4>3. Start(w, s) = Start(j, s)
          BY <1>1, <1>3 DEF Start
        <4>4. QED
          BY <4>1, <4>2, <4>3
      <3>3. Holds(f, s, d)
        BY <1>3, <1>6, <2>2, <2>3, <3>1
      <3>4. Holds(n, s, d)
        BY <1>8, <3>1, <3>3 DEF Holds
      <3>5. QED
        BY <1>1, <2>1, <3>1, <3>2, <3>4
    <2>4. QED
      BY <1>1, <1>8, <1>11, <2>1, <2>3
  <1>14. n.watch.on /\ ~n.watch.initializing /\ n.watch.pending = << >>
         /\ d <= n.watch.cut /\ n.watch.cut <= k /\ n.watch.base \in Nat
         /\ (p # << >> => p[Len(p)].cut <= n.watch.cut)
         /\ Before(n, n.rev) <= n.watch.cut
    BY <1>3, <1>6, <1>8, <1>9, <1>10 DEF b
  <1>15. QED
    BY <1>8, <1>9, <1>12, <1>13, <1>14 DEF n, r

-----------------------------------------------------------------------------
(* What is on its way, and the parts of the invariant one by one.          *)

\* A post is of one kind.
LEMMA KindsDiffer ==
  ASSUME NEW x \in Posts
  PROVE  /\ x \in Updates <=> x.kind = "update"
         /\ x \in Unwatched <=> x.kind = "unwatched"
         /\ x \in Watched <=> x.kind = "watched"
         /\ x \in Snapshots <=> x.kind = "snapshot"
  BY DEF Posts, Updates, Unwatched, Watched, Snapshots

\* A snapshot is that of its own subscriber.
LEMMA SnapshotIsOf ==
  ASSUME NEW x \in Posts, NEW s \in Streams
  PROVE  x \in SnapshotOf(s) <=> x \in Snapshots /\ x.stream = s
  <1>1. CASE x \in Snapshots
    BY <1>1 DEF Snapshots, SnapshotOf
  <1>2. CASE x \notin Snapshots
    <2>1. x.kind # "snapshot"
      BY <1>2, KindsDiffer
    <2>2. QED
      BY <1>2, <2>1 DEF SnapshotOf
  <1>3. QED
    BY <1>1, <1>2

\* What a queue holds when an element is put behind it, or the first is taken.
LEMMA Appended ==
  ASSUME NEW T, NEW q \in Seq(T), NEW x \in T
  PROVE  LET p == Append(q, x)
         IN  /\ p \in Seq(T) /\ Len(p) = Len(q) + 1 /\ Len(q) \in Nat
             /\ DOMAIN q = 1 .. Len(q) /\ DOMAIN p = 1 .. Len(q) + 1
             /\ p[Len(q) + 1] = x /\ \A i \in DOMAIN q : p[i] = q[i] /\ i \in DOMAIN p
             /\ \A i \in DOMAIN p : i \in DOMAIN q \/ i = Len(q) + 1
  <1>1. Len(q) \in Nat /\ DOMAIN q = 1 .. Len(q)
    OBVIOUS
  <1>2. Append(q, x) \in Seq(T) /\ Len(Append(q, x)) = Len(q) + 1
        /\ Append(q, x)[Len(q) + 1] = x /\ \A i \in 1 .. Len(q) : Append(q, x)[i] = q[i]
    OBVIOUS
  <1> DEFINE p == Append(q, x)
  <1> HIDE DEF p
  <1>3. DOMAIN p = 1 .. Len(q) + 1
    BY <1>2 DEF p
  <1>4. QED
    BY <1>1, <1>2, <1>3 DEF p

\* A queue without its head.
LEMMA Shortened ==
  ASSUME NEW T, NEW q \in Seq(T), q # << >>
  PROVE  LET p == Tail(q)
         IN  /\ p \in Seq(T) /\ Len(p) = Len(q) - 1 /\ Len(q) \in Nat \ {0}
             /\ DOMAIN q = 1 .. Len(q) /\ DOMAIN p = 1 .. Len(q) - 1
             /\ Head(q) = q[1] /\ Head(q) \in T /\ 1 \in DOMAIN q
             /\ \A i \in DOMAIN p : p[i] = q[i + 1] /\ i + 1 \in DOMAIN q
             /\ \A i \in DOMAIN q : i = 1 \/ (i - 1 \in DOMAIN p /\ p[i - 1] = q[i])
  <1>1. Len(q) \in Nat \ {0} /\ DOMAIN q = 1 .. Len(q)
    OBVIOUS
  <1>2. Tail(q) \in Seq(T) /\ Len(Tail(q)) = Len(q) - 1 /\ Head(q) = q[1] /\ Head(q) \in T
    OBVIOUS
  <1>3. \A i \in 1 .. Len(q) - 1 : Tail(q)[i] = q[i + 1]
    OBVIOUS
  <1> DEFINE p == Tail(q)
  <1> HIDE DEF p
  <1>4. DOMAIN p = 1 .. Len(q) - 1
    BY <1>1, <1>2 DEF p
  <1>5. \A i \in DOMAIN p : p[i] = q[i + 1] /\ i + 1 \in DOMAIN q
    BY <1>1, <1>3, <1>4 DEF p
  <1>6. ASSUME NEW i \in DOMAIN q, i # 1 PROVE i - 1 \in DOMAIN p /\ p[i - 1] = q[i]
    <2>1. i - 1 \in DOMAIN p /\ (i - 1) + 1 = i
      BY <1>1, <1>4, <1>6
    <2>2. QED
      BY <1>5, <2>1
  <1>7. QED
    BY <1>1, <1>2, <1>4, <1>5, <1>6 DEF p

\* What is not in a queue and not appended is not in it afterwards.
LEMMA NoneAppended ==
  ASSUME NEW T, NEW q \in Seq(T), NEW x \in T, NEW S
  PROVE  NoneOf(S, Append(q, x)) <=> NoneOf(S, q) /\ x \notin S
  <1> DEFINE p == Append(q, x)
  <1>1. /\ Len(q) \in Nat
        /\ DOMAIN q = 1 .. Len(q) /\ DOMAIN p = 1 .. Len(q) + 1
        /\ p[Len(q) + 1] = x /\ \A i \in DOMAIN q : p[i] = q[i] /\ i \in DOMAIN p
        /\ \A i \in DOMAIN p : i \in DOMAIN q \/ i = Len(q) + 1
    BY Appended
  <1> HIDE DEF p
  <1>2. Len(q) + 1 \in DOMAIN p
    BY <1>1
  <1>3. NoneOf(S, p) <=> NoneOf(S, q) /\ x \notin S
    BY <1>1, <1>2 DEF NoneOf
  <1>4. QED
    BY <1>3 DEF p

\* A message of which there was none is in the queue once.
LEMMA OnceAppended ==
  ASSUME NEW T, NEW q \in Seq(T), NEW x \in T, NEW S, Once(S, q), x \notin S \/ NoneOf(S, q)
  PROVE  Once(S, Append(q, x))
  <1> DEFINE p == Append(q, x)
  <1>1. /\ Len(q) \in Nat
        /\ DOMAIN q = 1 .. Len(q) /\ DOMAIN p = 1 .. Len(q) + 1
        /\ p[Len(q) + 1] = x /\ \A i \in DOMAIN q : p[i] = q[i] /\ i \in DOMAIN p
        /\ \A i \in DOMAIN p : i \in DOMAIN q \/ i = Len(q) + 1
    BY Appended
  <1> HIDE DEF p
  <1>2. Once(S, p)
    BY <1>1, Zenon DEF Once, NoneOf
  <1>3. QED
    BY <1>2 DEF p

\* Taking the one message of a kind leaves none of it.
LEMMA OnceShortened ==
  ASSUME NEW T, NEW q \in Seq(T), q # << >>, NEW S
  PROVE  /\ NoneOf(S, q) <=> NoneOf(S, Tail(q)) /\ Head(q) \notin S
         /\ Once(S, q) => Once(S, Tail(q))
         /\ Once(S, q) /\ Head(q) \in S => NoneOf(S, Tail(q))
  <1> DEFINE p == Tail(q)
  <1>1. /\ DOMAIN q = 1 .. Len(q) /\ DOMAIN p = 1 .. Len(q) - 1 /\ Len(q) \in Nat \ {0}
        /\ Head(q) = q[1] /\ 1 \in DOMAIN q
        /\ \A i \in DOMAIN p : p[i] = q[i + 1] /\ i + 1 \in DOMAIN q
        /\ \A i \in DOMAIN q : i = 1 \/ (i - 1 \in DOMAIN p /\ p[i - 1] = q[i])
    BY Shortened
  <1> HIDE DEF p
  <1>2. NoneOf(S, q) <=> NoneOf(S, p) /\ Head(q) \notin S
    BY <1>1 DEF NoneOf
  <1>3. ASSUME Once(S, q) PROVE Once(S, p)
    <2>1. ASSUME NEW i \in DOMAIN p, NEW j \in DOMAIN p, p[i] \in S, p[j] \in S PROVE i = j
      <3>1. i + 1 = j + 1
        BY <1>1, <1>3, <2>1 DEF Once
      <3>2. QED
        BY <1>1, <3>1
    <2>2. QED
      BY <2>1 DEF Once
  <1>4. ASSUME Once(S, q), Head(q) \in S PROVE NoneOf(S, p)
    <2>1. SUFFICES ASSUME NEW i \in DOMAIN p, p[i] \in S PROVE FALSE
      BY DEF NoneOf
    <2>2. i + 1 = 1
      BY <1>1, <1>4, <2>1 DEF Once
    <2>3. QED
      BY <1>1, <2>2
  <1>5. QED
    BY <1>2, <1>3, <1>4 DEF p

\* No update is posted behind the answer to unwatch.
LEMMA UpdatesFirstAppended ==
  ASSUME NEW q \in Seq(Posts), NEW x \in Posts, UpdatesFirst(q),
         x \notin Updates \/ NoneOf(Unwatched, q)
  PROVE  UpdatesFirst(Append(q, x))
  <1> DEFINE p == Append(q, x)
  <1>1. /\ Len(q) \in Nat
        /\ DOMAIN q = 1 .. Len(q) /\ DOMAIN p = 1 .. Len(q) + 1
        /\ p[Len(q) + 1] = x /\ \A i \in DOMAIN q : p[i] = q[i] /\ i \in DOMAIN p
        /\ \A i \in DOMAIN p : i \in DOMAIN q \/ i = Len(q) + 1
    BY Appended
  <1> HIDE DEF p
  <1>2. ~ (x \in Unwatched /\ x \in Updates)
    BY KindsDiffer
  <1>3. ASSUME NEW i \in DOMAIN p, NEW j \in DOMAIN p, p[i] \in Unwatched, p[j] \in Updates PROVE j < i
    <2>1. CASE j \in DOMAIN q /\ i \in DOMAIN q
      BY <1>1, <1>3, <2>1 DEF UpdatesFirst
    <2>2. CASE j = Len(q) + 1
      <3>1. i \in DOMAIN q /\ q[i] \in Unwatched /\ x \in Updates
        BY <1>1, <1>2, <1>3, <2>2, Zenon
      <3>2. QED
        BY <3>1 DEF NoneOf
    <2>3. CASE j \in DOMAIN q /\ i = Len(q) + 1
      BY <1>1, <2>3
    <2>4. QED
      BY <1>1, <2>1, <2>2, <2>3
  <1>4. QED
    BY <1>3 DEF UpdatesFirst, p

\* Once the answer to unwatch is taken no update is left.
LEMMA UpdatesFirstShortened ==
  ASSUME NEW q \in Seq(Posts), q # << >>, UpdatesFirst(q)
  PROVE  UpdatesFirst(Tail(q)) /\ (Head(q) \in Unwatched => NoneOf(Updates, Tail(q)))
  <1> DEFINE p == Tail(q)
  <1>1. /\ DOMAIN q = 1 .. Len(q) /\ DOMAIN p = 1 .. Len(q) - 1 /\ Len(q) \in Nat \ {0}
        /\ Head(q) = q[1] /\ 1 \in DOMAIN q
        /\ \A i \in DOMAIN p : p[i] = q[i + 1] /\ i + 1 \in DOMAIN q
    BY Shortened
  <1> HIDE DEF p
  <1>2. ASSUME NEW i \in DOMAIN p, NEW j \in DOMAIN p, p[i] \in Unwatched, p[j] \in Updates PROVE j < i
    <2>1. j + 1 < i + 1
      BY <1>1, <1>2 DEF UpdatesFirst
    <2>2. QED
      BY <1>1, <2>1
  <1>3. ASSUME Head(q) \in Unwatched, NEW j \in DOMAIN p, p[j] \in Updates PROVE FALSE
    <2>1. j + 1 < 1
      BY <1>1, <1>3 DEF UpdatesFirst
    <2>2. QED
      BY <1>1, <2>1
  <1>4. QED
    BY <1>2, <1>3 DEF UpdatesFirst, NoneOf, p

\* The elements of a queue.
LEMMA ElementsAppended ==
  ASSUME NEW T, NEW q \in Seq(T), NEW x \in T
  PROVE  LET p == Append(q, x)
         IN  {p[i] : i \in DOMAIN p} = {q[i] : i \in DOMAIN q} \cup {x}
  <1> DEFINE p == Append(q, x)
  <1>1. /\ Len(q) \in Nat
        /\ DOMAIN q = 1 .. Len(q) /\ DOMAIN p = 1 .. Len(q) + 1
        /\ p[Len(q) + 1] = x /\ \A i \in DOMAIN q : p[i] = q[i] /\ i \in DOMAIN p
        /\ \A i \in DOMAIN p : i \in DOMAIN q \/ i = Len(q) + 1
    BY Appended
  <1> HIDE DEF p
  <1>2. Len(q) + 1 \in DOMAIN p
    BY <1>1
  <1>3. {p[i] : i \in DOMAIN p} = {q[i] : i \in DOMAIN q} \cup {x}
    BY <1>1, <1>2, Zenon
  <1>4. QED
    BY <1>3 DEF p

\* Taking the head adds nothing to a queue.
LEMMA ElementsShortened ==
  ASSUME NEW T, NEW q \in Seq(T), q # << >>
  PROVE  LET p == Tail(q)
         IN  /\ {p[i] : i \in DOMAIN p} \subseteq {q[i] : i \in DOMAIN q}
             /\ Head(q) \in {q[i] : i \in DOMAIN q}
  <1> DEFINE p == Tail(q)
  <1>1. /\ Head(q) = q[1] /\ 1 \in DOMAIN q
        /\ \A i \in DOMAIN p : p[i] = q[i + 1] /\ i + 1 \in DOMAIN q
    BY Shortened
  <1> HIDE DEF p
  <1>2. /\ {p[i] : i \in DOMAIN p} \subseteq {q[i] : i \in DOMAIN q}
        /\ Head(q) \in {q[i] : i \in DOMAIN q}
    BY <1>1
  <1>3. QED
    BY <1>2 DEF p

\* A snapshot that is still there for a subscriber.
LEMMA TokenPosted ==
  ASSUME NEW s \in Streams, NEW asked, NEW answers, NEW st, NEW q \in Seq(Posts), NEW x \in Posts,
         Token(s, asked, answers, q, st), x \notin SnapshotOf(s)
  PROVE  Token(s, asked, answers, Append(q, x), st)
  <1>1. NoneOf(SnapshotOf(s), Append(q, x)) <=> NoneOf(SnapshotOf(s), q)
    BY NoneAppended
  <1>2. Once(SnapshotOf(s), q) => Once(SnapshotOf(s), Append(q, x))
    BY OnceAppended
  <1>3. QED
    BY <1>1, <1>2 DEF Token

\* The snapshot that is taken was the only one of its subscriber.
LEMMA TokenTaken ==
  ASSUME NEW s \in Streams, NEW asked, NEW answers, NEW st, NEW q \in Seq(Posts), q # << >>,
         Token(s, asked, answers, q, st)
  PROVE  /\ Token(s, asked, answers, Tail(q), st)
         /\ Head(q) \in SnapshotOf(s) =>
              ~asked /\ answers \cap SnapshotOf(s) = {} /\ NoneOf(SnapshotOf(s), Tail(q))
  <1>1. /\ NoneOf(SnapshotOf(s), q) <=> NoneOf(SnapshotOf(s), Tail(q)) /\ Head(q) \notin SnapshotOf(s)
        /\ Once(SnapshotOf(s), q) => Once(SnapshotOf(s), Tail(q))
        /\ Once(SnapshotOf(s), q) /\ Head(q) \in SnapshotOf(s) => NoneOf(SnapshotOf(s), Tail(q))
    BY OnceShortened
  <1>2. QED
    BY <1>1 DEF Token

\* What a Core that advances keeps.
LEMMA PlacedAdvanced ==
  ASSUME NEW c \in Cores, NEW n \in Cores, Advanced(c, n), c.watch.on \/ n.watch = c.watch,
         NEW known, NEW asked, Placed(c, known, asked)
  PROVE  Placed(n, known, asked)
  <1>1. /\ n.watch.on = c.watch.on /\ n.watch.initializing = c.watch.initializing
        /\ n.watch.pending = c.watch.pending /\ n.watch.over = c.watch.over
        /\ n.watch.first = c.watch.first
    <2>1. c.watch \in Watches /\ n.watch = [c.watch EXCEPT !.cut = n.watch.cut]
      BY PartsOfCore, ZenonT(40) DEF Advanced
    <2>2. QED
      BY <2>1 DEF Watches
  <1>2. \A s \in Streams : n.stream[s].at = c.stream[s].at
    BY PlacesKept
  <1>3. ~n.watch.on => n.watch = NoWatch
    BY <1>1 DEF Placed
  <1>4. QED
    BY <1>1, <1>2, <1>3 DEF Placed

\* Publishing leaves the control state of the subscribers alone.
LEMMA ShapeAdvanced ==
  ASSUME NEW c \in Cores, NEW n, Fits(n), Advanced(c, n), NEW s \in Streams, NEW w,
         Shape(c.stream[s], w)
  PROVE  Shape(n.stream[s], w)
  <1>1. n \in Cores /\ Len(n.stream[s].q) <= FrameLimit
    BY DEF Fits, Bounded
  <1>2. n.stream[s].at = c.stream[s].at /\ n.stream[s].busy = c.stream[s].busy
        /\ n.stream[s].resnap = c.stream[s].resnap
    BY <1>1, PlacesKept, SMTT(40)
  <1>3. n.stream[s].at = "off" => n.stream[s] = NoStream
    <2>1. c.stream[s].at = "off" => ~Subscribed(c, s)
      BY DEF Subscribed
    <2>2. QED
      BY <1>2, <2>1, ZenonT(40) DEF Shape, Advanced
  <1>4. QED
    BY <1>1, <1>2, <1>3 DEF Shape

\* Whether a snapshot is awaited is told by two fields of the subscriber.
LEMMA TokenSame ==
  ASSUME NEW s, NEW asked, NEW answers, NEW posts, NEW st, NEW t,
         t.at = st.at, t.resnap = st.resnap, Token(s, asked, answers, posts, st)
  PROVE  Token(s, asked, answers, posts, t)
  BY DEF Token

\* What a client has is still a state of the conversation when more is published.
LEMMA GoodKept ==
  ASSUME NEW c \in Cores, NEW n \in Cores, NEW st, GoodState(c, st), c.rev <= n.rev,
         \A i \in 0 .. c.rev : Before(n, i) = Before(c, i)
  PROVE  GoodState(n, st)
  <1>1. c.rev \in Nat /\ n.rev \in Nat
    BY PartsOfCore
  <1>2. st.rev \in 0 .. n.rev
    BY <1>1 DEF GoodState
  <1>3. QED
    BY <1>2 DEF GoodState

\* A difference of natural numbers.
LEMMA Remainder ==
  ASSUME NEW k \in Nat, NEW l \in Nat, l <= k
  PROVE  k - l \in 0 .. k
  OBVIOUS

\* A snapshot on its way still fits when the Core has published more.
LEMMA AnswerAdvanced ==
  ASSUME NEW c \in Cores, NEW n \in Cores, Advanced(c, n), NEW a \in Snapshots, AnswerFits(c, a),
         c.watch.initializing => Before(n, n.rev) = Before(c, c.rev),
         CoreFits(c),
         \A s \in Streams, d \in Nat :
           Subscribed(c, s) /\ ~n.stream[s].resync /\ Holds(c, s, d) => Holds(n, s, d)
  PROVE  AnswerFits(n, a)
  <1> DEFINE s == a.stream
  <1>1. s \in Streams /\ a.cut \in Nat
    BY DEF Snapshots
  <1> HIDE DEF s
  <1>2. /\ n.stream[s].at = c.stream[s].at /\ (Subscribed(n, s) <=> Subscribed(c, s))
        /\ n.watch.initializing = c.watch.initializing /\ n.watch.base = c.watch.base
    BY <1>1, PlacesKept
  <1>3. ASSUME Subscribed(c, s), ~n.stream[s].resync
        PROVE  /\ ~c.stream[s].resync /\ Start(n, s) = Start(c, s)
               /\ Before(n, Start(c, s)) = Before(c, Start(c, s))
    <2>1. ~c.stream[s].resync /\ Start(n, s) = Start(c, s)
      BY <1>1, <1>3, ZenonT(40) DEF Advanced
    <2>2. Start(c, s) \in 0 .. c.rev
      <3>1. c.rev \in Nat /\ c.stream[s] \in Subscribers
        BY <1>1, PartsOfCore
      <3>2. c.stream[s].q \in Seq(Published) /\ Len(c.stream[s].q) <= c.rev
        BY <1>1, <1>3, <2>1, <3>1, PartsOfSubscriber DEF CoreFits, Faithful, FramesFollow
      <3>3. Len(c.stream[s].q) \in Nat
        BY <3>2
      <3>4. c.rev - Len(c.stream[s].q) \in 0 .. c.rev
        BY <3>1, <3>2, <3>3, Remainder, SMTT(40)
      <3>5. QED
        BY <3>4 DEF Start
    <2>3. Before(n, Start(c, s)) = Before(c, Start(c, s))
      BY <2>2, ZenonT(40) DEF Advanced
    <2>4. QED
      BY <2>1, <2>3, SMTT(40)
  <1>4. QED
    BY <1>1, <1>2, <1>3 DEF AnswerFits, s

\* A queue that follows the Core starts at one of its revisions.
LEMMA StartIsRevision ==
  ASSUME NEW c, Fits(c), NEW s \in Streams, Subscribed(c, s), ~c.stream[s].resync
  PROVE  Start(c, s) \in 0 .. c.rev /\ Len(c.stream[s].q) \in Nat
  <1>1. c.rev \in Nat /\ c.stream[s] \in Subscribers
    BY PartsOfCore DEF Fits
  <1>2. c.stream[s].q \in Seq(Published) /\ Len(c.stream[s].q) <= c.rev
    BY <1>1, PartsOfSubscriber DEF Fits, CoreFits, Faithful, FramesFollow
  <1>3. Len(c.stream[s].q) \in Nat
    BY <1>2
  <1>4. QED
    BY <1>1, <1>2, <1>3 DEF Start

\* A client that follows its queue still does when the Core has published more.
LEMMA ClientAdvanced ==
  ASSUME NEW c \in Cores, NEW n \in Cores, Advanced(c, n), NEW s \in Streams, NEW w, NEW st,
         NEW late, ClientFits(c, s, w, st, late),
         \A d \in Nat : Subscribed(c, s) /\ ~n.stream[s].resync /\ Holds(c, s, d) => Holds(n, s, d)
  PROVE  ClientFits(n, s, w, st, late)
  <1>1. /\ n.stream[s].at = c.stream[s].at /\ n.stream[s].resnap = c.stream[s].resnap
        /\ n.stream[s].cut = c.stream[s].cut /\ (Subscribed(n, s) <=> Subscribed(c, s))
    BY PlacesKept, SMTT(40)
  <1>2. c.rev <= n.rev /\ \A i \in 0 .. c.rev : Before(n, i) = Before(c, i)
    BY ZenonT(40) DEF Advanced
  <1>3. c.stream[s].cut \in Nat
    BY PartsOfCore, PartsOfSubscriber
  <1>4. SUFFICES ASSUME n.stream[s].at = "live", ~n.stream[s].resync, ~n.stream[s].resnap
                 PROVE  /\ Following(n, s, After(w, st), late)
                        /\ (w # << >> /\ Head(w).snap) \/ GoodState(n, st)
    BY SMTT(40) DEF ClientFits
  <1>5. Subscribed(c, s) /\ ~c.stream[s].resync /\ Start(n, s) = Start(c, s)
    BY <1>1, <1>4, ZenonT(40) DEF Advanced, Subscribed
  <1>6. /\ Following(c, s, After(w, st), late)
        /\ (w # << >> /\ Head(w).snap) \/ GoodState(c, st)
    BY <1>1, <1>4, <1>5 DEF ClientFits
  <1>7. Reached(n, s) = Reached(c, s)
    BY <1>1, <1>5 DEF Reached
  <1>8. \A x : GoodState(c, x) => GoodState(n, x)
    BY <1>2, GoodKept
  <1>9. Holds(c, s, c.stream[s].cut) => Holds(n, s, n.stream[s].cut)
    BY <1>1, <1>3, <1>4, <1>5
  <1>10. QED
    BY <1>5, <1>6, <1>7, <1>8, <1>9 DEF Following

-----------------------------------------------------------------------------
(* The steps of the Data Worker.                                           *)

\* The Core of a state is one that fits.
LEMMA CoreOfState ==
  ASSUME StreamInduct
  PROVE  /\ Core \in Cores /\ Fits(Core) /\ cut \in Nat /\ entry \in Entries
         /\ Core.rev = rev /\ Core.shown = shown /\ Core.watch = watch /\ Core.stream = stream
         /\ rev \in Nat /\ shown \in Seq(Nat) /\ watch \in Watches
         /\ stream \in [Streams -> Subscribers] /\ port \in Seq(Posts)
  <1>1. Core \in Cores /\ cut \in Nat /\ entry \in Entries /\ port \in Seq(Posts)
    BY DEF StreamInduct, StreamTyped
  <1>2. Core.rev = rev /\ Core.shown = shown /\ Core.watch = watch /\ Core.stream = stream
    BY DEF Core
  <1>3. Bounded(Core)
    BY <1>2 DEF StreamInduct, Shapes, Shape, Bounded
  <1>4. Fits(Core)
    BY <1>1, <1>3 DEF StreamInduct, Fits
  <1> HIDE DEF Core
  <1>5. QED
    BY <1>1, <1>2, <1>4, PartsOfCore

\* The fields of the entry of the watch at the Data Worker.
LEMMA PartsOfEntry ==
  ASSUME NEW e \in Entries
  PROVE  /\ e.on \in BOOLEAN /\ e.pending \in Seq(Nat) /\ e.resync \in BOOLEAN /\ e.last \in Nat
         /\ e.pump \in {"idle", "run", "forming", "sent"}
         /\ Len(e.pending) \in Nat /\ DOMAIN e.pending = 1 .. Len(e.pending)
  BY DEF Entries

\* A step of the Data Worker leaves the Core as it is.
LEMMA HostSame ==
  ASSUME UNCHANGED hostVars
  PROVE  Core' = Core
  BY DEF hostVars, Core

\* The conversation may grow.
LEMMA LaterCutFits ==
  ASSUME NEW c, Fits(c), NEW k \in Nat, NEW last, WatchFits(c, k, last)
  PROVE  WatchFits(c, k + 1, last)
  <1>1. c \in Cores /\ Before(c, c.rev) \in Nat /\ c.watch.cut \in Nat /\ c.watch.pending \in Seq(Updates)
    <2>1. c \in Cores /\ c.rev \in Nat /\ Len(c.shown) = c.rev
      BY PartsOfCore DEF Fits, CoreFits
    <2>2. Before(c, c.rev) \in Nat
      BY <2>1, BeforeIsCut
    <2>3. QED
      BY <2>1, <2>2, PartsOfCore DEF Watches
  <1>2. Before(c, c.rev) <= k + 1 /\ (c.watch.cut <= k => c.watch.cut <= k + 1)
    BY <1>1 DEF WatchFits
  <1>3. ASSUME NEW i \in DOMAIN c.watch.pending, c.watch.pending[i].cut <= k
        PROVE  c.watch.pending[i].cut <= k + 1
    <2>1. c.watch.pending[i] \in Updates
      BY <1>1
    <2>2. c.watch.pending[i].cut \in Nat
      BY <2>1 DEF Updates
    <2>3. QED
      BY <1>3, <2>2
  <1>4. QED
    BY <1>2, <1>3 DEF WatchFits

\* One more delta and one more pending update.
LEMMA OneMore ==
  ASSUME NEW k \in Nat, NEW l \in Nat
  PROVE  /\ (k + 1) - (l + 1) + (l + 1) = k + 1
         /\ \A i \in Nat : k - l + i = (k + 1) - (l + 1) + i
         /\ \A u \in Nat : k - l <= u => (k + 1) - (l + 1) <= u
  OBVIOUS

\* A delta is appended to the conversation, and to the pending updates of the
\* entry or, when there are too many, to a resynchronisation.
LEMMA ProduceKept ==
  ASSUME StreamInduct, Produce
  PROVE  StreamInduct'
  <1>1. /\ cut' = cut + 1 /\ entry' = IF entry.on THEN Enqueue(entry, cut + 1) ELSE entry
        /\ requests' = requests /\ replies' = replies /\ failures' = failures /\ port' = port
        /\ remote' = remote /\ UNCHANGED hostVars /\ UNCHANGED clientVars
    BY DEF Produce
  <1>2. Core' = Core
    BY <1>1, HostSame
  <1>3. cut \in Nat /\ entry \in Entries /\ DataLimit \in Nat
    BY CoreOfState, StreamAssumption
  <1>4. entry' \in Entries /\ entry'.on = entry.on /\ entry'.last = entry.last
        /\ (~entry.on => entry' = entry) /\ (entry.pump = "sent" => entry'.pump = "sent")
        /\ (entry'.resync => entry'.pending = << >> \/ (entry.resync /\ entry'.pending = entry.pending))
        /\ (entry.on => entry'.resync \/
              (~entry.resync /\ entry'.pending = Append(entry.pending, cut + 1)))
        /\ (entry.on => entry'.pump = IF entry.pump = "idle" THEN "run" ELSE entry.pump)
        /\ (entry.resync => entry'.resync)
    <2>1. CASE ~entry.on
      BY <1>1, <1>3, <2>1
    <2>2. CASE entry.on
      <3> DEFINE starts == entry.pump = "idle" /\ entry.pending = << >>
                 next == IF entry.resync THEN entry
                         ELSE IF ~starts /\ Len(entry.pending) + 1 > DataLimit
                              THEN [entry EXCEPT !.pending = << >>, !.resync = TRUE]
                              ELSE [entry EXCEPT !.pending = Append(@, cut + 1)]
      <3>1. entry' = [next EXCEPT !.pump = IF @ = "idle" THEN "run" ELSE @]
        BY <1>1, <2>2 DEF Enqueue
      <3>2. entry.pending \in Seq(Nat) /\ cut + 1 \in Nat /\ Append(entry.pending, cut + 1) \in Seq(Nat)
            /\ << >> \in Seq(Nat)
        BY <1>3, PartsOfEntry
      <3>3. next \in Entries /\ next.on = entry.on /\ next.last = entry.last
            /\ next.pump = entry.pump
            /\ (next.resync => next.pending = << >> \/ (entry.resync /\ next.pending = entry.pending))
            /\ (next.resync \/ (~entry.resync /\ next.pending = Append(entry.pending, cut + 1)))
            /\ (entry.resync => next.resync)
        <4>1. CASE entry.resync
          BY <1>3, <4>1
        <4>2. CASE ~entry.resync /\ ~starts /\ Len(entry.pending) + 1 > DataLimit
          <5>1. next = [entry EXCEPT !.pending = << >>, !.resync = TRUE]
            BY <4>2
          <5> HIDE DEF next
          <5>2. QED
            BY <1>3, <3>2, <4>2, <5>1 DEF Entries
        <4>3. CASE ~entry.resync /\ ~(~starts /\ Len(entry.pending) + 1 > DataLimit)
          <5>1. next = [entry EXCEPT !.pending = Append(@, cut + 1)]
            BY <4>3
          <5> HIDE DEF next
          <5>2. QED
            BY <1>3, <3>2, <4>3, <5>1 DEF Entries
        <4>4. QED
          BY <4>1, <4>2, <4>3
      <3> HIDE DEF next
      <3>4. QED
        BY <2>2, <3>1, <3>3 DEF Entries
    <2>3. QED
      BY <2>1, <2>2
  <1>5. StreamTyped'
    BY <1>1, <1>2, <1>3, <1>4 DEF StreamInduct, StreamTyped, clientVars
  <1>6. WatchProtocol'
    BY <1>1, <1>4 DEF StreamInduct, WatchProtocol, Watching
  <1>7. StreamPlaces'
    BY <1>1, <1>2 DEF StreamInduct, StreamPlaces
  <1>8. Tokens' /\ Shapes' /\ ClientsFit'
    BY <1>1, <1>2 DEF StreamInduct, Tokens, Shapes, hostVars, clientVars, ClientsFit, NoGap
  <1>9. Pipeline'
    <2>1. SUFFICES ASSUME entry.on PROVE Pipeline'
      BY <1>4 DEF Pipeline
    <2>2. EntryFits(entry, cut) /\ \A i \in DOMAIN port : port[i] \in Updates => UpdateFits(entry, cut, port[i])
      BY <2>1 DEF StreamInduct, Pipeline
    <2>3. entry.pending \in Seq(Nat) /\ Len(entry.pending) \in Nat /\ entry.last \in Nat
          /\ DOMAIN entry.pending = 1 .. Len(entry.pending)
          /\ entry.pump \in {"idle", "run", "forming", "sent"} /\ entry.last <= cut
      BY <1>3, <2>2, PartsOfEntry DEF EntryFits
    <2>4. CASE entry'.resync
      <3>1. entry'.pending = << >>
        BY <1>4, <2>2, <2>4 DEF EntryFits
      <3>2. entry'.last <= cut'
        BY <1>1, <1>3, <1>4, <2>3
      <3>3. EntryFits(entry', cut')
        BY <1>4, <2>1, <2>4, <3>1, <3>2 DEF EntryFits
      <3>4. ASSUME NEW u \in Updates, UpdateFits(entry, cut, u) PROVE UpdateFits(entry', cut', u)
        BY <1>1, <1>3, <1>4, <2>4, <3>4 DEF UpdateFits, Updates
      <3>5. QED
        BY <1>1, <2>2, <3>3, <3>4 DEF Pipeline
    <2>5. CASE ~entry'.resync
      <3> DEFINE p == Append(entry.pending, cut + 1)
      <3>1. ~entry.resync /\ entry'.pending = p
        BY <1>4, <2>1, <2>5
      <3>2. /\ Len(p) = Len(entry.pending) + 1
            /\ DOMAIN p = 1 .. Len(entry.pending) + 1
            /\ p[Len(entry.pending) + 1] = cut + 1
            /\ \A i \in DOMAIN entry.pending : p[i] = entry.pending[i]
            /\ \A i \in DOMAIN p : i \in DOMAIN entry.pending \/ i = Len(entry.pending) + 1
        <4>1. cut + 1 \in Nat
          BY <1>3
        <4>2. QED
          BY <2>3, <4>1, Appended
      <3> HIDE DEF p
      <3>3. \A i \in DOMAIN p : p[i] = (cut + 1) - Len(p) + i
        <4>1. ASSUME NEW i \in DOMAIN p PROVE p[i] = (cut + 1) - Len(p) + i
          <5>1. CASE i = Len(entry.pending) + 1
            <6>1. p[i] = cut + 1 /\ Len(p) = Len(entry.pending) + 1 /\ Len(entry.pending) \in Nat
                  /\ cut \in Nat
              BY <1>3, <2>3, <3>2, <5>1
            <6>2. QED
              BY <5>1, <6>1, OneMore, ZenonT(40)
          <5>2. CASE i \in DOMAIN entry.pending
            <6>1. p[i] = cut - Len(entry.pending) + i
              BY <2>2, <3>2, <5>2 DEF EntryFits
            <6>2. i \in Nat
              BY <2>3, <5>2
            <6>3. cut - Len(entry.pending) + i = (cut + 1) - (Len(entry.pending) + 1) + i
              <7>1. cut \in Nat /\ Len(entry.pending) \in Nat
                BY <1>3, <2>3
              <7>2. QED
                BY <6>2, <7>1, OneMore, ZenonT(40)
            <6>4. QED
              BY <3>2, <6>1, <6>3
          <5>3. QED
            BY <3>2, <5>1, <5>2
        <4>2. QED
          BY <4>1
      <3>4. entry'.pump # "idle" /\ entry'.last <= cut + 1
        BY <1>3, <1>4, <2>1, <2>3
      <3>5. entry'.pump = "run" => Len(p) = (cut + 1) - entry.last /\ entry.last < cut + 1
        <4>1. CASE entry.pump = "idle"
          <5>1. entry.pending = << >> /\ entry.last = cut
            BY <2>2, <3>1, <4>1 DEF EntryFits
          <5>2. Len(entry.pending) = 0
            BY <5>1
          <5>3. QED
            BY <1>3, <3>2, <5>1, <5>2
        <4>2. CASE entry.pump = "run"
          <5>1. Len(entry.pending) = cut - entry.last /\ entry.last < cut
            BY <2>2, <3>1, <4>2 DEF EntryFits
          <5>2. QED
            BY <1>3, <2>3, <3>2, <5>1, SMTT(40)
        <4>3. QED
          BY <1>4, <2>1, <4>1, <4>2
      <3>6. EntryFits(entry', cut')
        BY <1>1, <1>4, <2>5, <3>1, <3>3, <3>4, <3>5 DEF EntryFits
      <3>7. ASSUME NEW u \in Updates, UpdateFits(entry, cut, u) PROVE UpdateFits(entry', cut', u)
        <4>1. u.cut \in Nat
          BY DEF Updates
        <4>2. entry.last <= u.cut /\ u.cut <= cut /\ (u.snap \/ u.cut = entry.last + 1)
              /\ cut - Len(entry.pending) <= u.cut
          BY <3>1, <3>7 DEF UpdateFits
        <4>3. u.cut <= cut + 1 /\ (cut + 1) - Len(p) <= u.cut
          <5>1. cut \in Nat /\ Len(entry.pending) \in Nat /\ Len(p) = Len(entry.pending) + 1
            BY <1>3, <2>3, <3>2
          <5>2. (cut + 1) - (Len(entry.pending) + 1) <= u.cut
            BY <4>1, <4>2, <5>1, OneMore
          <5>3. u.cut <= cut + 1
            BY <4>1, <4>2, <5>1
          <5>4. QED
            BY <5>1, <5>2, <5>3
        <4>4. QED
          BY <1>1, <1>4, <3>1, <4>2, <4>3 DEF UpdateFits
      <3>8. QED
        BY <1>1, <2>2, <3>6, <3>7 DEF Pipeline
    <2>6. QED
      BY <2>4, <2>5
  <1>10. WatchFollows'
    <2>1. WatchFits(Core, cut, entry.last)
      BY DEF StreamInduct, WatchFollows
    <2>2. WatchFits(Core, cut + 1, entry.last)
      BY <2>1, LaterCutFits, CoreOfState
    <2>3. QED
      BY <1>1, <1>2, <1>4, <2>2 DEF WatchFollows
  <1>11. CoreFits(Core)'
    BY <1>2 DEF StreamInduct
  <1>12. AnswersFit'
    <2>1. Answers' = Answers
      BY <1>1 DEF Answers
    <2>2. ASSUME NEW a \in Watched \cup Snapshots, a.cut <= cut PROVE a.cut <= cut'
      BY <1>1, <1>3, <2>2 DEF Watched, Snapshots
    <2>3. QED
      BY <1>2, <1>4, <2>1, <2>2 DEF StreamInduct, AnswersFit
  <1>13. QED
    BY <1>5, <1>6, <1>7, <1>8, <1>9, <1>10, <1>11, <1>12 DEF StreamInduct

\* Positions behind the first l of k deltas.
LEMMA Difference ==
  ASSUME NEW k \in Nat, NEW l \in Nat
  PROVE  \A i \in Nat : k - (k - l) + (i + 1) = l + 1 + i
  OBVIOUS

\* The answers on their way when something is posted.
LEMMA AnswersPosted ==
  ASSUME NEW x \in Posts, port \in Seq(Posts), port' = Append(port, x)
  PROVE  Answers' = replies' \cup {port[i] : i \in DOMAIN port} \cup {x}
  <1> DEFINE p == Append(port, x)
  <1>1. {p[i] : i \in DOMAIN p} = {port[i] : i \in DOMAIN port} \cup {x}
    BY ElementsAppended
  <1>2. Answers' = replies' \cup {port'[i] : i \in DOMAIN port'}
    BY DEF Answers
  <1> HIDE DEF p
  <1>3. port' = p
    BY DEF p
  <1>4. QED
    BY <1>1, <1>2, <1>3, ZenonT(40)

\* The answers that were there still fit when the Core and the conversation are the same.
LEMMA AnswersSame ==
  ASSUME StreamInduct, Core' = Core, cut' = cut, entry'.last = entry.last,
         \A a \in Answers' : a \in Answers \/ a \in Updates \cup Unwatched
  PROVE  AnswersFit'
  <1>1. ASSUME NEW a \in Answers', a \in Watched \cup Snapshots PROVE a \in Answers
    BY <1>1 DEF Watched, Snapshots, Updates, Unwatched
  <1>2. QED
    BY <1>1 DEF StreamInduct, AnswersFit

\* An update is posted.
LEMMA UpdatePosted ==
  ASSUME StreamInduct, NEW x \in Updates, entry.on, entry.pump \in {"run", "forming"},
         port' = Append(port, x), entry' \in Entries, entry'.on, entry'.pump = "sent",
         entry'.last = entry.last, UpdateFits(entry', cut, x), EntryFits(entry', cut),
         UNCHANGED <<cut, requests, replies, failures, remote, hostVars, clientVars>>
  PROVE  StreamInduct'
  <1>1. Core' = Core /\ cut' = cut /\ requests' = requests /\ replies' = replies /\ remote' = remote
        /\ UNCHANGED hostVars /\ UNCHANGED clientVars /\ failures' = failures
    BY HostSame
  <1>2. x \in Posts /\ port \in Seq(Posts) /\ x \notin Watched /\ x \notin Unwatched
        /\ \A s \in Streams : x \notin SnapshotOf(s)
    BY CoreOfState DEF Posts, Updates, Watched, Unwatched, SnapshotOf
  <1>3. NoneOf(Updates, port) /\ NoneOf(Unwatched, port)
    BY DEF StreamInduct, WatchProtocol, Watching
  <1>4. port' \in Seq(Posts) /\ Once(Updates, port') /\ Once(Watched, port') /\ Once(Unwatched, port')
        /\ UpdatesFirst(port') /\ (NoneOf(Watched, port) => NoneOf(Watched, port'))
        /\ NoneOf(Unwatched, port')
    <2>1. Once(Updates, port) /\ Once(Watched, port) /\ Once(Unwatched, port) /\ UpdatesFirst(port)
      BY DEF StreamInduct, WatchProtocol
    <2>2. Append(port, x) \in Seq(Posts)
      BY <1>2
    <2>3. Once(Updates, Append(port, x)) /\ Once(Watched, Append(port, x)) /\ Once(Unwatched, Append(port, x))
      BY <1>2, <1>3, <2>1, OnceAppended
    <2>4. UpdatesFirst(Append(port, x))
      BY <1>2, <1>3, <2>1, UpdatesFirstAppended
    <2>5. (NoneOf(Watched, port) => NoneOf(Watched, Append(port, x))) /\ NoneOf(Unwatched, Append(port, x))
      BY <1>2, <1>3, NoneAppended
    <2>6. QED
      BY <2>2, <2>3, <2>4, <2>5
  <1>5. StreamTyped'
    BY <1>1, <1>4 DEF StreamInduct, StreamTyped, clientVars
  <1>6. WatchProtocol'
    BY <1>1, <1>4 DEF StreamInduct, WatchProtocol, Watching
  <1>7. StreamPlaces' /\ Shapes' /\ ClientsFit' /\ CoreFits(Core)'
    BY <1>1 DEF StreamInduct, StreamPlaces, Shapes, hostVars, clientVars, ClientsFit, NoGap
  <1>8. Tokens'
    <2>1. ASSUME NEW s \in Streams PROVE Token(s, s \in requests, replies, Append(port, x), stream[s])
      BY <1>2, TokenPosted DEF StreamInduct, Tokens
    <2>2. QED
      BY <1>1, <2>1 DEF Tokens, hostVars
  <1>9. Pipeline'
    <2>1. ASSUME NEW i \in DOMAIN port', port'[i] \in Updates PROVE port'[i] = x
      <3>1. /\ port'[Len(port) + 1] = x /\ \A j \in DOMAIN port : port'[j] = port[j]
            /\ \A j \in DOMAIN port' : j \in DOMAIN port \/ j = Len(port) + 1
        BY <1>2, Appended
      <3>2. QED
        BY <1>3, <2>1, <3>1 DEF NoneOf
    <2>2. QED
      BY <1>1, <2>1 DEF Pipeline
  <1>10. WatchFollows'
    BY <1>1 DEF StreamInduct, WatchFollows
  <1>11. AnswersFit'
    <2>1. Answers' = Answers \cup {x}
      BY <1>1, <1>2, AnswersPosted DEF Answers
    <2>2. QED
      BY <1>1, <2>1, AnswersSame
  <1>12. QED
    BY <1>5, <1>6, <1>7, <1>8, <1>9, <1>10, <1>11 DEF StreamInduct

\* The entry alone changes, and keeps what it acknowledged.
LEMMA EntryChanged ==
  ASSUME StreamInduct, entry.on, entry.pump \in {"run", "forming"}, entry' \in Entries,
         entry'.on, entry'.last = entry.last, EntryFits(entry', cut), failures' \in Nat,
         UNCHANGED <<cut, requests, replies, port, remote, hostVars, clientVars>>
  PROVE  StreamInduct'
  <1>1. Core' = Core /\ cut' = cut /\ requests' = requests /\ replies' = replies /\ remote' = remote
        /\ UNCHANGED hostVars /\ UNCHANGED clientVars /\ port' = port
    BY HostSame
  <1>2. NoneOf(Updates, port)
    BY DEF StreamInduct, WatchProtocol
  <1>3. StreamTyped'
    BY <1>1 DEF StreamInduct, StreamTyped, clientVars
  <1>4. WatchProtocol'
    BY <1>1, <1>2 DEF StreamInduct, WatchProtocol, Watching
  <1>5. StreamPlaces' /\ Shapes' /\ ClientsFit' /\ CoreFits(Core)' /\ Tokens'
    BY <1>1 DEF StreamInduct, StreamPlaces, Shapes, hostVars, clientVars, ClientsFit, NoGap, Tokens
  <1>6. Pipeline'
    BY <1>1, <1>2 DEF Pipeline, NoneOf
  <1>7. WatchFollows'
    BY <1>1 DEF StreamInduct, WatchFollows
  <1>8. AnswersFit'
    <2>1. Answers' = Answers
      BY <1>1 DEF Answers
    <2>2. QED
      BY <1>1, <2>1, AnswersSame
  <1>9. QED
    BY <1>3, <1>4, <1>5, <1>6, <1>7, <1>8 DEF StreamInduct

\* The pump takes what is pending before it awaits the snapshot.
LEMMA PumpTakesKept ==
  ASSUME StreamInduct, PumpTakes
  PROVE  StreamInduct'
  <1>1. entry.pump = "run" /\ entry.on /\ entry \in Entries /\ cut \in Nat
        /\ UNCHANGED <<cut, requests, replies, failures, remote, hostVars, clientVars>>
    BY CoreOfState DEF PumpTakes, StreamInduct, WatchProtocol, NoEntry
  <1>2. EntryFits(entry, cut)
    BY <1>1 DEF StreamInduct, Pipeline
  <1>3. entry.pending \in Seq(Nat) /\ Len(entry.pending) \in Nat /\ entry.last \in Nat
        /\ DOMAIN entry.pending = 1 .. Len(entry.pending) /\ entry.last <= cut
    BY <1>1, <1>2, PartsOfEntry DEF EntryFits
  <1>4. CASE /\ entry.resync
             /\ entry' = [entry EXCEPT !.resync = FALSE, !.pending = << >>, !.pump = "forming"]
             /\ UNCHANGED port
    <2>1. << >> \in Seq(Nat) /\ Len(<< >>) = 0 /\ DOMAIN << >> = {}
      OBVIOUS
    <2>2. entry' \in Entries /\ entry'.on /\ entry'.last = entry.last /\ entry'.pending = << >>
          /\ ~entry'.resync /\ entry'.pump = "forming"
      BY <1>1, <1>4, <2>1 DEF Entries
    <2>3. EntryFits(entry', cut)
      BY <1>3, <2>1, <2>2 DEF EntryFits
    <2>4. failures' \in Nat
      BY <1>1 DEF StreamInduct, StreamTyped
    <2>5. QED
      BY <1>1, <1>4, <2>2, <2>3, <2>4, EntryChanged
  <1>5. CASE /\ ~entry.resync
             /\ entry' = [entry EXCEPT !.pending = Tail(@), !.pump = "sent"]
             /\ port' = Append(port, [kind |-> "update", cut |-> Head(entry.pending), snap |-> FALSE])
    <2> DEFINE x == [kind |-> "update", cut |-> Head(entry.pending), snap |-> FALSE]
               p == Tail(entry.pending)
    <2>1. Len(entry.pending) = cut - entry.last /\ entry.last < cut
      BY <1>1, <1>2, <1>5 DEF EntryFits
    <2>2. entry.pending # << >>
      <3>1. Len(<< >>) = 0
        OBVIOUS
      <3>2. QED
        BY <1>1, <1>3, <2>1, <3>1
    <2>3. /\ p \in Seq(Nat) /\ Len(p) = Len(entry.pending) - 1
          /\ DOMAIN p = 1 .. Len(entry.pending) - 1
          /\ Head(entry.pending) = entry.pending[1] /\ 1 \in DOMAIN entry.pending
          /\ \A i \in DOMAIN p : p[i] = entry.pending[i + 1] /\ i + 1 \in DOMAIN entry.pending
      BY <1>3, <2>2, Shortened
    <2>4. Head(entry.pending) = entry.last + 1
      <3>1. entry.pending[1] = cut - Len(entry.pending) + 1
        BY <1>2, <2>3 DEF EntryFits
      <3>2. cut - Len(entry.pending) + 1 = entry.last + 1
        BY <1>1, <1>3, <2>1
      <3>3. QED
        BY <2>3, <3>1, <3>2
    <2>5. x \in Updates /\ x.cut = entry.last + 1
      BY <1>3, <2>4 DEF Updates
    <2> HIDE DEF x, p
    <2>6. entry' \in Entries /\ entry'.on /\ entry'.last = entry.last /\ entry'.pending = p
          /\ entry'.pump = "sent" /\ ~entry'.resync
      <3>1. entry' = [entry EXCEPT !.pending = p, !.pump = "sent"]
        BY <1>5 DEF p
      <3>2. QED
        BY <1>1, <1>5, <2>3, <3>1 DEF Entries
    <2>7. Len(p) = cut - (entry.last + 1) /\ cut - Len(p) = entry.last + 1
      BY <1>1, <1>3, <2>1, <2>3
    <2>8. UpdateFits(entry', cut, x)
      BY <1>1, <1>3, <2>1, <2>5, <2>6, <2>7 DEF UpdateFits
    <2>9. \A i \in DOMAIN p : p[i] = cut - Len(p) + i
      <3>1. ASSUME NEW i \in DOMAIN p PROVE p[i] = cut - Len(p) + i
        <4>1. p[i] = cut - Len(entry.pending) + (i + 1) /\ i \in Nat
          BY <1>2, <2>3 DEF EntryFits
        <4>2. cut - (cut - entry.last) + (i + 1) = entry.last + 1 + i
          BY <1>1, <1>3, <4>1, Difference, ZenonT(40)
        <4>3. QED
          BY <2>1, <2>7, <4>1, <4>2
      <3>2. QED
        BY <3>1
    <2>10. EntryFits(entry', cut)
      BY <1>3, <2>6, <2>9 DEF EntryFits
    <2>11. QED
      BY <1>1, <1>5, <2>5, <2>6, <2>8, <2>10, UpdatePosted DEF x
  <1>6. QED
    BY <1>4, <1>5 DEF PumpTakes

\* The pump posts the update it formed, and awaits its acknowledgement.
LEMMA PumpPostsKept ==
  ASSUME StreamInduct, PumpPosts
  PROVE  StreamInduct'
  <1> DEFINE x == [kind |-> "update", cut |-> cut, snap |-> TRUE]
  <1>1. entry.pump = "forming" /\ entry.on /\ entry \in Entries /\ cut \in Nat
        /\ port' = Append(port, x) /\ entry' = [entry EXCEPT !.pump = "sent"]
        /\ UNCHANGED <<cut, requests, replies, failures, remote, hostVars, clientVars>>
    BY CoreOfState DEF PumpPosts, StreamInduct, WatchProtocol, NoEntry
  <1>2. EntryFits(entry, cut)
    BY <1>1 DEF StreamInduct, Pipeline
  <1>3. x \in Updates /\ x.cut = cut /\ x.snap
    BY <1>1 DEF Updates
  <1>4. entry' \in Entries /\ entry'.on /\ entry'.last = entry.last /\ entry'.pending = entry.pending
        /\ entry'.resync = entry.resync /\ entry'.pump = "sent"
    BY <1>1 DEF Entries
  <1> HIDE DEF x
  <1>5. EntryFits(entry', cut)
    BY <1>2, <1>4 DEF EntryFits
  <1>6. UpdateFits(entry', cut, x)
    <2>1. Len(entry.pending) \in Nat /\ entry.last <= cut
      BY <1>1, <1>2, PartsOfEntry DEF EntryFits
    <2>2. QED
      BY <1>1, <1>3, <1>4, <2>1 DEF UpdateFits
  <1>7. QED
    BY <1>1, <1>3, <1>4, <1>5, <1>6, UpdatePosted

\* A delivery that fails turns what is pending into a resynchronisation.
LEMMA DeliveryFailsKept ==
  ASSUME StreamInduct, DeliveryFails
  PROVE  StreamInduct'
  <1>1. entry.pump \in {"run", "forming"} /\ entry.on /\ entry \in Entries /\ cut \in Nat
        /\ entry' = [entry EXCEPT !.pending = << >>, !.resync = TRUE, !.pump = "idle"]
        /\ failures' = failures + 1 /\ failures \in Nat
        /\ UNCHANGED <<cut, requests, replies, port, remote, hostVars, clientVars>>
    BY CoreOfState DEF DeliveryFails, StreamInduct, StreamTyped, WatchProtocol, NoEntry
  <1>2. entry.last <= cut
    BY <1>1 DEF StreamInduct, Pipeline, EntryFits
  <1>3. << >> \in Seq(Nat) /\ Len(<< >>) = 0 /\ DOMAIN << >> = {}
    OBVIOUS
  <1>4. entry' \in Entries /\ entry'.on /\ entry'.last = entry.last /\ entry'.pending = << >>
        /\ entry'.resync /\ entry'.pump = "idle"
    BY <1>1, <1>3 DEF Entries
  <1>5. EntryFits(entry', cut)
    BY <1>2, <1>3, <1>4 DEF EntryFits
  <1>6. failures' \in Nat
    BY <1>1
  <1>7. QED
    BY <1>1, <1>4, <1>5, <1>6, EntryChanged

\* No stream is called like a request of the watch.
LEMMA NamesDiffer ==
  ASSUME NEW s \in Streams
  PROVE  s # "watch" /\ s # "unwatch" /\ s # "none"
  BY StreamAssumption

\* The Data Worker begins the watch and answers with the cut it begins at.
LEMMA HandleWatchKept ==
  ASSUME StreamInduct, HandleWatch
  PROVE  StreamInduct'
  <1> DEFINE x == [kind |-> "watched", cut |-> cut]
  <1>1. /\ "watch" \in requests /\ entry' = [NoEntry EXCEPT !.on = TRUE, !.last = cut]
        /\ replies' = replies \cup {x} /\ requests' = requests \ {"watch"}
        /\ cut' = cut /\ failures' = failures /\ port' = port /\ remote' = remote
        /\ UNCHANGED hostVars /\ UNCHANGED clientVars
    BY DEF HandleWatch
  <1>2. Core' = Core /\ cut \in Nat
    BY <1>1, HostSame, CoreOfState
  <1>3. x \in Watched /\ x.cut = cut /\ x \notin Snapshots /\ \A s \in Streams : x \notin SnapshotOf(s)
    BY <1>2 DEF Watched, Snapshots, SnapshotOf
  <1> HIDE DEF x
  <1>4. /\ remote = "asked" /\ ~entry.on /\ entry = NoEntry
        /\ replies \cap Watched = {} /\ NoneOf(Watched, port) /\ NoneOf(Updates, port)
        /\ NoneOf(Unwatched, port) /\ "unwatch" \notin requests
    BY <1>1 DEF StreamInduct, WatchProtocol, Watching, NoEntry
  <1>5. entry' \in Entries /\ entry'.on /\ entry'.last = cut /\ entry'.pending = << >>
        /\ ~entry'.resync /\ entry'.pump = "idle"
    <2>1. << >> \in Seq(Nat)
      OBVIOUS
    <2>2. QED
      BY <1>1, <1>2, <2>1 DEF Entries, NoEntry
  <1>6. watch.pending = << >> /\ ~watch.over /\ ~ (watch.on /\ ~watch.initializing)
    BY <1>1, <1>4 DEF StreamInduct, StreamPlaces, Placed, Core
  <1>7. StreamTyped'
    BY <1>1, <1>2, <1>3, <1>5 DEF StreamInduct, StreamTyped, clientVars
  <1>8. WatchProtocol'
    <2>1. \A a, b \in replies' \cap Watched : a = b
      BY <1>1, <1>4
    <2>2. "watch" \notin requests' /\ "unwatch" \notin requests'
      BY <1>1, <1>4
    <2>3. QED
      BY <1>1, <1>4, <1>5, <2>1, <2>2 DEF StreamInduct, WatchProtocol, Watching
  <1>9. StreamPlaces'
    <2>1. "watch" \notin requests'
      BY <1>1
    <2>2. QED
      BY <1>1, <1>2, <2>1 DEF StreamInduct, StreamPlaces, Placed
  <1>10. Shapes' /\ ClientsFit' /\ CoreFits(Core)'
    BY <1>1, <1>2 DEF StreamInduct, Shapes, hostVars, clientVars, ClientsFit, NoGap
  <1>11. Tokens'
    <2>1. ASSUME NEW s \in Streams PROVE Token(s, s \in requests', replies', port, stream[s])
      <3>1. Token(s, s \in requests, replies, port, stream[s])
        BY DEF StreamInduct, Tokens
      <3>2. (s \in requests' <=> s \in requests) /\ replies' \cap SnapshotOf(s) = replies \cap SnapshotOf(s)
        BY <1>1, <1>3, NamesDiffer
      <3>3. QED
        BY <3>1, <3>2 DEF Token
    <2>2. QED
      BY <1>1, <2>1 DEF Tokens, hostVars
  <1>12. Pipeline'
    <2>1. Len(<< >>) = 0 /\ DOMAIN << >> = {}
      OBVIOUS
    <2>2. EntryFits(entry', cut')
      BY <1>1, <1>2, <1>5, <2>1 DEF EntryFits
    <2>3. QED
      BY <1>1, <1>4, <2>2 DEF Pipeline, NoneOf
  <1>13. WatchFollows'
    <2>1. WatchFits(Core, cut, entry.last)
      BY DEF StreamInduct, WatchFollows
    <2>2. WatchFits(Core, cut, cut)
      BY <1>6, <2>1 DEF WatchFits, Core
    <2>3. QED
      BY <1>1, <1>2, <1>5, <2>2 DEF WatchFollows
  <1>14. AnswersFit'
    <2>1. Answers' = Answers \cup {x}
      BY <1>1 DEF Answers
    <2>2. Answers \cap Watched = {}
      BY <1>4 DEF Answers, NoneOf
    <2>3. x.cut <= cut' /\ WatchedFits(Core, cut, x)
      <3>1. Before(Core, Core.rev) <= cut
        BY DEF StreamInduct, WatchFollows, WatchFits
      <3>2. Core.watch.pending = << >>
        BY <1>6 DEF Core
      <3>3. QED
        BY <1>1, <1>2, <1>3, <3>1, <3>2 DEF WatchedFits
    <2>4. QED
      BY <1>1, <1>2, <1>3, <1>5, <2>1, <2>2, <2>3 DEF StreamInduct, AnswersFit
  <1>15. QED
    BY <1>7, <1>8, <1>9, <1>10, <1>11, <1>12, <1>13, <1>14 DEF StreamInduct

\* The Data Worker ends the watch; what it had posted is still on its way.
LEMMA HandleUnwatchKept ==
  ASSUME StreamInduct, HandleUnwatch
  PROVE  StreamInduct'
  <1> DEFINE x == [kind |-> "unwatched"]
  <1>1. /\ "unwatch" \in requests /\ entry' = NoEntry /\ port' = Append(port, x)
        /\ requests' = requests \ {"unwatch"} /\ cut' = cut /\ replies' = replies
        /\ failures' = failures /\ remote' = remote /\ UNCHANGED hostVars /\ UNCHANGED clientVars
    BY DEF HandleUnwatch
  <1>2. Core' = Core /\ cut \in Nat /\ port \in Seq(Posts)
    BY <1>1, HostSame, CoreOfState
  <1>3. x \in Posts /\ x \in Unwatched /\ x \notin Watched /\ x \notin Updates
        /\ \A s \in Streams : x \notin SnapshotOf(s)
    BY DEF Posts, Unwatched, Watched, Updates, SnapshotOf
  <1> HIDE DEF x
  <1>4. /\ remote = "stopping" /\ entry.on /\ "watch" \notin requests
        /\ replies \cap Watched = {} /\ NoneOf(Watched, port) /\ NoneOf(Unwatched, port)
    BY <1>1 DEF StreamInduct, WatchProtocol, Watching
  <1>5. NoEntry \in Entries /\ ~NoEntry.on /\ NoEntry.last = 0
    <2>1. << >> \in Seq(Nat)
      OBVIOUS
    <2>2. QED
      BY <2>1 DEF Entries, NoEntry
  <1>6. watch.pending = << >> /\ ~watch.over /\ ~ (watch.on /\ ~watch.initializing)
    BY <1>1, <1>4 DEF StreamInduct, StreamPlaces, Placed, Core
  <1>7. port' \in Seq(Posts) /\ Once(Updates, port') /\ Once(Watched, port') /\ Once(Unwatched, port')
        /\ UpdatesFirst(port') /\ NoneOf(Watched, port')
    <2>1. Once(Updates, port) /\ Once(Watched, port) /\ Once(Unwatched, port) /\ UpdatesFirst(port)
      BY DEF StreamInduct, WatchProtocol
    <2>2. Append(port, x) \in Seq(Posts)
      BY <1>2, <1>3
    <2>3. Once(Updates, Append(port, x)) /\ Once(Watched, Append(port, x)) /\ Once(Unwatched, Append(port, x))
      BY <1>2, <1>3, <1>4, <2>1, OnceAppended
    <2>4. UpdatesFirst(Append(port, x))
      BY <1>2, <1>3, <2>1, UpdatesFirstAppended
    <2>5. NoneOf(Watched, Append(port, x))
      BY <1>2, <1>3, <1>4, NoneAppended
    <2>6. QED
      BY <1>1, <2>2, <2>3, <2>4, <2>5
  <1>8. StreamTyped'
    BY <1>1, <1>2, <1>5, <1>7 DEF StreamInduct, StreamTyped, clientVars
  <1>9. WatchProtocol'
    <2>1. "watch" \notin requests' /\ "unwatch" \notin requests'
      BY <1>1, <1>4
    <2>2. QED
      BY <1>1, <1>4, <1>5, <1>7, <2>1 DEF StreamInduct, WatchProtocol, Watching
  <1>10. StreamPlaces'
    <2>1. "watch" \in requests' <=> "watch" \in requests
      BY <1>1
    <2>2. QED
      BY <1>1, <1>2, <2>1 DEF StreamInduct, StreamPlaces, Placed
  <1>11. Shapes' /\ ClientsFit' /\ CoreFits(Core)'
    BY <1>1, <1>2 DEF StreamInduct, Shapes, hostVars, clientVars, ClientsFit, NoGap
  <1>12. Tokens'
    <2>1. ASSUME NEW s \in Streams PROVE Token(s, s \in requests', replies, Append(port, x), stream[s])
      <3>1. Token(s, s \in requests, replies, port, stream[s])
        BY DEF StreamInduct, Tokens
      <3>2. s \in requests' <=> s \in requests
        BY <1>1, NamesDiffer
      <3>3. QED
        BY <1>2, <1>3, <3>1, <3>2, TokenPosted
    <2>2. QED
      BY <1>1, <2>1 DEF Tokens, hostVars
  <1>13. Pipeline'
    BY <1>1, <1>5 DEF Pipeline
  <1>14. WatchFollows'
    <2>1. WatchFits(Core, cut, entry.last)
      BY DEF StreamInduct, WatchFollows
    <2>2. WatchFits(Core, cut, 0)
      BY <1>6, <2>1 DEF WatchFits, Core
    <2>3. QED
      BY <1>1, <1>2, <1>5, <2>2 DEF WatchFollows
  <1>15. AnswersFit'
    <2>1. Answers' = Answers \cup {x}
      BY <1>1, <1>2, <1>3, AnswersPosted DEF Answers
    <2>2. Answers \cap Watched = {}
      BY <1>4 DEF Answers, NoneOf
    <2>3. x \notin Watched \cup Snapshots
      BY <1>3 DEF Unwatched, Watched, Snapshots
    <2>4. QED
      BY <1>1, <1>2, <2>1, <2>2, <2>3 DEF StreamInduct, AnswersFit
  <1>16. QED
    BY <1>8, <1>9, <1>10, <1>11, <1>12, <1>13, <1>14, <1>15 DEF StreamInduct

\* The Data Worker reads a snapshot for one subscriber.
LEMMA HandleSnapshotKept ==
  ASSUME StreamInduct, NEW s \in Streams, HandleSnapshot(s)
  PROVE  StreamInduct'
  <1> DEFINE x == [kind |-> "snapshot", cut |-> cut, stream |-> s]
  <1>1. /\ s \in requests /\ entry.pump = "idle" /\ replies' = replies \cup {x}
        /\ requests' = requests \ {s} /\ cut' = cut /\ entry' = entry /\ failures' = failures
        /\ port' = port /\ remote' = remote /\ UNCHANGED hostVars /\ UNCHANGED clientVars
    BY DEF HandleSnapshot
  <1>2. Core' = Core /\ cut \in Nat /\ Fits(Core) /\ Core \in Cores /\ watch \in Watches
        /\ Core.watch = watch /\ Core.rev = rev /\ Core.stream = stream /\ rev \in Nat
    BY <1>1, HostSame, CoreOfState
  <1>3. x \in Snapshots /\ x \notin Watched /\ x.cut = cut /\ x.stream = s /\ x \in SnapshotOf(s)
        /\ \A t \in Streams \ {s} : x \notin SnapshotOf(t)
    BY <1>2 DEF Watched, Snapshots, SnapshotOf
  <1> HIDE DEF x
  <1>4. ("watch" \in requests' <=> "watch" \in requests)
        /\ ("unwatch" \in requests' <=> "unwatch" \in requests)
    BY <1>1, NamesDiffer
  <1>5. replies' \cap Watched = replies \cap Watched
    BY <1>1, <1>3
  <1>6. StreamTyped'
    BY <1>1, <1>2, <1>3 DEF StreamInduct, StreamTyped, clientVars
  <1>7. WatchProtocol'
    BY <1>1, <1>4, <1>5 DEF StreamInduct, WatchProtocol, Watching
  <1>8. StreamPlaces'
    BY <1>1, <1>2, <1>4 DEF StreamInduct, StreamPlaces, Placed
  <1>9. Shapes' /\ ClientsFit' /\ CoreFits(Core)' /\ Pipeline' /\ WatchFollows'
    BY <1>1, <1>2 DEF StreamInduct, Shapes, hostVars, clientVars, ClientsFit, NoGap, Pipeline, WatchFollows
  <1>10. Tokens'
    <2>1. ASSUME NEW t \in Streams PROVE Token(t, t \in requests', replies', port, stream[t])
      <3>1. Token(t, t \in requests, replies, port, stream[t])
        BY DEF StreamInduct, Tokens
      <3>2. CASE t = s
        <4>1. replies \cap SnapshotOf(s) = {} /\ NoneOf(SnapshotOf(s), port) /\ s \notin requests'
              /\ stream[s].at \in {"reading", "live"}
          BY <1>1, <3>1, <3>2 DEF Token
        <4>2. replies' \cap SnapshotOf(s) = {x}
          BY <1>1, <1>3, <4>1
        <4>3. QED
          BY <1>1, <3>1, <3>2, <4>1, <4>2 DEF Token
      <3>3. CASE t # s
        <4>1. (t \in requests' <=> t \in requests) /\ replies' \cap SnapshotOf(t) = replies \cap SnapshotOf(t)
          BY <1>1, <1>3, <3>3
        <4>2. QED
          BY <3>1, <4>1 DEF Token
      <3>4. QED
        BY <3>2, <3>3
    <2>2. QED
      BY <1>1, <2>1 DEF Tokens, hostVars
  <1>11. AnswersFit'
    <2>1. Answers' = Answers \cup {x}
      BY <1>1 DEF Answers
    <2>2. Before(Core, rev) <= cut /\ (watch.on /\ ~watch.initializing => watch.cut <= cut)
          /\ (~watch.on => watch.cut = 0)
      <3>1. Before(Core, rev) <= cut /\ (watch.on /\ ~watch.initializing => watch.cut <= cut)
        BY <1>2 DEF StreamInduct, WatchFollows, WatchFits
      <3>2. ~watch.on => watch = NoWatch
        BY <1>2 DEF StreamInduct, StreamPlaces, Placed
      <3>3. QED
        BY <3>1, <3>2 DEF NoWatch
    <2>3. ASSUME Subscribed(Core, s), ~stream[s].resync PROVE Before(Core, Start(Core, s)) <= cut
      <3>1. Start(Core, s) \in 0 .. rev /\ rev \in 0 .. rev
        BY <1>2, <2>3, StartIsRevision
      <3>2. Before(Core, Start(Core, s)) <= Before(Core, rev)
        BY <1>2, <3>1 DEF Fits, CoreFits
      <3>3. Before(Core, Start(Core, s)) \in Nat /\ Before(Core, rev) \in Nat
        BY <1>2, <3>1, BeforeIsCut DEF Fits, CoreFits
      <3>4. QED
        BY <1>2, <2>2, <3>2, <3>3
    <2>4. ASSUME ~watch.initializing PROVE Holds(Core, s, cut)
      <3>1. watch.cut \in Nat /\ watch.cut <= cut
        BY <1>2, <2>2, <2>4 DEF Watches
      <3>2. cut + 1 .. watch.cut = {}
        BY <1>2, <3>1
      <3>3. QED
        BY <1>2, <3>2 DEF Holds
    <2>5. AnswerFits(Core, x)
      BY <1>2, <1>3, <2>2, <2>3, <2>4 DEF AnswerFits
    <2>6. x.cut <= cut'
      BY <1>1, <1>2, <1>3
    <2>7. QED
      BY <1>1, <1>2, <1>3, <2>1, <2>5, <2>6 DEF StreamInduct, AnswersFit
  <1>12. QED
    BY <1>6, <1>7, <1>8, <1>9, <1>10, <1>11 DEF StreamInduct

\* An answer is posted, behind the updates posted before it.
LEMMA ReplyKept ==
  ASSUME StreamInduct, NEW r \in replies, Reply(r)
  PROVE  StreamInduct'
  <1>1. /\ replies' = replies \ {r} /\ port' = Append(port, r)
        /\ requests' = requests /\ cut' = cut /\ entry' = entry /\ failures' = failures
        /\ remote' = remote /\ UNCHANGED hostVars /\ UNCHANGED clientVars
    BY DEF Reply
  <1>2. Core' = Core /\ port \in Seq(Posts) /\ replies \subseteq Watched \cup Snapshots
    BY <1>1, HostSame, CoreOfState DEF StreamInduct, StreamTyped
  <1>3. r \in Posts /\ r \in Watched \cup Snapshots /\ r \notin Updates /\ r \notin Unwatched
    BY <1>2 DEF Posts, Unwatched, Watched, Updates, Snapshots
  <1>4. StreamTyped'
    <2>1. port' \in Seq(Posts)
      BY <1>1, <1>2, <1>3
    <2>2. QED
      BY <1>1, <1>2, <2>1 DEF StreamInduct, StreamTyped, clientVars
  <1>5. WatchProtocol'
    <2>1. Once(Updates, port) /\ Once(Watched, port) /\ Once(Unwatched, port) /\ UpdatesFirst(port)
      BY DEF StreamInduct, WatchProtocol
    <2>2. r \in Watched => NoneOf(Watched, port) /\ replies' \cap Watched = {}
      BY <1>1 DEF StreamInduct, WatchProtocol
    <2>3. Once(Updates, port') /\ Once(Watched, port') /\ Once(Unwatched, port')
      <3>1. Once(Updates, Append(port, r))
        BY <1>2, <1>3, <2>1, OnceAppended
      <3>2. Once(Unwatched, Append(port, r))
        BY <1>2, <1>3, <2>1, OnceAppended
      <3>3. Once(Watched, Append(port, r))
        BY <1>2, <1>3, <2>1, <2>2, OnceAppended
      <3>4. QED
        BY <1>1, <3>1, <3>2, <3>3
    <2>4. UpdatesFirst(port')
      BY <1>1, <1>2, <1>3, <2>1, UpdatesFirstAppended
    <2>5. /\ NoneOf(Updates, port') <=> NoneOf(Updates, port)
          /\ NoneOf(Unwatched, port') <=> NoneOf(Unwatched, port)
          /\ NoneOf(Watched, port') <=> NoneOf(Watched, port) /\ r \notin Watched
      BY <1>1, <1>2, <1>3, NoneAppended
    <2>6. replies' \cap Watched \subseteq replies \cap Watched
      BY <1>1
    <2>7. replies \cap Watched = {} => r \notin Watched
      OBVIOUS
    <2>8. QED
      BY <1>1, <2>2, <2>3, <2>4, <2>5, <2>6, <2>7 DEF StreamInduct, WatchProtocol, Watching
  <1>6. StreamPlaces' /\ Shapes' /\ ClientsFit' /\ CoreFits(Core)' /\ WatchFollows'
    BY <1>1, <1>2 DEF StreamInduct, StreamPlaces, Shapes, hostVars, clientVars, ClientsFit, NoGap, WatchFollows
  <1>7. Tokens'
    <2>1. ASSUME NEW s \in Streams PROVE Token(s, s \in requests, replies', Append(port, r), stream[s])
      <3>1. Token(s, s \in requests, replies, port, stream[s])
        BY DEF StreamInduct, Tokens
      <3>2. CASE r \in SnapshotOf(s)
        <4>1. NoneOf(SnapshotOf(s), port) /\ s \notin requests /\ replies' \cap SnapshotOf(s) = {}
              /\ replies \cap SnapshotOf(s) # {}
          BY <1>1, <3>1, <3>2 DEF Token
        <4>2. Once(SnapshotOf(s), Append(port, r))
          BY <1>2, <1>3, <3>1, <4>1, OnceAppended DEF Token
        <4>3. QED
          BY <3>1, <4>1, <4>2 DEF Token
      <3>3. CASE r \notin SnapshotOf(s)
        <4>1. replies' \cap SnapshotOf(s) = replies \cap SnapshotOf(s)
          BY <1>1, <3>3
        <4>2. Token(s, s \in requests, replies', port, stream[s])
          BY <3>1, <4>1 DEF Token
        <4>3. QED
          BY <1>2, <1>3, <3>3, <4>2, TokenPosted
      <3>4. QED
        BY <3>2, <3>3
    <2>2. QED
      BY <1>1, <2>1 DEF Tokens, hostVars
  <1>8. Pipeline'
    <2>1. ASSUME NEW i \in DOMAIN port', port'[i] \in Updates
          PROVE  i \in DOMAIN port /\ port'[i] = port[i]
      <3>1. /\ port'[Len(port) + 1] = r /\ \A j \in DOMAIN port : port'[j] = port[j]
            /\ \A j \in DOMAIN port' : j \in DOMAIN port \/ j = Len(port) + 1
        BY <1>1, <1>2, <1>3, Appended
      <3>2. QED
        BY <1>3, <2>1, <3>1
    <2>2. QED
      BY <1>1, <2>1 DEF StreamInduct, Pipeline
  <1>9. AnswersFit'
    <2>1. Answers' \subseteq Answers
      BY <1>1, <1>2, <1>3, AnswersPosted DEF Answers
    <2>2. QED
      BY <1>1, <1>2, <2>1, AnswersSame
  <1>10. QED
    BY <1>4, <1>5, <1>6, <1>7, <1>8, <1>9 DEF StreamInduct

-----------------------------------------------------------------------------
(* The steps of the Core and of the clients.                               *)

\* A snapshot on its way depends on its subscriber, the revisions and the watch.
LEMMA AnswerLocal ==
  ASSUME NEW c, NEW n, NEW a, n.stream[a.stream] = c.stream[a.stream], n.rev = c.rev,
         n.shown = c.shown, n.watch.cut = c.watch.cut, n.watch.base = c.watch.base,
         n.watch.initializing = c.watch.initializing, AnswerFits(c, a)
  PROVE  AnswerFits(n, a)
  <1>1. \A i : Before(n, i) = Before(c, i)
    BY DEF Before
  <1>2. Start(n, a.stream) = Start(c, a.stream) /\ (Subscribed(n, a.stream) <=> Subscribed(c, a.stream))
        /\ (Holds(n, a.stream, a.cut) <=> Holds(c, a.stream, a.cut))
    BY DEF Start, Subscribed, Holds
  <1>3. QED
    BY <1>1, <1>2 DEF AnswerFits

\* Nothing is asked of a snapshot whose subscriber has left.
LEMMA AnswerIdle ==
  ASSUME NEW n, NEW a, ~Subscribed(n, a.stream)
  PROVE  AnswerFits(n, a)
  BY DEF AnswerFits

\* What a client follows depends on its subscriber, the revisions and the watch.
LEMMA ClientLocal ==
  ASSUME NEW c, NEW n, NEW s, n.stream[s] = c.stream[s], n.rev = c.rev, n.shown = c.shown,
         n.watch.cut = c.watch.cut, NEW w, NEW st, NEW late, ClientFits(c, s, w, st, late)
  PROVE  ClientFits(n, s, w, st, late)
  <1>1. \A i : Before(n, i) = Before(c, i)
    BY DEF Before
  <1>2. Start(n, s) = Start(c, s) /\ Reached(n, s) = Reached(c, s)
        /\ \A d : Holds(n, s, d) <=> Holds(c, s, d)
    BY DEF Start, Reached, Holds
  <1>3. \A x : GoodState(n, x) <=> GoodState(c, x)
    BY <1>1 DEF GoodState
  <1>4. Following(n, s, After(w, st), late) <=> Following(c, s, After(w, st), late)
    BY <1>2, <1>3 DEF Following
  <1>5. QED
    BY <1>3, <1>4 DEF ClientFits

\* Nothing is asked of a client whose subscriber is not live.
LEMMA ClientIdle ==
  ASSUME NEW n, NEW s, n.stream[s].at # "live", NEW st, NEW late
  PROVE  ClientFits(n, s, << >>, st, late)
  BY DEF ClientFits

\* The Core after a step is the record the step makes of it.
LEMMA BecomesCore ==
  ASSUME NEW n \in Cores, Becomes(n)
  PROVE  Core' = n
  BY PartsOfCore DEF Becomes, Core

\* A control frame takes no delta away from a queue that stays without
\* resynchronisation.
LEMMA PublishedHolds ==
  ASSUME NEW c, Fits(c), NEW n, n = Publish(c, 0), NEW s \in Streams, NEW d \in Nat,
         Subscribed(c, s), ~n.stream[s].resync, Holds(c, s, d)
  PROVE  Holds(n, s, d)
  <1> DEFINE f == [rev |-> c.rev + 1, cut |-> 0]
             q == c.stream[s].q
  <1>1. n.watch = c.watch /\ n.stream[s].q = Append(q, f)
    BY PublishFits
  <1>2. q \in Seq(Published) /\ f \in Published
    BY PartsOfCore, PartsOfSubscriber DEF Fits, Published
  <1> HIDE DEF f, q
  <1>3. /\ DOMAIN n.stream[s].q = 1 .. Len(q) + 1
        /\ \A i \in DOMAIN q : n.stream[s].q[i] = q[i] /\ i \in DOMAIN n.stream[s].q
    BY <1>1, <1>2, Appended, SMTT(40)
  <1>4. \A x \in d + 1 .. c.watch.cut : \E i \in DOMAIN q : q[i].cut = x
    BY DEF Holds, q
  <1>5. \A x \in d + 1 .. c.watch.cut : \E i \in DOMAIN n.stream[s].q : n.stream[s].q[i].cut = x
    <2>1. ASSUME NEW x \in d + 1 .. c.watch.cut
          PROVE  \E i \in DOMAIN n.stream[s].q : n.stream[s].q[i].cut = x
      <3>1. PICK i \in DOMAIN q : q[i].cut = x
        BY <1>4
      <3>2. QED
        BY <1>3, <3>1
    <2>2. QED
      BY <2>1
  <1>6. QED
    BY <1>1, <1>5 DEF Holds

\* A change of the control state is published as a frame without a delta.
LEMMA ControlChangesKept ==
  ASSUME StreamInduct, ControlChanges
  PROVE  StreamInduct'
  <1> DEFINE n == Publish(Core, 0)
  <1>1. Becomes(n) /\ cut' = cut /\ entry' = entry /\ requests' = requests /\ replies' = replies
        /\ failures' = failures /\ port' = port /\ remote' = remote /\ UNCHANGED clientVars
    BY DEF ControlChanges, dataVars
  <1>2. Fits(Core) /\ Core \in Cores /\ Core.rev = rev /\ Core.watch = watch /\ Core.stream = stream
        /\ rev \in Nat
    BY CoreOfState
  <1>3. Fits(n) /\ Advanced(Core, n) /\ n.watch = watch /\ Before(n, n.rev) = Before(Core, rev)
    <2>1. LET k == Publish(Core, 0)
          IN  Fits(k) /\ Advanced(Core, k) /\ k.watch = Core.watch
              /\ Before(k, k.rev) = Before(Core, Core.rev)
      BY <1>2, PublishFits
    <2> HIDE DEF n
    <2>2. QED
      BY <1>2, <2>1 DEF n
  <1>4. \A s \in Streams, d \in Nat :
          Subscribed(Core, s) /\ ~n.stream[s].resync /\ Holds(Core, s, d) => Holds(n, s, d)
    BY <1>2, PublishedHolds
  <1> HIDE DEF n
  <1>5. n \in Cores /\ Core' = n
    <2>1. n \in Cores
      BY <1>3 DEF Fits
    <2>2. QED
      BY <1>1, <2>1, BecomesCore
  <1>6. stream' = n.stream
    BY <1>1 DEF Becomes
  <1>7. StreamTyped'
    BY <1>1, <1>5 DEF StreamInduct, StreamTyped, clientVars
  <1>8. WatchProtocol' /\ Pipeline'
    BY <1>1 DEF StreamInduct, WatchProtocol, Watching, Pipeline
  <1>9. StreamPlaces'
    BY <1>1, <1>2, <1>3, <1>5, PlacedAdvanced DEF StreamInduct, StreamPlaces
  <1>10. Tokens'
    <2>1. ASSUME NEW s \in Streams PROVE Token(s, s \in requests, replies, port, n.stream[s])
      <3>1. n.stream[s].at = stream[s].at /\ n.stream[s].resnap = stream[s].resnap
        BY <1>2, <1>3, <1>5, PlacesKept
      <3>2. Token(s, s \in requests, replies, port, stream[s])
        BY DEF StreamInduct, Tokens
      <3>3. QED
        BY <3>1, <3>2, TokenSame
    <2>2. QED
      BY <1>1, <1>6, <2>1 DEF Tokens
  <1>11. Shapes'
    <2>1. ASSUME NEW s \in Streams PROVE Shape(n.stream[s], wire[s])
      BY <1>2, <1>3, ShapeAdvanced DEF StreamInduct, Shapes
    <2>2. QED
      BY <1>1, <1>6, <2>1 DEF Shapes, clientVars
  <1>12. WatchFollows'
    <2>1. WatchFits(n, cut, entry.last)
      BY <1>2, <1>3 DEF StreamInduct, WatchFollows, WatchFits
    <2>2. QED
      BY <1>1, <1>5, <2>1 DEF WatchFollows
  <1>13. CoreFits(Core)'
    BY <1>3, <1>5 DEF Fits
  <1>14. AnswersFit'
    <2>1. Answers' = Answers
      BY <1>1 DEF Answers
    <2>2. ASSUME NEW a \in Answers, a \in Watched PROVE WatchedFits(n, entry.last, a)
      BY <1>2, <1>3, <2>2 DEF StreamInduct, AnswersFit, WatchedFits
    <2>3. ASSUME NEW a \in Answers, a \in Snapshots PROVE AnswerFits(n, a)
      <3>1. AnswerFits(Core, a) /\ CoreFits(Core)
        BY <2>3 DEF StreamInduct, AnswersFit
      <3>2. Core.watch.initializing => Before(n, n.rev) = Before(Core, Core.rev)
        BY <1>2, <1>3
      <3>3. QED
        BY <1>2, <1>3, <1>4, <1>5, <2>3, <3>1, <3>2, AnswerAdvanced
    <2>4. QED
      BY <1>1, <1>5, <2>1, <2>2, <2>3 DEF StreamInduct, AnswersFit
  <1>15. ClientsFit'
    <2>1. ASSUME NEW s \in Streams PROVE ClientFits(n, s, wire[s], client[s], behind)
      <3>1. ClientFits(Core, s, wire[s], client[s], behind)
        BY DEF StreamInduct, ClientsFit
      <3>2. QED
        BY <1>2, <1>3, <1>4, <1>5, <3>1, ClientAdvanced
    <2>2. QED
      BY <1>1, <1>5, <2>1 DEF StreamInduct, ClientsFit, clientVars, NoGap
  <1>16. QED
    BY <1>7, <1>8, <1>9, <1>10, <1>11, <1>12, <1>13, <1>14, <1>15 DEF StreamInduct

\* No subscriber is there without a watch.
LEMMA NobodyWatches ==
  ASSUME StreamInduct, ~watch.on, NEW s \in Streams
  PROVE  ~Subscribed(Core, s) /\ remote \in {"none", "stopping"} /\ stream[s].at # "live"
  BY CoreOfState DEF StreamInduct, StreamTyped, StreamPlaces, Placed, Subscribed

\* Nothing is on its way for a subscriber that is off.
LEMMA NothingAsked ==
  ASSUME StreamInduct, NEW s \in Streams, stream[s].at = "off"
  PROVE  s \notin requests /\ replies \cap SnapshotOf(s) = {} /\ NoneOf(SnapshotOf(s), port)
  BY DEF StreamInduct, Tokens, Token

\* A snapshot among the answers is one of a subscriber and still to be taken.
LEMMA AnswerOf ==
  ASSUME StreamInduct, NEW a \in Answers, a \in Snapshots
  PROVE  /\ a.stream \in Streams
         /\ ~ (replies \cap SnapshotOf(a.stream) = {} /\ NoneOf(SnapshotOf(a.stream), port))
  <1>1. a \in SnapshotOf(a.stream) /\ a.stream \in Streams
    BY DEF Snapshots, SnapshotOf
  <1>2. QED
    BY <1>1 DEF Answers, NoneOf

\* What nobody subscribed is.
LEMMA PartsOfNoStream ==
  /\ NoStream \in Subscribers /\ NoStream.at = "off" /\ NoStream.q = << >> /\ ~NoStream.resync
  /\ ~NoStream.busy /\ ~NoStream.resnap /\ NoStream.cut = 0
  <1>1. << >> \in Seq(Published)
    OBVIOUS
  <1>2. QED
    BY <1>1 DEF NoStream, Subscribers

\* A subscriber whose place alone changes.
LEMMA PlaceChanged ==
  ASSUME NEW st \in Subscribers, NEW a \in {"off", "waiting", "reading", "live", "closed"},
         NEW n, n = [st EXCEPT !.at = a]
  PROVE  /\ n \in Subscribers /\ n.at = a /\ n.q = st.q /\ n.resync = st.resync
         /\ n.busy = st.busy /\ n.cut = st.cut /\ n.resnap = st.resnap
  BY DEF Subscribers

\* A subscription joins the watch there is or asks for one.
LEMMA SubscribeKept ==
  ASSUME StreamInduct, NEW s \in Streams, Subscribe(s)
  PROVE  StreamInduct'
  <1> DEFINE at == IF watch.on /\ remote = "ready" THEN "reading" ELSE "waiting"
             asks == remote = "none"
  <1>1. /\ stream[s].at = "off" /\ stream' = [stream EXCEPT ![s].at = at]
        /\ requests' = requests \cup (IF at = "reading" THEN {s} ELSE {})
                                \cup (IF asks THEN {"watch"} ELSE {})
        /\ remote' = IF asks THEN "asked" ELSE remote
        /\ watch' = IF watch.on THEN watch
                    ELSE [NoWatch EXCEPT !.on = TRUE, !.initializing = TRUE, !.first = s]
        /\ cut' = cut /\ entry' = entry /\ replies' = replies /\ failures' = failures
        /\ port' = port /\ rev' = rev /\ shown' = shown /\ UNCHANGED clientVars
    BY DEF Subscribe
  <1> DEFINE n == [rev |-> rev, shown |-> shown, watch |-> watch', stream |-> stream']
  <1>2. Fits(Core) /\ Core \in Cores /\ Core.rev = rev /\ Core.watch = watch /\ Core.stream = stream
        /\ Core.shown = shown /\ rev \in Nat /\ shown \in Seq(Nat) /\ watch \in Watches
        /\ stream \in [Streams -> Subscribers]
    BY CoreOfState
  <1>3. at \in {"reading", "waiting"} /\ (at = "reading" <=> watch.on /\ remote = "ready")
        /\ (at = "waiting" <=> ~(watch.on /\ remote = "ready"))
    OBVIOUS
  <1> HIDE DEF at
  <1>4. /\ stream' \in [Streams -> Subscribers] /\ stream'[s].at = at /\ stream'[s].q = << >>
        /\ ~stream'[s].resync /\ ~stream'[s].busy /\ ~stream'[s].resnap
        /\ \A t \in Streams \ {s} : stream'[t] = stream[t]
    <2>1. stream[s] = NoStream
      BY <1>1 DEF StreamInduct, Shapes, Shape
    <2> DEFINE st == [NoStream EXCEPT !.at = at]
    <2>2. st \in Subscribers /\ st.at = at /\ st.q = << >> /\ ~st.resync /\ ~st.busy /\ ~st.resnap
      <3>1. at \in {"off", "waiting", "reading", "live", "closed"} /\ NoStream \in Subscribers
        BY <1>3, PartsOfNoStream
      <3>2. st = [NoStream EXCEPT !.at = at]
        OBVIOUS
      <3> HIDE DEF st
      <3>3. st \in Subscribers /\ st.at = at /\ st.q = NoStream.q /\ st.resync = NoStream.resync
            /\ st.busy = NoStream.busy /\ st.resnap = NoStream.resnap
        BY <3>1, <3>2, PlaceChanged
      <3>4. QED
        BY <3>3, PartsOfNoStream
    <2>3. stream' = [stream EXCEPT ![s] = st]
      BY <1>1, <2>1
    <2> HIDE DEF st
    <2>4. QED
      BY <1>2, <2>2, <2>3
  <1>5. /\ watch' \in Watches /\ watch'.on
        /\ watch.on => watch' = watch
        /\ ~watch.on => /\ watch'.initializing /\ watch'.pending = << >> /\ ~watch'.over
                        /\ watch'.first = s
    <2>1. CASE watch.on
      BY <1>1, <1>2, <2>1
    <2>2. CASE ~watch.on
      <3>1. << >> \in Seq(Updates)
        OBVIOUS
      <3>2. watch' = [on |-> TRUE, initializing |-> TRUE, cut |-> 0, base |-> 0,
                      pending |-> << >>, over |-> FALSE, first |-> s]
        BY <1>1, <2>2 DEF NoWatch
      <3>3. QED
        BY <2>2, <3>1, <3>2 DEF Watches
    <2>3. QED
      BY <2>1, <2>2
  <1>6. Core' = n /\ n \in Cores /\ n.rev = rev /\ n.shown = shown /\ n.watch = watch'
        /\ n.stream = stream'
    BY <1>1, <1>2, <1>4, <1>5 DEF Core, Cores
  <1> HIDE DEF n
  <1>7. s \notin requests /\ replies \cap SnapshotOf(s) = {} /\ NoneOf(SnapshotOf(s), port)
    BY <1>1, NothingAsked
  <1>8. ("watch" \in requests' <=> "watch" \in requests \/ remote = "none")
        /\ ("unwatch" \in requests' <=> "unwatch" \in requests)
        /\ (s \in requests' <=> at = "reading")
        /\ \A t \in Streams \ {s} : t \in requests' <=> t \in requests
    BY <1>1, <1>7, NamesDiffer
  <1>9. remote \in {"none", "asked", "ready", "stopping"}
    BY DEF StreamInduct, StreamTyped
  <1>10. Placed(Core, remote, "watch" \in requests)
    BY DEF StreamInduct, StreamPlaces
  <1>11. Fits(n)
    <2>1. ASSUME NEW t \in Streams
          PROVE  /\ Len(n.stream[t].q) <= FrameLimit
                 /\ Subscribed(n, t) /\ ~n.stream[t].resync => FramesFollow(Core, n.stream[t].q)
      <3>1. CASE t = s
        <4>1. Len(<< >>) = 0 /\ FrameLimit \in Nat
          BY StreamAssumption
        <4>2. QED
          BY <1>2, <1>4, <1>6, <3>1, <4>1, EmptyFollows
      <3>2. CASE t # s
        <4>1. n.stream[t] = Core.stream[t]
          BY <1>2, <1>4, <1>6, <3>2
        <4>2. Subscribed(n, t) => Subscribed(Core, t)
          BY <4>1 DEF Subscribed
        <4>3. QED
          BY <1>2, <4>1, <4>2, QueueFollows DEF Fits, Bounded
      <3>3. QED
        BY <3>1, <3>2
    <2>2. QED
      BY <1>2, <1>6, <2>1, SubscribersFit
  <1>12. StreamTyped'
    <2>1. requests' \subseteq {"watch", "unwatch"} \cup Streams
      BY <1>1 DEF StreamInduct, StreamTyped
    <2>2. remote' \in {"none", "asked", "ready", "stopping"}
      BY <1>1, <1>9
    <2>3. QED
      BY <1>1, <1>6, <2>1, <2>2 DEF StreamInduct, StreamTyped, clientVars
  <1>13. WatchProtocol'
    <2>1. CASE remote = "none"
      <3>1. remote' = "asked" /\ ~entry.on /\ entry = NoEntry /\ "unwatch" \notin requests
            /\ "watch" \notin requests
        BY <1>1, <2>1 DEF StreamInduct, WatchProtocol, Watching
      <3>2. QED
        BY <1>1, <1>8, <2>1, <3>1 DEF StreamInduct, WatchProtocol, Watching, NoEntry
    <2>2. CASE remote # "none"
      BY <1>1, <1>8, <2>2 DEF StreamInduct, WatchProtocol, Watching
    <2>3. QED
      BY <2>1, <2>2
  <1>14. Placed(n, remote', "watch" \in requests')
    <2>1. CASE watch.on
      <3>1. remote' = remote /\ ("watch" \in requests' <=> "watch" \in requests) /\ remote # "none"
            /\ watch' = watch
        BY <1>1, <1>2, <1>5, <1>8, <1>10, <2>1 DEF Placed
      <3>2. at = "waiting" => watch.initializing /\ remote \in {"asked", "stopping"}
        BY <1>2, <1>3, <1>9, <1>10, <2>1, <3>1 DEF Placed
      <3>3. watch.on /\ remote # "ready" => watch.first \in Streams /\ stream'[watch.first].at = "waiting"
        <4>1. CASE watch.first = s
          BY <1>1, <1>2, <1>10, <4>1 DEF Placed
        <4>2. CASE watch.first # s
          BY <1>2, <1>4, <1>10, <4>2 DEF Placed
        <4>3. QED
          BY <4>1, <4>2
      <3>4. \A t \in Streams :
              /\ stream'[t].at \in {"reading", "live"} => remote = "ready"
              /\ stream'[t].at = "waiting" =>
                   watch.on /\ watch.initializing /\ remote \in {"asked", "stopping"}
              /\ stream'[t].at = "live" => ~watch.initializing
        <4>1. ASSUME NEW t \in Streams
              PROVE  /\ stream'[t].at \in {"reading", "live"} => remote = "ready"
                     /\ stream'[t].at = "waiting" =>
                          watch.on /\ watch.initializing /\ remote \in {"asked", "stopping"}
                     /\ stream'[t].at = "live" => ~watch.initializing
          <5>1. CASE t = s
            BY <1>3, <1>4, <2>1, <3>2, <5>1
          <5>2. CASE t # s
            BY <1>2, <1>4, <1>10, <5>2 DEF Placed
          <5>3. QED
            BY <5>1, <5>2
        <4>2. QED
          BY <4>1
      <3>5. QED
        BY <1>2, <1>6, <1>10, <3>1, <3>3, <3>4 DEF Placed
    <2>2. CASE ~watch.on
      <3>1. at = "waiting" /\ remote \in {"none", "stopping"} /\ remote' \in {"asked", "stopping"}
        BY <1>1, <1>3, <2>2, NobodyWatches
      <3>2. \A t \in Streams \ {s} : stream'[t].at \notin {"waiting", "reading", "live"}
        BY <1>2, <1>4, <2>2, NobodyWatches DEF Subscribed
      <3>3. \A t \in Streams :
              /\ stream'[t].at \notin {"reading", "live"}
              /\ stream'[t].at = "waiting" => t = s
        BY <1>4, <3>1, <3>2
      <3>4. QED
        BY <1>4, <1>5, <1>6, <2>2, <3>1, <3>3 DEF Placed
    <2>3. QED
      BY <2>1, <2>2
  <1>15. StreamPlaces'
    BY <1>6, <1>14 DEF StreamPlaces
  <1>16. Tokens'
    <2>1. ASSUME NEW t \in Streams PROVE Token(t, t \in requests', replies, port, stream'[t])
      <3>1. Token(t, t \in requests, replies, port, stream[t])
        BY DEF StreamInduct, Tokens
      <3>2. CASE t = s
        BY <1>3, <1>4, <1>7, <1>8, <3>1, <3>2 DEF Token
      <3>3. CASE t # s
        <4>1. stream'[t] = stream[t] /\ (t \in requests' <=> t \in requests)
          BY <1>4, <1>8, <3>3
        <4>2. QED
          BY <3>1, <4>1 DEF Token
      <3>4. QED
        BY <3>2, <3>3
    <2>2. QED
      BY <1>1, <2>1 DEF Tokens
  <1>17. wire[s] = << >>
    BY <1>1 DEF StreamInduct, Shapes, Shape
  <1>18. Shapes'
    <2>1. ASSUME NEW t \in Streams PROVE Shape(stream'[t], wire[t])
      <3>1. CASE t = s
        <4>1. Len(<< >>) = 0 /\ FrameLimit \in Nat
          BY StreamAssumption
        <4>2. QED
          BY <1>3, <1>4, <1>17, <3>1, <4>1 DEF Shape
      <3>2. CASE t # s
        BY <1>4, <3>2 DEF StreamInduct, Shapes
      <3>3. QED
        BY <3>1, <3>2
    <2>2. QED
      BY <1>1, <2>1 DEF Shapes, clientVars
  <1>19. Pipeline'
    BY <1>1 DEF StreamInduct, Pipeline
  <1>20. \A i : Before(n, i) = Before(Core, i)
    BY <1>2, <1>6 DEF Before
  <1>21. WatchFollows'
    <2>1. WatchFits(Core, cut, entry.last)
      BY DEF StreamInduct, WatchFollows
    <2>2. Before(n, n.rev) <= cut
      BY <1>2, <1>6, <1>20, <2>1 DEF WatchFits
    <2>3. WatchFits(n, cut, entry.last)
      <3>1. CASE watch.on
        BY <1>2, <1>5, <1>6, <1>20, <2>1, <3>1 DEF WatchFits
      <3>2. CASE ~watch.on
        <4>1. DOMAIN << >> = {} /\ InOrder(<< >>)
          BY DEF InOrder
        <4>2. QED
          BY <1>5, <1>6, <2>2, <3>2, <4>1 DEF WatchFits
      <3>3. QED
        BY <3>1, <3>2
    <2>4. QED
      BY <1>1, <1>6, <2>3 DEF WatchFollows
  <1>22. CoreFits(Core)'
    BY <1>6, <1>11 DEF Fits
  <1>23. AnswersFit'
    <2>1. Answers' = Answers
      BY <1>1 DEF Answers
    <2>2. ASSUME NEW a \in Answers, a \in Watched PROVE WatchedFits(n, entry.last, a)
      <3>1. CASE watch.on
        BY <1>2, <1>5, <1>6, <1>20, <2>2, <3>1 DEF StreamInduct, AnswersFit, WatchedFits
      <3>2. CASE ~watch.on
        <4>1. remote # "asked"
          BY <3>2, NobodyWatches
        <4>2. replies \cap Watched = {} /\ NoneOf(Watched, port)
          BY <4>1 DEF StreamInduct, WatchProtocol, Watching
        <4>3. QED
          BY <2>2, <4>2 DEF Answers, NoneOf
      <3>3. QED
        BY <3>1, <3>2
    <2>3. ASSUME NEW a \in Answers, a \in Snapshots PROVE AnswerFits(n, a)
      <3>1. a.stream \in Streams /\ a.stream # s
        BY <1>7, <2>3, AnswerOf
      <3>2. n.stream[a.stream] = Core.stream[a.stream]
        BY <1>2, <1>4, <1>6, <3>1
      <3>3. CASE watch.on
        <4>1. n.watch = Core.watch /\ AnswerFits(Core, a)
          BY <1>2, <1>5, <1>6, <2>3, <3>3 DEF StreamInduct, AnswersFit
        <4>2. QED
          BY <1>2, <1>6, <3>2, <4>1, AnswerLocal
      <3>4. CASE ~watch.on
        <4>1. ~Subscribed(n, a.stream)
          BY <3>1, <3>2, <3>4, NobodyWatches DEF Subscribed
        <4>2. QED
          BY <4>1, AnswerIdle
      <3>5. QED
        BY <3>3, <3>4
    <2>4. QED
      BY <1>1, <1>6, <2>1, <2>2, <2>3 DEF StreamInduct, AnswersFit
  <1>24. ClientsFit'
    <2>1. ASSUME NEW t \in Streams PROVE ClientFits(n, t, wire[t], client[t], behind)
      <3>1. ClientFits(Core, t, wire[t], client[t], behind)
        BY DEF StreamInduct, ClientsFit
      <3>2. CASE t = s
        <4>1. n.stream[t].at # "live" /\ wire[t] = << >>
          BY <1>3, <1>4, <1>6, <1>17, <3>2
        <4>2. QED
          BY <4>1, ClientIdle
      <3>3. CASE t # s /\ watch.on
        <4>1. n.stream[t] = Core.stream[t] /\ n.watch.cut = Core.watch.cut
          BY <1>2, <1>4, <1>5, <1>6, <3>3
        <4>2. QED
          BY <1>2, <1>6, <3>1, <4>1, ClientLocal
      <3>4. CASE t # s /\ ~watch.on
        <4>1. n.stream[t].at # "live"
          BY <1>2, <1>4, <1>6, <3>4, NobodyWatches
        <4>2. QED
          BY <3>1, <4>1 DEF ClientFits
      <3>5. QED
        BY <3>2, <3>3, <3>4
    <2>2. QED
      BY <1>1, <1>6, <2>1 DEF StreamInduct, ClientsFit, clientVars, NoGap
  <1>25. QED
    BY <1>12, <1>13, <1>15, <1>16, <1>18, <1>19, <1>21, <1>22, <1>23, <1>24 DEF StreamInduct


\* A stream whose watch is ready is closed.
LEMMA Releases ==
  ASSUME StreamInduct, NEW s \in Streams, stream[s].at \in {"reading", "live"}, failures' \in Nat,
         Released(s)
  PROVE  StreamInduct'
  <1> DEFINE last == \A t \in Streams \ {s} : ~Subscribed(Core, t)
  <1>1. /\ stream' = [stream EXCEPT ![s] = [NoStream EXCEPT !.at = "closed"]]
        /\ wire' = [wire EXCEPT ![s] = << >>]
        /\ watch' = IF last THEN NoWatch ELSE watch
        /\ remote' = IF last THEN "stopping" ELSE remote
        /\ requests' = (requests \ {s}) \cup (IF last THEN {"unwatch"} ELSE {})
        /\ cut' = cut /\ entry' = entry /\ replies' = replies /\ port' = port /\ rev' = rev
        /\ shown' = shown /\ client' = client /\ gap' = gap /\ behind' = behind
    BY DEF Released
  <1>2. last <=> \A t \in Streams \ {s} : ~Subscribed(Core, t)
    OBVIOUS
  <1> HIDE DEF last
  <1> DEFINE n == [rev |-> rev, shown |-> shown, watch |-> watch', stream |-> stream']
  <1>3. Fits(Core) /\ Core \in Cores /\ Core.rev = rev /\ Core.watch = watch /\ Core.stream = stream
        /\ Core.shown = shown /\ rev \in Nat /\ shown \in Seq(Nat) /\ watch \in Watches
        /\ stream \in [Streams -> Subscribers]
    BY CoreOfState
  <1>4. /\ stream' \in [Streams -> Subscribers] /\ stream'[s].at = "closed" /\ stream'[s].q = << >>
        /\ ~stream'[s].resync /\ ~stream'[s].busy /\ ~stream'[s].resnap
        /\ \A t \in Streams \ {s} : stream'[t] = stream[t]
    <2> DEFINE st == [NoStream EXCEPT !.at = "closed"]
    <2>1. st \in Subscribers /\ st.at = "closed" /\ st.q = << >> /\ ~st.resync /\ ~st.busy /\ ~st.resnap
      <3>1. NoStream \in Subscribers
        BY PartsOfNoStream
      <3>2. st = [NoStream EXCEPT !.at = "closed"]
        OBVIOUS
      <3> HIDE DEF st
      <3>3. st \in Subscribers /\ st.at = "closed" /\ st.q = NoStream.q /\ st.resync = NoStream.resync
            /\ st.busy = NoStream.busy /\ st.resnap = NoStream.resnap
        BY <3>1, <3>2, PlaceChanged
      <3>4. QED
        BY <3>3, PartsOfNoStream
    <2>2. stream' = [stream EXCEPT ![s] = st]
      BY <1>1
    <2> HIDE DEF st
    <2>3. QED
      BY <1>3, <2>1, <2>2
  <1>5. NoWatch \in Watches /\ ~NoWatch.on /\ ~NoWatch.initializing /\ NoWatch.pending = << >>
        /\ ~NoWatch.over
    <2>1. << >> \in Seq(Updates)
      OBVIOUS
    <2>2. QED
      BY <2>1 DEF NoWatch, Watches
  <1>6. /\ wire'[s] = << >> /\ \A t \in Streams \ {s} : wire'[t] = wire[t]
        /\ wire' \in [Streams -> Seq(Frames)]
    <2>1. wire \in [Streams -> Seq(Frames)] /\ << >> \in Seq(Frames)
      BY DEF StreamInduct, StreamTyped
    <2>2. QED
      BY <1>1, <2>1
  <1>7. Core' = n /\ n \in Cores /\ n.rev = rev /\ n.shown = shown /\ n.watch = watch'
        /\ n.stream = stream'
    BY <1>1, <1>3, <1>4, <1>5 DEF Core, Cores
  <1> HIDE DEF n
  <1>8. Placed(Core, remote, "watch" \in requests)
    BY DEF StreamInduct, StreamPlaces
  <1>9. remote = "ready" /\ watch.on /\ entry.on /\ "watch" \notin requests /\ "unwatch" \notin requests
        /\ replies \cap Watched = {} /\ NoneOf(Watched, port) /\ NoneOf(Unwatched, port)
    <2>1. remote = "ready" /\ watch.on
      BY <1>3, <1>8 DEF Placed
    <2>2. QED
      BY <2>1 DEF StreamInduct, WatchProtocol, Watching
  <1>10. "watch" \notin requests' /\ ("unwatch" \in requests' <=> last) /\ s \notin requests'
         /\ \A t \in Streams \ {s} : t \in requests' <=> t \in requests
    BY <1>1, <1>9, NamesDiffer
  <1>11. last => \A t \in Streams : ~Subscribed(n, t) /\ stream'[t].at \notin {"waiting", "reading", "live"}
    <2>1. ASSUME last, NEW t \in Streams PROVE stream'[t].at \notin {"waiting", "reading", "live"}
      BY <1>2, <1>3, <1>4, <2>1 DEF Subscribed
    <2>2. QED
      BY <1>7, <2>1 DEF Subscribed
  <1>12. Fits(n) /\ \A i : Before(n, i) = Before(Core, i)
    <2>1. ASSUME NEW t \in Streams
          PROVE  /\ Len(n.stream[t].q) <= FrameLimit
                 /\ Subscribed(n, t) /\ ~n.stream[t].resync => FramesFollow(Core, n.stream[t].q)
      <3>1. CASE t = s
        <4>1. Len(<< >>) = 0 /\ FrameLimit \in Nat
          BY StreamAssumption
        <4>2. QED
          BY <1>3, <1>4, <1>7, <3>1, <4>1, EmptyFollows
      <3>2. CASE t # s
        <4>1. n.stream[t] = Core.stream[t]
          BY <1>3, <1>4, <1>7, <3>2
        <4>2. Subscribed(n, t) => Subscribed(Core, t)
          BY <4>1 DEF Subscribed
        <4>3. QED
          BY <1>3, <4>1, <4>2, QueueFollows DEF Fits, Bounded
      <3>3. QED
        BY <3>1, <3>2
    <2>2. QED
      BY <1>3, <1>7, <2>1, SubscribersFit
  <1>13. StreamTyped'
    <2>1. requests' \subseteq {"watch", "unwatch"} \cup Streams
      BY <1>1 DEF StreamInduct, StreamTyped
    <2>2. remote' \in {"none", "asked", "ready", "stopping"}
      BY <1>1, <1>9
    <2>3. QED
      BY <1>1, <1>6, <1>7, <2>1, <2>2 DEF StreamInduct, StreamTyped
  <1>14. WatchProtocol'
    <2>1. remote' = IF last THEN "stopping" ELSE "ready"
      BY <1>1, <1>9
    <2>2. QED
      BY <1>1, <1>9, <1>10, <2>1 DEF StreamInduct, WatchProtocol, Watching
  <1>15. StreamPlaces'
    <2>1. CASE last
      <3>1. watch' = NoWatch /\ remote' = "stopping"
        BY <1>1, <2>1
      <3>2. Placed(n, remote', "watch" \in requests')
        BY <1>5, <1>7, <1>11, <2>1, <3>1 DEF Placed
      <3>3. QED
        BY <1>7, <3>2 DEF StreamPlaces
    <2>2. CASE ~last
      <3>1. watch' = watch /\ remote' = "ready"
        BY <1>1, <1>9, <2>2
      <3>2. ASSUME NEW t \in Streams
            PROVE  stream'[t].at # "waiting" /\ (stream'[t].at = "live" => ~watch.initializing)
        BY <1>3, <1>4, <1>8, <1>9 DEF Placed
      <3>3. Placed(n, "ready", "watch" \in requests')
        BY <1>3, <1>7, <1>8, <1>9, <1>10, <3>1, <3>2 DEF Placed
      <3>4. QED
        BY <1>7, <3>1, <3>3 DEF StreamPlaces
    <2>3. QED
      BY <2>1, <2>2
  <1>16. Tokens'
    <2>1. ASSUME NEW t \in Streams PROVE Token(t, t \in requests', replies, port, stream'[t])
      <3>1. Token(t, t \in requests, replies, port, stream[t])
        BY DEF StreamInduct, Tokens
      <3>2. CASE t = s
        BY <1>4, <1>10, <3>1, <3>2 DEF Token
      <3>3. CASE t # s
        <4>1. stream'[t] = stream[t] /\ (t \in requests' <=> t \in requests)
          BY <1>4, <1>10, <3>3
        <4>2. QED
          BY <3>1, <4>1 DEF Token
      <3>4. QED
        BY <3>2, <3>3
    <2>2. QED
      BY <1>1, <2>1 DEF Tokens
  <1>17. Shapes'
    <2>1. ASSUME NEW t \in Streams PROVE Shape(stream'[t], wire'[t])
      <3>1. CASE t = s
        <4>1. Len(<< >>) = 0 /\ FrameLimit \in Nat
          BY StreamAssumption
        <4>2. QED
          BY <1>4, <1>6, <3>1, <4>1 DEF Shape
      <3>2. CASE t # s
        <4>1. stream'[t] = stream[t] /\ wire'[t] = wire[t]
          BY <1>4, <1>6, <3>2
        <4>2. QED
          BY <4>1 DEF StreamInduct, Shapes
      <3>3. QED
        BY <3>1, <3>2
    <2>2. QED
      BY <2>1 DEF Shapes
  <1>18. Pipeline'
    BY <1>1 DEF StreamInduct, Pipeline
  <1>19. WatchFollows'
    <2>1. WatchFits(Core, cut, entry.last)
      BY DEF StreamInduct, WatchFollows
    <2>2. WatchFits(n, cut, entry.last)
      <3>1. Before(n, n.rev) <= cut
        BY <1>3, <1>7, <1>12, <2>1 DEF WatchFits
      <3>2. CASE last
        BY <1>1, <1>5, <1>7, <3>1, <3>2 DEF WatchFits
      <3>3. CASE ~last
        BY <1>1, <1>3, <1>7, <1>12, <2>1, <3>3 DEF WatchFits
      <3>4. QED
        BY <3>2, <3>3
    <2>3. QED
      BY <1>1, <1>7, <2>2 DEF WatchFollows
  <1>20. CoreFits(Core)'
    BY <1>7, <1>12 DEF Fits
  <1>21. AnswersFit'
    <2>1. Answers' = Answers /\ Answers \cap Watched = {}
      BY <1>1, <1>9 DEF Answers, NoneOf
    <2>2. ASSUME NEW a \in Answers, a \in Snapshots PROVE AnswerFits(n, a)
      <3>1. a.stream \in Streams
        BY <2>2 DEF Snapshots
      <3>2. CASE last \/ a.stream = s
        <4>1. ~Subscribed(n, a.stream)
          BY <1>4, <1>7, <1>11, <3>1, <3>2 DEF Subscribed
        <4>2. QED
          BY <4>1, AnswerIdle
      <3>3. CASE ~last /\ a.stream # s
        <4>1. n.stream[a.stream] = Core.stream[a.stream] /\ n.watch = Core.watch
          BY <1>1, <1>3, <1>4, <1>7, <3>1, <3>3
        <4>2. AnswerFits(Core, a)
          BY <2>2 DEF StreamInduct, AnswersFit
        <4>3. QED
          BY <1>3, <1>7, <4>1, <4>2, AnswerLocal
      <3>4. QED
        BY <3>2, <3>3
    <2>3. QED
      BY <1>1, <1>7, <2>1, <2>2 DEF StreamInduct, AnswersFit
  <1>22. ClientsFit'
    <2>1. ASSUME NEW t \in Streams PROVE ClientFits(n, t, wire'[t], client[t], behind)
      <3>1. ClientFits(Core, t, wire[t], client[t], behind)
        BY DEF StreamInduct, ClientsFit
      <3>2. CASE t = s
        <4>1. n.stream[t].at # "live" /\ wire'[t] = << >>
          BY <1>4, <1>6, <1>7, <3>2
        <4>2. QED
          BY <4>1, ClientIdle
      <3>3. CASE t # s /\ ~last
        <4>1. n.stream[t] = Core.stream[t] /\ n.watch.cut = Core.watch.cut /\ wire'[t] = wire[t]
          BY <1>1, <1>3, <1>4, <1>6, <1>7, <3>3
        <4>2. QED
          BY <1>3, <1>7, <3>1, <4>1, ClientLocal
      <3>4. CASE t # s /\ last
        <4>1. n.stream[t].at # "live" /\ wire'[t] = wire[t]
          BY <1>6, <1>7, <1>11, <3>4
        <4>2. QED
          BY <3>1, <4>1 DEF ClientFits
      <3>5. QED
        BY <3>2, <3>3, <3>4
    <2>2. QED
      BY <1>1, <1>7, <2>1 DEF StreamInduct, ClientsFit, NoGap
  <1>23. QED
    BY <1>13, <1>14, <1>15, <1>16, <1>17, <1>18, <1>19, <1>20, <1>21, <1>22 DEF StreamInduct

\* The last subscriber to leave ends the watch.
LEMMA UnsubscribeKept ==
  ASSUME StreamInduct, NEW s \in Streams, Unsubscribe(s)
  PROVE  StreamInduct'
  <1>1. stream[s].at \in {"reading", "live"} /\ failures' \in Nat /\ Released(s)
    BY DEF Unsubscribe, StreamInduct, StreamTyped
  <1>2. QED
    BY <1>1, Releases

\* A snapshot that cannot be read closes its subscription.
LEMMA ReadFailsKept ==
  ASSUME StreamInduct, NEW s \in Streams, ReadFails(s)
  PROVE  StreamInduct'
  <1>1. s \in requests /\ failures' \in Nat /\ Released(s)
    BY DEF ReadFails, StreamInduct, StreamTyped
  <1>2. stream[s].at \in {"reading", "live"}
    BY <1>1 DEF StreamInduct, Tokens, Token
  <1>3. QED
    BY <1>1, <1>2, Releases

\* What is still on its way when the Core has taken the first post.
LEMMA PostTaken ==
  ASSUME StreamInduct, port # << >>, port' = Tail(port), replies' = replies
  PROVE  /\ Head(port) \in Posts /\ port' \in Seq(Posts)
         /\ Once(Updates, port') /\ Once(Watched, port') /\ Once(Unwatched, port') /\ UpdatesFirst(port')
         /\ \A S : NoneOf(S, port) => NoneOf(S, port') /\ Head(port) \notin S
         /\ Head(port) \in Updates => NoneOf(Updates, port')
         /\ Head(port) \in Watched => NoneOf(Watched, port')
         /\ Head(port) \in Unwatched => NoneOf(Unwatched, port') /\ NoneOf(Updates, port')
         /\ Answers' \subseteq Answers /\ Head(port) \in Answers
         /\ \E i \in DOMAIN port : port[i] = Head(port)
         /\ \A i \in DOMAIN port' : \E j \in DOMAIN port : port'[i] = port[j]
  <1>1. port \in Seq(Posts)
    BY CoreOfState
  <1>2. Once(Updates, port) /\ Once(Watched, port) /\ Once(Unwatched, port) /\ UpdatesFirst(port)
    BY DEF StreamInduct, WatchProtocol
  <1>3. \A S : /\ NoneOf(S, port) <=> NoneOf(S, Tail(port)) /\ Head(port) \notin S
               /\ Once(S, port) => Once(S, Tail(port))
               /\ Once(S, port) /\ Head(port) \in S => NoneOf(S, Tail(port))
    BY <1>1, OnceShortened
  <1>4. UpdatesFirst(Tail(port)) /\ (Head(port) \in Unwatched => NoneOf(Updates, Tail(port)))
    BY <1>1, <1>2, UpdatesFirstShortened
  <1> DEFINE p == Tail(port)
  <1>5. /\ p \in Seq(Posts) /\ Head(port) = port[1] /\ Head(port) \in Posts /\ 1 \in DOMAIN port
        /\ \A i \in DOMAIN p : p[i] = port[i + 1] /\ i + 1 \in DOMAIN port
    BY <1>1, Shortened
  <1>6. {p[i] : i \in DOMAIN p} \subseteq {port[i] : i \in DOMAIN port}
        /\ Head(port) \in {port[i] : i \in DOMAIN port}
    BY <1>1, ElementsShortened
  <1> HIDE DEF p
  <1>7. port' = p
    BY DEF p
  <1>8. Answers' \subseteq Answers /\ Head(port) \in Answers
    <2>1. Answers' = replies \cup {p[i] : i \in DOMAIN p}
      BY <1>7 DEF Answers
    <2>2. QED
      BY <1>6, <2>1 DEF Answers
  <1>9. \A i \in DOMAIN port' : \E j \in DOMAIN port : port'[i] = port[j]
    BY <1>5, <1>7
  <1>10. \E i \in DOMAIN port : port[i] = Head(port)
    BY <1>5
  <1>11. port' \in Seq(Posts) /\ Head(port) \in Posts
    BY <1>5, <1>7
  <1>12. QED
    BY <1>2, <1>3, <1>4, <1>8, <1>9, <1>10, <1>11

\* The watch has ended; whoever has subscribed in the meantime gets a new one.
LEMMA ReceiveUnwatchedKept ==
  ASSUME StreamInduct, ReceiveUnwatched
  PROVE  StreamInduct'
  <1>1. /\ port # << >> /\ Head(port).kind = "unwatched" /\ port' = Tail(port)
        /\ remote' = IF watch.on THEN "asked" ELSE "none"
        /\ requests' = requests \cup (IF watch.on THEN {"watch"} ELSE {})
        /\ cut' = cut /\ entry' = entry /\ replies' = replies /\ failures' = failures
        /\ UNCHANGED hostVars /\ UNCHANGED clientVars
    BY DEF ReceiveUnwatched
  <1>2. Core' = Core /\ Core.watch = watch /\ port \in Seq(Posts) /\ watch \in Watches
    BY <1>1, HostSame, CoreOfState
  <1>3. Head(port) \in Unwatched
    <2>1. Head(port) \in Posts
      BY <1>1, PostTaken
    <2>2. QED
      BY <1>1, <2>1, KindsDiffer
  <1>4. /\ port' \in Seq(Posts) /\ Once(Updates, port') /\ Once(Watched, port') /\ Once(Unwatched, port')
        /\ UpdatesFirst(port') /\ NoneOf(Unwatched, port') /\ NoneOf(Updates, port')
        /\ (NoneOf(Watched, port) => NoneOf(Watched, port')) /\ Answers' \subseteq Answers
        /\ ~NoneOf(Unwatched, port)
    BY <1>1, <1>3, PostTaken
  <1>5. remote = "stopping" /\ "unwatch" \notin requests /\ ~entry.on /\ "watch" \notin requests
        /\ replies \cap Watched = {} /\ NoneOf(Watched, port)
    BY <1>4 DEF StreamInduct, WatchProtocol, Watching
  <1>6. Placed(Core, "stopping", FALSE)
    BY <1>5 DEF StreamInduct, StreamPlaces, Placed
  <1>7. ("watch" \in requests' <=> watch.on) /\ "unwatch" \notin requests'
        /\ \A s \in Streams : s \in requests' <=> s \in requests
    BY <1>1, <1>5, NamesDiffer
  <1>8. watch.on \in BOOLEAN
    BY <1>2 DEF Watches
  <1>9. StreamTyped'
    <2>1. requests' \subseteq {"watch", "unwatch"} \cup Streams /\ remote' \in {"none", "asked", "ready", "stopping"}
      BY <1>1 DEF StreamInduct, StreamTyped
    <2>2. QED
      BY <1>1, <1>2, <1>4, <2>1 DEF StreamInduct, StreamTyped, clientVars
  <1>10. WatchProtocol'
    BY <1>1, <1>4, <1>5, <1>7 DEF StreamInduct, WatchProtocol, Watching
  <1>11. StreamPlaces'
    <2>1. Placed(Core, remote', watch.on)
      BY <1>1, <1>2, <1>6, <1>8 DEF Placed
    <2>2. QED
      BY <1>2, <1>7, <2>1 DEF StreamPlaces, Placed
  <1>12. Tokens'
    <2>1. ASSUME NEW s \in Streams PROVE Token(s, s \in requests', replies, Tail(port), stream[s])
      <3>1. Token(s, s \in requests, replies, port, stream[s])
        BY DEF StreamInduct, Tokens
      <3>2. Token(s, s \in requests, replies, Tail(port), stream[s])
        BY <1>1, <1>2, <3>1, TokenTaken
      <3>3. QED
        BY <1>7, <3>2 DEF Token
    <2>2. QED
      BY <1>1, <2>1 DEF Tokens, hostVars
  <1>13. Shapes' /\ ClientsFit' /\ CoreFits(Core)' /\ WatchFollows'
    BY <1>1, <1>2 DEF StreamInduct, Shapes, hostVars, clientVars, ClientsFit, NoGap, WatchFollows
  <1>14. Pipeline'
    BY <1>1, <1>5 DEF Pipeline
  <1>15. AnswersFit'
    BY <1>1, <1>2, <1>4, AnswersSame
  <1>16. QED
    BY <1>9, <1>10, <1>11, <1>12, <1>13, <1>14, <1>15 DEF StreamInduct

\* The positions of a queue after m of its frames are dropped.
LEMMA SameDifference ==
  ASSUME NEW k \in Nat, NEW l \in Nat, NEW u \in Nat, NEW m \in Nat, k - l + m = u
  PROVE  l - m = k - u /\ \A i \in Nat : k - l + (i + m) = k - (k - u) + i
  OBVIOUS

\* An acknowledgement takes from the buffer what a newer snapshot has.
LEMMA AcknowledgedFits ==
  ASSUME StreamInduct, port # << >>, port' = Tail(port), replies' = replies, Head(port) \in Updates,
         entry' = Acknowledged(entry, Head(port).cut)
  PROVE  /\ entry' \in Entries /\ entry'.on = entry.on
         /\ ~entry.on => entry' = entry /\ remote = "stopping"
         /\ entry.on => /\ UpdateFits(entry, cut, Head(port)) /\ EntryFits(entry', cut)
                        /\ entry'.last = Head(port).cut
  <1> DEFINE u == Head(port)
  <1>1. u \in Updates /\ u.cut \in Nat /\ (\E i \in DOMAIN port : port[i] = u) /\ ~NoneOf(Updates, port)
    BY PostTaken DEF Updates
  <1>2. entry' = Acknowledged(entry, u.cut)
    OBVIOUS
  <1>3. entry \in Entries /\ cut \in Nat /\ entry.on \in BOOLEAN
    BY CoreOfState, PartsOfEntry
  <1>4. entry.pump = "sent" \/ (remote = "stopping" /\ ~entry.on)
    BY <1>1 DEF StreamInduct, WatchProtocol
  <1>5. entry.on => UpdateFits(entry, cut, u) /\ EntryFits(entry, cut)
    BY <1>1 DEF StreamInduct, Pipeline
  <1> HIDE DEF u
  <1>6. CASE ~entry.on
    <2>1. entry.pump # "sent"
      BY <1>6 DEF StreamInduct, WatchProtocol, NoEntry
    <2>2. QED
      BY <1>2, <1>3, <1>4, <1>6, <2>1 DEF Acknowledged
  <1>7. CASE entry.on
    <2> DEFINE P == {i \in DOMAIN entry.pending : entry.pending[i] <= u.cut}
               left == Shifted(entry.pending, P)
               l == Len(entry.pending)
    <2>1. entry.pump = "sent" /\ entry.last <= u.cut /\ u.cut <= cut /\ entry.last \in Nat
          /\ entry.pending \in Seq(Nat) /\ l \in Nat /\ DOMAIN entry.pending = 1 .. l
          /\ entry.resync \in BOOLEAN
      BY <1>3, <1>4, <1>5, <1>7, PartsOfEntry DEF UpdateFits
    <2>2. (IF u.cut > entry.last THEN u.cut ELSE entry.last) = u.cut
      BY <1>1, <2>1
    <2>3. entry' = [entry EXCEPT !.last = u.cut, !.pending = left,
                                 !.pump = IF left = << >> /\ ~entry.resync THEN "idle" ELSE "run"]
      BY <1>2, <1>7, <2>1, <2>2, ZenonT(40) DEF Acknowledged
    <2>4. PICK m \in 0 .. l : /\ m = 0 \/ m \in P
                              /\ \A i \in P : i <= m
                              /\ left \in Seq(Nat) /\ Len(left) = l - m
                              /\ \A i \in 1 .. l - m : left[i] = entry.pending[i + m]
      <3>1. P \in SUBSET (DOMAIN entry.pending)
        OBVIOUS
      <3> HIDE DEF P
      <3>2. QED
        BY <2>1, <3>1, ShiftedIsEnd, ZenonT(40)
    <2> HIDE DEF left
    <2>5. entry' \in Entries /\ entry'.on /\ entry'.last = u.cut /\ entry'.pending = left
          /\ entry'.resync = entry.resync
          /\ entry'.pump = IF left = << >> /\ ~entry.resync THEN "idle" ELSE "run"
      BY <1>1, <1>3, <1>7, <2>3, <2>4 DEF Entries
    <2>6. left = << >> <=> Len(left) = 0
      BY <2>4
    <2>7. CASE entry.resync
      <3>1. entry.pending = << >>
        BY <1>5, <1>7, <2>7 DEF EntryFits
      <3>2. l = 0 /\ Len(left) = 0
        <4>1. l = 0
          BY <3>1
        <4>2. m = 0
          BY <2>4, <4>1
        <4>3. QED
          BY <2>4, <4>1, <4>2
      <3>3. left = << >> /\ DOMAIN left = {}
        BY <2>6, <3>2
      <3>4. EntryFits(entry', cut)
        BY <2>1, <2>5, <2>7, <3>3 DEF EntryFits
      <3>5. QED
        BY <1>5, <1>7, <2>5, <3>4 DEF u
    <2>8. CASE ~entry.resync
      <3>1. \A i \in 1 .. l : entry.pending[i] = cut - l + i
        BY <1>5, <1>7, <2>1 DEF EntryFits
      <3>2. cut - l <= u.cut
        BY <1>5, <1>7, <2>8 DEF UpdateFits
      <3>3. m = 0 \/ cut - l + m <= u.cut
        BY <2>1, <2>4, <3>1
      <3>4. \A i \in 1 .. l : cut - l + i <= u.cut => i <= m
        BY <2>1, <2>4, <3>1
      <3> HIDE DEF l
      <3>5. l - m = cut - u.cut /\ \A i \in Nat : cut - l + (i + m) = cut - (cut - u.cut) + i
        <4>1. cut \in Nat /\ l \in Nat /\ u.cut \in Nat /\ u.cut <= cut /\ m \in 0 .. l
          BY <1>1, <1>3, <2>1, <2>4
        <4> DEFINE j == u.cut - (cut - l)
        <4>2. j \in 0 .. l /\ cut - l + j = u.cut
          BY <3>2, <4>1
        <4> HIDE DEF j
        <4>3. j = 0 \/ (j \in 1 .. l /\ cut - l + j <= u.cut)
          BY <4>1, <4>2
        <4>4. j <= m
          <5>1. CASE j = 0
            BY <4>1, <5>1
          <5>2. CASE j \in 1 .. l /\ cut - l + j <= u.cut
            BY <3>4, <5>2, Zenon
          <5>3. QED
            BY <4>3, <5>1, <5>2
        <4>5. m <= j
          BY <3>3, <4>1, <4>2
        <4>6. cut - l + m = u.cut /\ m \in Nat
          BY <4>1, <4>2, <4>4, <4>5
        <4>7. QED
          BY <4>1, <4>6, SameDifference
      <3>6. \A i \in DOMAIN left : left[i] = cut - Len(left) + i
        <4>1. ASSUME NEW i \in DOMAIN left PROVE left[i] = cut - Len(left) + i
          <5>1. DOMAIN left = 1 .. l - m /\ Len(left) = l - m /\ l \in Nat /\ m \in 0 .. l
            BY <2>1, <2>4
          <5>2. i \in 1 .. l - m /\ i + m \in 1 .. l /\ i \in Nat
            BY <5>1
          <5>3. left[i] = cut - l + (i + m)
            BY <2>4, <3>1, <5>2
          <5>4. cut - l + (i + m) = cut - (cut - u.cut) + i
            BY <3>5, <5>2
          <5>5. QED
            BY <3>5, <5>1, <5>3, <5>4
        <4>2. QED
          BY <4>1
      <3>7. Len(left) = cut - u.cut
        BY <2>4, <3>5
      <3>8. left = << >> => u.cut = cut
        BY <1>1, <1>3, <2>6, <3>7
      <3>9. left # << >> => u.cut < cut
        BY <1>1, <1>3, <2>1, <2>6, <3>7
      <3>10. EntryFits(entry', cut)
        BY <2>1, <2>5, <2>8, <3>6, <3>7, <3>8, <3>9 DEF EntryFits
      <3>11. QED
        BY <1>5, <1>7, <2>5, <3>10 DEF u
    <2>9. QED
      BY <2>1, <2>7, <2>8
  <1>8. QED
    BY <1>3, <1>6, <1>7

\* What every way to take an update has in common.
LEMMA UpdateTaken ==
  ASSUME StreamInduct, port # << >>, port' = Tail(port), Head(port) \in Updates,
         entry' = Acknowledged(entry, Head(port).cut),
         UNCHANGED <<cut, requests, replies, failures, remote, clientVars>>
  PROVE  /\ WatchProtocol' /\ Pipeline' /\ Answers' \subseteq Answers
         /\ Core' \in Cores => StreamTyped'
         /\ \A s \in Streams : Token(s, s \in requests, replies, port', stream[s])
  <1>1. /\ cut' = cut /\ requests' = requests /\ replies' = replies /\ failures' = failures
        /\ remote' = remote /\ UNCHANGED clientVars /\ port \in Seq(Posts)
    BY CoreOfState
  <1>2. /\ port' \in Seq(Posts) /\ Once(Updates, port') /\ Once(Watched, port') /\ Once(Unwatched, port')
        /\ UpdatesFirst(port') /\ NoneOf(Updates, port')
        /\ (NoneOf(Watched, port) => NoneOf(Watched, port'))
        /\ (NoneOf(Unwatched, port) => NoneOf(Unwatched, port')) /\ Answers' \subseteq Answers
    BY <1>1, PostTaken
  <1>3. /\ entry' \in Entries /\ entry'.on = entry.on /\ (~entry.on => entry' = entry)
        /\ (entry.on => EntryFits(entry', cut))
    BY <1>1, AcknowledgedFits
  <1>4. WatchProtocol'
    BY <1>1, <1>2, <1>3 DEF StreamInduct, WatchProtocol, Watching
  <1>5. Pipeline'
    BY <1>1, <1>2, <1>3 DEF Pipeline, NoneOf
  <1>6. Core' \in Cores => StreamTyped'
    BY <1>1, <1>2, <1>3 DEF StreamInduct, StreamTyped, clientVars
  <1>7. \A s \in Streams : Token(s, s \in requests, replies, Tail(port), stream[s])
    BY <1>1, TokenTaken DEF StreamInduct, Tokens
  <1>8. QED
    BY <1>1, <1>2, <1>4, <1>5, <1>6, <1>7

\* Nobody listens, or the Core has given the watch up.
LEMMA UpdateIgnored ==
  ASSUME StreamInduct, port # << >>, port' = Tail(port), Head(port) \in Updates,
         entry' = Acknowledged(entry, Head(port).cut), ~watch.on \/ remote = "stopping",
         UNCHANGED hostVars, UNCHANGED <<cut, requests, replies, failures, remote, clientVars>>
  PROVE  StreamInduct'
  <1>1. /\ WatchProtocol' /\ Pipeline' /\ Answers' \subseteq Answers /\ (Core' \in Cores => StreamTyped')
        /\ \A s \in Streams : Token(s, s \in requests, replies, port', stream[s])
    BY UpdateTaken
  <1>2. Core' = Core /\ Core \in Cores /\ Core.watch = watch /\ cut' = cut /\ remote' = remote
        /\ requests' = requests /\ replies' = replies /\ UNCHANGED clientVars
        /\ Core.stream = stream
    BY HostSame, CoreOfState
  <1>3. Placed(Core, remote, "watch" \in requests)
    BY DEF StreamInduct, StreamPlaces
  <1>4. watch.pending = << >> /\ ~ (watch.on /\ ~watch.initializing)
    BY <1>2, <1>3 DEF Placed, NoWatch
  <1>5. remote # "asked"
    BY <1>2, <1>3 DEF Placed
  <1>6. StreamPlaces' /\ Tokens' /\ Shapes' /\ CoreFits(Core)' /\ ClientsFit'
    BY <1>1, <1>2 DEF StreamInduct, StreamPlaces, Tokens, Shapes, ClientsFit, NoGap, clientVars, hostVars
  <1>7. WatchFollows'
    <2>1. WatchFits(Core, cut, entry'.last)
      BY <1>2, <1>4 DEF StreamInduct, WatchFollows, WatchFits
    <2>2. QED
      BY <1>2, <2>1 DEF WatchFollows
  <1>8. AnswersFit'
    <2>1. Answers \cap Watched = {}
      BY <1>5 DEF StreamInduct, WatchProtocol, Watching, Answers, NoneOf
    <2>2. QED
      BY <1>1, <1>2, <2>1 DEF StreamInduct, AnswersFit
  <1>9. QED
    BY <1>1, <1>2, <1>6, <1>7, <1>8 DEF StreamInduct

\* The updates that were kept, with one more.
LEMMA InOrderAppended ==
  ASSUME NEW p \in Seq(Updates), NEW u \in Updates, InOrder(p),
         p # << >> => p[Len(p)].cut <= u.cut /\ (u.snap \/ u.cut = p[Len(p)].cut + 1)
  PROVE  InOrder(Append(p, u))
  <1> DEFINE n == Append(p, u)
  <1>1. /\ Len(p) \in Nat /\ DOMAIN p = 1 .. Len(p) /\ DOMAIN n = 1 .. Len(p) + 1
        /\ n[Len(p) + 1] = u /\ \A i \in DOMAIN p : n[i] = p[i]
        /\ \A i \in DOMAIN n : i \in DOMAIN p \/ i = Len(p) + 1
    BY Appended
  <1> HIDE DEF n
  <1>2. ASSUME NEW i \in DOMAIN n, i > 1
        PROVE  n[i - 1].cut <= n[i].cut /\ (n[i].snap \/ n[i].cut = n[i - 1].cut + 1)
    <2>1. CASE i \in DOMAIN p
      <3>1. i - 1 \in DOMAIN p
        BY <1>1, <1>2, <2>1
      <3>2. n[i] = p[i] /\ n[i - 1] = p[i - 1]
        BY <1>1, <2>1, <3>1
      <3>3. QED
        BY <1>2, <2>1, <3>2 DEF InOrder
    <2>2. CASE i = Len(p) + 1
      <3>1. i - 1 = Len(p) /\ Len(p) \in DOMAIN p
        BY <1>1, <1>2, <2>2
      <3>2. p # << >> /\ n[i] = u /\ n[i - 1] = p[Len(p)]
        BY <1>1, <2>2, <3>1
      <3>3. QED
        BY <3>2
    <2>3. QED
      BY <1>1, <2>1, <2>2
  <1>3. InOrder(n)
    BY <1>2 DEF InOrder
  <1>4. QED
    BY <1>3 DEF n

\* While the watch is being initialised its updates are kept.
LEMMA UpdateKept ==
  ASSUME StreamInduct, port # << >>, port' = Tail(port), Head(port) \in Updates,
         entry' = Acknowledged(entry, Head(port).cut), watch.on, watch.initializing,
         remote # "stopping", NEW over \in BOOLEAN,
         over => watch.pending # << >>,
         watch' = [watch EXCEPT !.pending = IF over THEN <<Head(port)>> ELSE Append(@, Head(port)),
                                !.over = @ \/ over],
         UNCHANGED <<rev, shown, stream>>,
         UNCHANGED <<cut, requests, replies, failures, remote, clientVars>>
  PROVE  StreamInduct'
  <1> DEFINE u == Head(port)
             p == IF over THEN <<u>> ELSE Append(watch.pending, u)
  <1>1. /\ WatchProtocol' /\ Pipeline' /\ Answers' \subseteq Answers /\ (Core' \in Cores => StreamTyped')
        /\ \A s \in Streams : Token(s, s \in requests, replies, port', stream[s])
    BY UpdateTaken
  <1>2. /\ Core \in Cores /\ Core.watch = watch /\ Core.rev = rev /\ Core.shown = shown
        /\ Core.stream = stream /\ watch \in Watches /\ rev \in Nat /\ shown \in Seq(Nat)
        /\ stream \in [Streams -> Subscribers] /\ Fits(Core) /\ cut \in Nat
        /\ cut' = cut /\ remote' = remote /\ requests' = requests /\ replies' = replies
        /\ rev' = rev /\ shown' = shown /\ stream' = stream /\ UNCHANGED clientVars
    BY CoreOfState
  <1>3. u \in Updates /\ u.cut \in Nat /\ watch.pending \in Seq(Updates)
    BY <1>2 DEF Updates, Watches
  <1>4. entry.on /\ UpdateFits(entry, cut, u) /\ entry'.last = u.cut
    BY AcknowledgedFits
  <1>5. watch' = [watch EXCEPT !.pending = p, !.over = watch.over \/ over]
    OBVIOUS
  <1>6. p = IF over THEN <<u>> ELSE Append(watch.pending, u)
    OBVIOUS
  <1> HIDE DEF u, p
  <1>7. /\ p \in Seq(Updates) /\ p # << >> /\ p[Len(p)] = u
        /\ (over \/ watch.pending = << >> => p[1] = u)
        /\ (~over /\ watch.pending # << >> => p[1] = watch.pending[1])
        /\ \A i \in DOMAIN p : p[i] = u \/ (i \in DOMAIN watch.pending /\ p[i] = watch.pending[i])
    <2>1. CASE over
      <3>1. p = <<u>>
        BY <1>6, <2>1
      <3>2. Len(<<u>>) = 1 /\ <<u>>[1] = u /\ DOMAIN <<u>> = {1} /\ <<u>> \in Seq(Updates) /\ <<u>> # << >>
        BY <1>3
      <3>3. QED
        BY <2>1, <3>1, <3>2
    <2>2. CASE ~over
      <3> DEFINE a == Append(watch.pending, u)
      <3>1. /\ a \in Seq(Updates) /\ Len(a) = Len(watch.pending) + 1 /\ Len(watch.pending) \in Nat
            /\ DOMAIN watch.pending = 1 .. Len(watch.pending)
            /\ a[Len(watch.pending) + 1] = u
            /\ \A i \in DOMAIN watch.pending : a[i] = watch.pending[i]
            /\ \A i \in DOMAIN a : i \in DOMAIN watch.pending \/ i = Len(watch.pending) + 1
        BY <1>3, Appended
      <3> HIDE DEF a
      <3>2. p = a
        BY <1>6, <2>2 DEF a
      <3>3. a # << >>
        <4>1. Len(a) # 0
          BY <3>1
        <4>2. QED
          BY <4>1
      <3>4. watch.pending # << >> => 1 \in DOMAIN watch.pending
        BY <1>3, <3>1
      <3>5. watch.pending = << >> => Len(watch.pending) + 1 = 1
        OBVIOUS
      <3>6. QED
        BY <2>2, <3>1, <3>2, <3>3, <3>4, <3>5
    <2>3. QED
      BY <2>1, <2>2
  <1>8. /\ watch' \in Watches /\ watch'.on /\ watch'.initializing /\ watch'.pending = p
        /\ (watch'.over <=> watch.over \/ over) /\ watch'.cut = watch.cut
        /\ watch'.base = watch.base /\ watch'.first = watch.first
        /\ watch'.initializing = watch.initializing /\ watch'.on = watch.on
    BY <1>2, <1>5, <1>7 DEF Watches
  <1> DEFINE n == [rev |-> rev, shown |-> shown, watch |-> watch', stream |-> stream]
  <1>9. Core' = n /\ n \in Cores /\ n.rev = rev /\ n.shown = shown /\ n.watch = watch'
        /\ n.stream = stream
    BY <1>2, <1>8 DEF Core, Cores
  <1> HIDE DEF n
  <1>10. \A i : Before(n, i) = Before(Core, i)
    BY <1>2, <1>9 DEF Before
  <1>11. StreamPlaces'
    <2>1. Placed(Core, remote, "watch" \in requests)
      BY DEF StreamInduct, StreamPlaces
    <2>2. "watch" \notin requests
      BY <1>4 DEF StreamInduct, WatchProtocol, Watching
    <2>3. p # << >> /\ n.stream = Core.stream /\ n.watch.on /\ n.watch.initializing
          /\ n.watch.pending = p /\ (n.watch.over <=> watch.over \/ over)
          /\ n.watch.first = watch.first
      BY <1>2, <1>7, <1>8, <1>9
    <2>4. Placed(n, remote, "watch" \in requests)
      BY <1>2, <2>1, <2>2, <2>3 DEF Placed
    <2>5. QED
      BY <1>2, <1>9, <2>4 DEF StreamPlaces
  <1>12. Tokens' /\ Shapes'
    BY <1>1, <1>2 DEF StreamInduct, Tokens, Shapes, clientVars
  <1>13. CoreFits(Core)'
    <2>1. ASSUME NEW t \in Streams
          PROVE  /\ Len(n.stream[t].q) <= FrameLimit
                 /\ Subscribed(n, t) /\ ~n.stream[t].resync => FramesFollow(Core, n.stream[t].q)
      <3>1. n.stream[t] = Core.stream[t] /\ (Subscribed(n, t) <=> Subscribed(Core, t))
        BY <1>2, <1>9 DEF Subscribed
      <3>2. QED
        BY <1>2, <3>1, QueueFollows DEF Fits, Bounded
    <2>2. Fits(n)
      BY <1>2, <1>9, <2>1, SubscribersFit
    <2>3. QED
      BY <1>9, <2>2 DEF Fits
  <1>14. WatchFollows'
    <2>1. WatchFits(Core, cut, entry.last)
      BY DEF StreamInduct, WatchFollows
    <2>2. ASSUME NEW i \in DOMAIN p PROVE p[i].cut <= cut
      <3>1. CASE p[i] = u
        BY <1>4, <3>1 DEF UpdateFits
      <3>2. CASE i \in DOMAIN watch.pending /\ p[i] = watch.pending[i]
        BY <1>2, <2>1, <3>2 DEF WatchFits
      <3>3. QED
        BY <1>7, <3>1, <3>2
    <2>3. InOrder(p)
      <3>1. CASE over
        <4>1. p = <<u>> /\ DOMAIN <<u>> = {1} /\ ~ (1 > 1)
          BY <1>6, <3>1
        <4>2. QED
          BY <4>1 DEF InOrder
      <3>2. CASE ~over
        <4>1. InOrder(watch.pending)
              /\ (watch.pending # << >> => watch.pending[Len(watch.pending)].cut = entry.last)
          BY <1>2, <2>1 DEF WatchFits
        <4>2. entry.last <= u.cut /\ (u.snap \/ u.cut = entry.last + 1)
          BY <1>4 DEF UpdateFits
        <4>3. InOrder(Append(watch.pending, u))
          BY <1>3, <4>1, <4>2, InOrderAppended
        <4>4. QED
          BY <1>6, <3>2, <4>3
      <3>3. QED
        BY <3>1, <3>2
    <2>4. WatchFits(n, cut, u.cut)
      <3>1. Before(n, n.rev) <= cut /\ n.watch.initializing /\ n.watch.pending = p /\ p[Len(p)] = u
        BY <1>2, <1>7, <1>8, <1>9, <1>10, <2>1 DEF WatchFits
      <3>2. QED
        BY <2>2, <2>3, <3>1 DEF WatchFits
    <2>5. QED
      BY <1>2, <1>4, <1>9, <2>4 DEF WatchFollows
  <1>15. AnswersFit'
    <2>1. ASSUME NEW a \in Answers, a \in Watched PROVE WatchedFits(n, u.cut, a)
      <3>1. WatchedFits(Core, entry.last, a)
        BY <2>1 DEF StreamInduct, AnswersFit
      <3>2. u.snap \/ u.cut = entry.last + 1
        BY <1>4 DEF UpdateFits
      <3>3. CASE over
        BY <1>2, <1>7, <1>8, <1>9, <1>10, <3>1, <3>3 DEF WatchedFits
      <3>4. CASE ~over
        BY <1>2, <1>7, <1>8, <1>9, <1>10, <3>1, <3>2, <3>4 DEF WatchedFits
      <3>5. QED
        BY <3>3, <3>4
    <2>2. ASSUME NEW a \in Answers, a \in Snapshots PROVE AnswerFits(n, a)
      <3>1. AnswerFits(Core, a)
        BY <2>2 DEF StreamInduct, AnswersFit
      <3>2. QED
        <4>1. /\ n.stream[a.stream] = Core.stream[a.stream] /\ n.rev = Core.rev /\ n.shown = Core.shown
              /\ n.watch.cut = Core.watch.cut /\ n.watch.base = Core.watch.base
              /\ n.watch.initializing = Core.watch.initializing
          BY <1>2, <1>8, <1>9
        <4>2. QED
          BY <3>1, <4>1, AnswerLocal
    <2>3. QED
      BY <1>1, <1>2, <1>4, <1>9, <2>1, <2>2 DEF StreamInduct, AnswersFit
  <1>16. ClientsFit'
    <2>1. ASSUME NEW s \in Streams PROVE ClientFits(n, s, wire[s], client[s], behind)
      <3>1. ClientFits(Core, s, wire[s], client[s], behind)
        BY DEF StreamInduct, ClientsFit
      <3>2. QED
        BY <1>2, <1>8, <1>9, <3>1, ClientLocal
    <2>2. QED
      BY <1>2, <1>9, <2>1 DEF StreamInduct, ClientsFit, clientVars, NoGap
  <1>17. QED
    BY <1>1, <1>9, <1>11, <1>12, <1>13, <1>14, <1>15, <1>16 DEF StreamInduct

\* The watch is there: the update is published.
LEMMA UpdateApplied ==
  ASSUME StreamInduct, port # << >>, port' = Tail(port), Head(port) \in Updates,
         entry' = Acknowledged(entry, Head(port).cut), watch.on, ~watch.initializing,
         Becomes(Apply(Core, Head(port))),
         UNCHANGED <<cut, requests, replies, failures, remote, clientVars>>
  PROVE  StreamInduct'
  <1> DEFINE u == Head(port)
             n == Apply(Core, u)
  <1>1. /\ WatchProtocol' /\ Pipeline' /\ Answers' \subseteq Answers /\ (Core' \in Cores => StreamTyped')
        /\ \A s \in Streams : Token(s, s \in requests, replies, port', stream[s])
    BY UpdateTaken
  <1>2. /\ Core \in Cores /\ Core.watch = watch /\ Core.rev = rev /\ Core.shown = shown
        /\ Core.stream = stream /\ watch \in Watches /\ Fits(Core) /\ cut \in Nat
        /\ cut' = cut /\ remote' = remote /\ requests' = requests /\ replies' = replies
        /\ UNCHANGED clientVars
    BY CoreOfState
  <1>3. u \in Updates /\ u.cut \in Nat /\ watch.cut \in Nat
    BY <1>2 DEF Updates, Watches
  <1>4. Placed(Core, remote, "watch" \in requests) /\ WatchFits(Core, cut, entry.last)
    BY DEF StreamInduct, StreamPlaces, WatchFollows
  <1>5. remote = "ready"
    BY <1>2, <1>4 DEF Placed
  <1>6. entry.on /\ UpdateFits(entry, cut, u) /\ entry'.last = u.cut
    BY <1>5, AcknowledgedFits
  <1>7. Before(Core, rev) <= watch.cut /\ watch.cut <= cut /\ entry.last <= watch.cut
    BY <1>2, <1>4 DEF WatchFits
  <1>8. u.cut <= cut /\ (u.snap \/ u.cut <= watch.cut + 1)
    <2>1. entry.last \in Nat
      BY CoreOfState, PartsOfEntry
    <2>2. QED
      BY <1>2, <1>3, <1>6, <1>7, <2>1 DEF UpdateFits
  <1> HIDE DEF u
  <1>9. /\ Fits(n) /\ Advanced(Core, n)
        /\ n.watch.cut = IF u.cut <= watch.cut THEN watch.cut ELSE u.cut
        /\ Before(n, n.rev) <= n.watch.cut
        /\ \A s \in Streams, d \in Nat :
             Subscribed(Core, s) /\ ~n.stream[s].resync /\ Holds(Core, s, d) => Holds(n, s, d)
    <2>1. LET k == Apply(Core, u)
          IN  /\ Fits(k) /\ Advanced(Core, k)
              /\ k.watch.cut = IF u.cut <= Core.watch.cut THEN Core.watch.cut ELSE u.cut
              /\ Before(k, k.rev) <= k.watch.cut
              /\ \A s \in Streams, d \in Nat :
                   /\ Subscribed(Core, s) /\ ~k.stream[s].resync /\ Holds(Core, s, d)
                   /\ u.snap \/ u.cut <= Core.watch.cut + 1 \/ u.cut <= d + 1
                   => Holds(k, s, d)
      BY <1>2, <1>3, <1>7, ApplyFits
    <2> HIDE DEF n
    <2>2. QED
      BY <1>2, <1>8, <2>1 DEF n
  <1>10. Becomes(n)
    BY DEF u
  <1> HIDE DEF n
  <1>11. n \in Cores /\ Core' = n /\ stream' = n.stream
    <2>1. n \in Cores
      BY <1>9 DEF Fits
    <2>2. QED
      BY <1>10, <2>1, BecomesCore DEF Becomes
  <1>12. /\ n.watch.on = watch.on /\ n.watch.initializing = watch.initializing
         /\ n.watch.pending = watch.pending
    <2>1. Advanced(Core, n)
      BY <1>9
    <2>2. n.watch = [watch EXCEPT !.cut = n.watch.cut]
      BY <1>2, <2>1, ZenonT(40) DEF Advanced
    <2>3. QED
      BY <1>2, <1>11, <2>2 DEF Watches
  <1>13. StreamPlaces'
    BY <1>2, <1>4, <1>9, <1>11, PlacedAdvanced DEF StreamPlaces
  <1>14. Tokens'
    <2>1. ASSUME NEW s \in Streams PROVE Token(s, s \in requests, replies, port', n.stream[s])
      <3>1. n.stream[s].at = stream[s].at /\ n.stream[s].resnap = stream[s].resnap
        BY <1>2, <1>9, <1>11, PlacesKept
      <3>2. QED
        BY <1>1, <3>1, TokenSame
    <2>2. QED
      BY <1>2, <1>11, <2>1 DEF Tokens
  <1>15. Shapes'
    <2>1. ASSUME NEW s \in Streams PROVE Shape(n.stream[s], wire[s])
      BY <1>2, <1>9, ShapeAdvanced DEF StreamInduct, Shapes
    <2>2. QED
      BY <1>2, <1>11, <2>1 DEF Shapes, clientVars
  <1>16. WatchFollows'
    <2>1. n.watch.cut \in Nat /\ n.watch.cut <= cut /\ u.cut <= n.watch.cut /\ watch.pending = << >>
      <3>1. watch.pending = << >>
        BY <1>2, <1>4 DEF WatchFits
      <3>2. QED
        BY <1>2, <1>3, <1>7, <1>8, <1>9, <3>1
    <2>2. Before(n, n.rev) <= cut
      <3>1. Before(n, n.rev) \in Nat
        <4>1. n.rev \in Nat /\ Len(n.shown) = n.rev
          BY <1>9, <1>11, PartsOfCore DEF Fits, CoreFits
        <4>2. QED
          BY <1>11, <4>1, BeforeIsCut
      <3>2. Before(n, n.rev) <= n.watch.cut
        BY <1>9
      <3>3. QED
        BY <1>2, <2>1, <3>1, <3>2
    <2>3. WatchFits(n, cut, u.cut)
      BY <1>9, <1>12, <2>1, <2>2 DEF WatchFits
    <2>4. QED
      BY <1>2, <1>6, <1>11, <2>3 DEF WatchFollows
  <1>17. CoreFits(Core)'
    BY <1>9, <1>11 DEF Fits
  <1>18. AnswersFit'
    <2>1. Answers \cap Watched = {}
      BY <1>5 DEF StreamInduct, WatchProtocol, Watching, Answers, NoneOf
    <2>2. ASSUME NEW a \in Answers, a \in Snapshots PROVE AnswerFits(n, a)
      <3>1. AnswerFits(Core, a) /\ CoreFits(Core)
        BY <2>2 DEF StreamInduct, AnswersFit
      <3>2. ~Core.watch.initializing
        BY <1>2
      <3>3. QED
        BY <1>2, <1>9, <1>11, <2>2, <3>1, <3>2, AnswerAdvanced
    <2>3. QED
      BY <1>1, <1>2, <1>11, <2>1, <2>2 DEF StreamInduct, AnswersFit
  <1>19. ClientsFit'
    <2>1. ASSUME NEW s \in Streams PROVE ClientFits(n, s, wire[s], client[s], behind)
      <3>1. ClientFits(Core, s, wire[s], client[s], behind)
        BY DEF StreamInduct, ClientsFit
      <3>2. QED
        BY <1>2, <1>9, <1>11, <3>1, ClientAdvanced
    <2>2. QED
      BY <1>2, <1>11, <2>1 DEF StreamInduct, ClientsFit, clientVars, NoGap
  <1>20. QED
    BY <1>1, <1>11, <1>13, <1>14, <1>15, <1>16, <1>17, <1>18, <1>19 DEF StreamInduct

\* An update of the watch: held back during initialisation, published after it.
LEMMA ReceiveUpdateKept ==
  ASSUME StreamInduct, ReceiveUpdate
  PROVE  StreamInduct'
  <1> DEFINE over == watch.pending # << >> /\ Len(watch.pending) + 1 > WatchLimit
  <1>1. /\ port # << >> /\ Head(port).kind = "update" /\ port' = Tail(port)
        /\ entry' = Acknowledged(entry, Head(port).cut)
        /\ \/ (~watch.on \/ remote = "stopping") /\ UNCHANGED hostVars
           \/ /\ watch.on /\ remote # "stopping" /\ watch.initializing
              /\ watch' = [watch EXCEPT !.pending = IF over THEN <<Head(port)>> ELSE Append(@, Head(port)),
                                        !.over = @ \/ over]
              /\ UNCHANGED <<rev, shown, stream>>
           \/ watch.on /\ ~watch.initializing /\ Becomes(Apply(Core, Head(port)))
        /\ UNCHANGED <<cut, requests, replies, failures, remote, clientVars>>
    BY DEF ReceiveUpdate
  <1>2. over \in BOOLEAN /\ (over => watch.pending # << >>)
    OBVIOUS
  <1> HIDE DEF over
  <1>3. Head(port) \in Updates
    <2>1. port \in Seq(Posts)
      BY CoreOfState
    <2>2. Head(port) \in Posts
      BY <1>1, <2>1
    <2>3. QED
      BY <1>1, <2>2, KindsDiffer
  <1>4. CASE (~watch.on \/ remote = "stopping") /\ UNCHANGED hostVars
    BY <1>1, <1>3, <1>4, UpdateIgnored
  <1>5. CASE /\ watch.on /\ remote # "stopping" /\ watch.initializing
             /\ watch' = [watch EXCEPT !.pending = IF over THEN <<Head(port)>> ELSE Append(@, Head(port)),
                                       !.over = @ \/ over]
             /\ UNCHANGED <<rev, shown, stream>>
    BY <1>1, <1>2, <1>3, <1>5, UpdateKept, ZenonT(40)
  <1>6. CASE watch.on /\ ~watch.initializing /\ Becomes(Apply(Core, Head(port)))
    BY <1>1, <1>3, <1>6, UpdateApplied
  <1>7. QED
    BY <1>1, <1>4, <1>5, <1>6

\* More may be forgiven later.
LEMMA ClientLater ==
  ASSUME NEW c, NEW s, NEW w, NEW st, NEW late, NEW more, ClientFits(c, s, w, st, late), late => more
  PROVE  ClientFits(c, s, w, st, more)
  BY DEF ClientFits, Following

\* A snapshot on its way: the client will have what the queue goes on from.
LEMMA BegunClient ==
  ASSUME NEW n, NEW s, NEW r, NEW d, NEW st, NEW late, n.stream[s].cut = d,
         ~n.stream[s].resync => /\ Start(n, s) = r /\ r \in 0 .. n.rev /\ Before(n, r) <= d
                                /\ late \/ Holds(n, s, d)
  PROVE  ClientFits(n, s, <<[snap |-> TRUE, rev |-> r, cut |-> d]>>, st, late)
  <1> DEFINE f == [snap |-> TRUE, rev |-> r, cut |-> d]
             w == <<f>>
  <1>1. w # << >> /\ Head(w) = f /\ f.snap /\ f.rev = r /\ f.cut = d
    OBVIOUS
  <1> HIDE DEF w, f
  <1>2. After(w, st) = [rev |-> r, cut |-> d]
    BY <1>1 DEF After, Taken, Reduce
  <1>3. ASSUME ~n.stream[s].resync PROVE Following(n, s, After(w, st), late)
    <2>1. Reached(n, s) = [rev |-> r, cut |-> d]
      BY <1>3 DEF Reached
    <2>2. GoodState(n, Reached(n, s))
      BY <1>3, <2>1 DEF GoodState
    <2>3. QED
      BY <1>2, <1>3, <2>1, <2>2 DEF Following
  <1>4. ClientFits(n, s, w, st, late)
    BY <1>1, <1>3 DEF ClientFits
  <1>5. QED
    BY <1>4 DEF w, f

\* A snapshot for s was taken: there is no other.
LEMMA OnlySnapshot ==
  ASSUME StreamInduct, port # << >>, port' = Tail(port), replies' = replies, NEW s \in Streams,
         Head(port) \in SnapshotOf(s)
  PROVE  /\ s \notin requests /\ replies \cap SnapshotOf(s) = {} /\ NoneOf(SnapshotOf(s), port')
         /\ Answers' \cap SnapshotOf(s) = {}
         /\ stream[s].at \in {"reading", "closed"} \/ (stream[s].at = "live" /\ stream[s].resnap)
         /\ Token(s, FALSE, replies, port', stream[s])
  <1>1. port \in Seq(Posts) /\ Token(s, s \in requests, replies, port, stream[s])
    BY CoreOfState DEF StreamInduct, Tokens
  <1>2. Token(s, s \in requests, replies, port', stream[s]) /\ s \notin requests
        /\ replies \cap SnapshotOf(s) = {} /\ NoneOf(SnapshotOf(s), port')
    <2>1. Token(s, s \in requests, replies, Tail(port), stream[s])
      BY <1>1, TokenTaken
    <2>2. ~NoneOf(SnapshotOf(s), port)
      BY PostTaken
    <2>3. Once(SnapshotOf(s), port) /\ s \notin requests /\ replies \cap SnapshotOf(s) = {}
      BY <1>1, <2>2 DEF Token
    <2>4. NoneOf(SnapshotOf(s), Tail(port))
      BY <1>1, <2>3, OnceShortened
    <2>5. QED
      BY <2>1, <2>3, <2>4
  <1>3. ~NoneOf(SnapshotOf(s), port)
    BY PostTaken
  <1>4. stream[s].at \in {"reading", "closed"} \/ (stream[s].at = "live" /\ stream[s].resnap)
    BY <1>1, <1>3 DEF Token
  <1>5. Answers' \cap SnapshotOf(s) = {}
    BY <1>2 DEF Answers, NoneOf
  <1>6. QED
    BY <1>2, <1>4, <1>5 DEF Token

\* One stream that is live changes, or begins; the watch does not.
LEMMA OneStreamChanges ==
  ASSUME StreamInduct, NEW s \in Streams, stream[s].at \in {"reading", "live"}, ~watch.initializing,
         stream' \in [Streams -> Subscribers], \A t \in Streams \ {s} : stream'[t] = stream[t],
         stream'[s].at = "live",
         wire' \in [Streams -> Seq(Frames)], \A t \in Streams \ {s} : wire'[t] = wire[t],
         client' \in [Streams -> States], \A t \in Streams \ {s} : client'[t] = client[t],
         UNCHANGED <<cut, entry, replies, failures, remote, rev, shown, watch>>,
         port' = port \/ (port # << >> /\ port' = Tail(port)),
         requests' = requests \/ requests' = requests \cup {s},
         behind' \in BOOLEAN, behind => behind', gap' \subseteq Streams, NoGap',
         Token(s, s \in requests', replies, port', stream'[s]), Shape(stream'[s], wire'[s]),
         NEW n, n = [rev |-> rev, shown |-> shown, watch |-> watch, stream |-> stream'],
         ~stream'[s].resync => FramesFollow(Core, stream'[s].q),
         \A a \in Answers' \cap SnapshotOf(s) : AnswerFits(n, a),
         ClientFits(n, s, wire'[s], client'[s], behind')
  PROVE  StreamInduct'
  <1>1. /\ Core \in Cores /\ Core.watch = watch /\ Core.rev = rev /\ Core.shown = shown
        /\ Core.stream = stream /\ watch \in Watches /\ Fits(Core) /\ cut \in Nat
        /\ rev \in Nat /\ shown \in Seq(Nat) /\ port \in Seq(Posts)
        /\ cut' = cut /\ remote' = remote /\ replies' = replies /\ entry' = entry
        /\ failures' = failures /\ rev' = rev /\ shown' = shown /\ watch' = watch
    BY CoreOfState
  <1>2. /\ n \in Cores /\ Core' = n /\ n.rev = rev /\ n.shown = shown /\ n.watch = watch
        /\ n.stream = stream'
    BY <1>1 DEF Core, Cores
  <1>3. /\ port' \in Seq(Posts) /\ Once(Updates, port') /\ Once(Watched, port') /\ Once(Unwatched, port')
        /\ UpdatesFirst(port') /\ (NoneOf(Updates, port) => NoneOf(Updates, port'))
        /\ (NoneOf(Watched, port) => NoneOf(Watched, port'))
        /\ (NoneOf(Unwatched, port) => NoneOf(Unwatched, port')) /\ Answers' \subseteq Answers
        /\ \A i \in DOMAIN port' : \E j \in DOMAIN port : port'[i] = port[j]
    <2>1. CASE port' = port
      <3>1. Answers' = Answers
        BY <1>1, <2>1 DEF Answers
      <3>2. QED
        BY <1>1, <2>1, <3>1 DEF StreamInduct, WatchProtocol
    <2>2. CASE port # << >> /\ port' = Tail(port)
      BY <1>1, <2>2, PostTaken
    <2>3. QED
      BY <2>1, <2>2
  <1>4. ("watch" \in requests' <=> "watch" \in requests) /\ ("unwatch" \in requests' <=> "unwatch" \in requests)
        /\ \A t \in Streams \ {s} : t \in requests' <=> t \in requests
    BY NamesDiffer
  <1>5. Placed(Core, remote, "watch" \in requests)
    BY DEF StreamInduct, StreamPlaces
  <1>6. remote = "ready" /\ watch.on
    BY <1>1, <1>5 DEF Placed
  <1>7. ASSUME NEW t \in Streams
        PROVE  /\ Subscribed(n, t) <=> Subscribed(Core, t)
               /\ t # s => n.stream[t] = Core.stream[t]
    BY <1>1, <1>2 DEF Subscribed
  <1>8. StreamTyped'
    <2>1. requests' \subseteq {"watch", "unwatch"} \cup Streams
      BY DEF StreamInduct, StreamTyped
    <2>2. QED
      BY <1>1, <1>2, <1>3, <2>1 DEF StreamInduct, StreamTyped
  <1>9. WatchProtocol'
    BY <1>1, <1>3, <1>4 DEF StreamInduct, WatchProtocol, Watching
  <1>10. StreamPlaces'
    <2>1. "watch" \notin requests
      BY <1>6 DEF StreamInduct, WatchProtocol, Watching
    <2>2. \A t \in Streams : n.stream[t].at # "waiting"
      <3>1. ASSUME NEW t \in Streams PROVE n.stream[t].at # "waiting"
        <4>1. CASE t = s
          BY <1>2, <4>1
        <4>2. CASE t # s
          BY <1>5, <1>6, <1>7, <4>2 DEF Placed
        <4>3. QED
          BY <4>1, <4>2
      <3>2. QED
        BY <3>1
    <2>3. Placed(n, "ready", FALSE)
      BY <1>1, <1>2, <1>6, <2>2 DEF Placed
    <2>4. QED
      BY <1>1, <1>2, <1>4, <1>6, <2>1, <2>3 DEF StreamPlaces, Placed
  <1>11. Tokens'
    <2>1. ASSUME NEW t \in Streams PROVE Token(t, t \in requests', replies, port', stream'[t])
      <3>1. Token(t, t \in requests, replies, port, stream[t])
        BY DEF StreamInduct, Tokens
      <3>2. Token(t, t \in requests, replies, port', stream[t])
        <4>1. CASE port' = port
          BY <3>1, <4>1
        <4>2. CASE port # << >> /\ port' = Tail(port)
          <5>1. Token(t, t \in requests, replies, Tail(port), stream[t])
            BY <1>1, <3>1, <4>2, TokenTaken
          <5>2. QED
            BY <4>2, <5>1
        <4>3. QED
          BY <4>1, <4>2
      <3>3. CASE t # s
        <4>1. stream'[t] = stream[t] /\ (t \in requests' <=> t \in requests)
          BY <1>4, <3>3
        <4>2. QED
          BY <3>2, <4>1 DEF Token
      <3>4. QED
        BY <3>3
    <2>2. QED
      BY <1>1, <2>1 DEF Tokens
  <1>12. Shapes'
    <2>1. ASSUME NEW t \in Streams PROVE Shape(stream'[t], wire'[t])
      <3>1. CASE t # s
        <4>1. stream'[t] = stream[t] /\ wire'[t] = wire[t]
          BY <3>1
        <4>2. QED
          BY <4>1 DEF StreamInduct, Shapes
      <3>2. QED
        BY <3>1
    <2>2. QED
      BY <2>1 DEF Shapes
  <1>13. Pipeline'
    <2>1. ASSUME entry.on, NEW i \in DOMAIN port', port'[i] \in Updates
          PROVE  UpdateFits(entry, cut, port'[i])
      <3>1. PICK j \in DOMAIN port : port'[i] = port[j]
        BY <1>3
      <3>2. QED
        BY <2>1, <3>1 DEF StreamInduct, Pipeline
    <2>2. QED
      BY <1>1, <2>1 DEF StreamInduct, Pipeline
  <1>14. Fits(n) /\ \A i : Before(n, i) = Before(Core, i)
    <2>1. ASSUME NEW t \in Streams
          PROVE  /\ Len(n.stream[t].q) <= FrameLimit
                 /\ Subscribed(n, t) /\ ~n.stream[t].resync => FramesFollow(Core, n.stream[t].q)
      <3>1. CASE t = s
        BY <1>2, <3>1 DEF Shape
      <3>2. CASE t # s
        BY <1>1, <1>7, <3>2, QueueFollows DEF Fits, Bounded
      <3>3. QED
        BY <3>1, <3>2
    <2>2. QED
      BY <1>1, <1>2, <2>1, SubscribersFit
  <1>15. WatchFollows'
    <2>1. WatchFits(n, cut, entry.last)
      BY <1>1, <1>2, <1>14 DEF StreamInduct, WatchFollows, WatchFits
    <2>2. QED
      BY <1>1, <1>2, <2>1 DEF WatchFollows
  <1>16. CoreFits(Core)'
    BY <1>2, <1>14 DEF Fits
  <1>17. AnswersFit'
    <2>1. Answers \cap Watched = {}
      BY <1>6 DEF StreamInduct, WatchProtocol, Watching, Answers, NoneOf
    <2>2. ASSUME NEW a \in Answers', a \in Snapshots PROVE a.cut <= cut /\ AnswerFits(n, a)
      <3>1. a \in Answers /\ a.stream \in Streams /\ (a.stream = s => a \in SnapshotOf(s))
        BY <1>3, <2>2 DEF Snapshots, SnapshotOf
      <3>2. a.cut <= cut /\ AnswerFits(Core, a)
        BY <2>2, <3>1 DEF StreamInduct, AnswersFit
      <3>3. CASE a.stream = s
        BY <3>1, <3>2, <3>3
      <3>4. CASE a.stream # s
        <4>1. /\ n.stream[a.stream] = Core.stream[a.stream] /\ n.rev = Core.rev
              /\ n.shown = Core.shown /\ n.watch.cut = Core.watch.cut
              /\ n.watch.base = Core.watch.base /\ n.watch.initializing = Core.watch.initializing
          BY <1>1, <1>2, <1>7, <3>1, <3>4
        <4>2. QED
          BY <3>2, <4>1, AnswerLocal, ZenonT(40)
      <3>5. QED
        BY <3>3, <3>4
    <2>3. QED
      BY <1>1, <1>2, <1>3, <2>1, <2>2 DEF AnswersFit
  <1>18. ClientsFit'
    <2>1. ASSUME NEW t \in Streams PROVE ClientFits(n, t, wire'[t], client'[t], behind')
      <3>1. CASE t # s
        <4>1. ClientFits(Core, t, wire[t], client[t], behind)
          BY DEF StreamInduct, ClientsFit
        <4>2. n.stream[t] = Core.stream[t] /\ n.watch.cut = Core.watch.cut /\ n.rev = Core.rev
              /\ n.shown = Core.shown /\ wire'[t] = wire[t] /\ client'[t] = client[t]
          BY <1>1, <1>2, <1>7, <3>1
        <4>3. ClientFits(n, t, wire[t], client[t], behind)
          BY <4>1, <4>2, ClientLocal
        <4>4. ClientFits(n, t, wire[t], client[t], behind')
          BY <4>3, ClientLater
        <4>5. QED
          BY <4>2, <4>4
      <3>2. QED
        BY <3>1
    <2>2. QED
      BY <1>2, <2>1 DEF ClientsFit
  <1>19. QED
    BY <1>8, <1>9, <1>10, <1>11, <1>12, <1>13, <1>15, <1>16, <1>17, <1>18 DEF StreamInduct

\* The stream is not there any more.
LEMMA SnapshotIgnored ==
  ASSUME StreamInduct, port # << >>, port' = Tail(port), Head(port) \in Snapshots,
         UNCHANGED <<cut, entry, replies, requests, failures, remote, hostVars, clientVars>>
  PROVE  StreamInduct'
  <1>1. Core' = Core /\ cut' = cut /\ entry' = entry /\ replies' = replies /\ requests' = requests
        /\ failures' = failures /\ remote' = remote /\ UNCHANGED clientVars /\ UNCHANGED hostVars
        /\ port \in Seq(Posts)
    BY HostSame, CoreOfState
  <1>2. /\ port' \in Seq(Posts) /\ Once(Updates, port') /\ Once(Watched, port') /\ Once(Unwatched, port')
        /\ UpdatesFirst(port') /\ (NoneOf(Updates, port) => NoneOf(Updates, port'))
        /\ (NoneOf(Watched, port) => NoneOf(Watched, port'))
        /\ (NoneOf(Unwatched, port) => NoneOf(Unwatched, port')) /\ Answers' \subseteq Answers
        /\ \A i \in DOMAIN port' : \E j \in DOMAIN port : port'[i] = port[j]
    BY <1>1, PostTaken
  <1>3. StreamTyped'
    BY <1>1, <1>2 DEF StreamInduct, StreamTyped, clientVars
  <1>4. WatchProtocol'
    BY <1>1, <1>2 DEF StreamInduct, WatchProtocol, Watching
  <1>5. StreamPlaces' /\ Shapes' /\ ClientsFit' /\ CoreFits(Core)' /\ WatchFollows'
    BY <1>1 DEF StreamInduct, StreamPlaces, Shapes, hostVars, clientVars, ClientsFit, NoGap, WatchFollows
  <1>6. Tokens'
    <2>1. \A s \in Streams : Token(s, s \in requests, replies, Tail(port), stream[s])
      BY <1>1, TokenTaken DEF StreamInduct, Tokens
    <2>2. QED
      BY <1>1, <2>1 DEF Tokens, hostVars
  <1>7. Pipeline'
    <2>1. ASSUME entry.on, NEW i \in DOMAIN port', port'[i] \in Updates
          PROVE  UpdateFits(entry, cut, port'[i])
      <3>1. PICK j \in DOMAIN port : port'[i] = port[j]
        BY <1>2
      <3>2. QED
        BY <2>1, <3>1 DEF StreamInduct, Pipeline
    <2>2. QED
      BY <1>1, <2>1 DEF StreamInduct, Pipeline
  <1>8. AnswersFit'
    BY <1>1, <1>2, AnswersSame
  <1>9. QED
    BY <1>3, <1>4, <1>5, <1>6, <1>7, <1>8 DEF StreamInduct

\* The watch is there and the stream joins it with its first snapshot.
LEMMA SnapshotJoins ==
  ASSUME StreamInduct, port # << >>, port' = Tail(port), NEW s \in Streams,
         Head(port) \in SnapshotOf(s), stream[s].at = "reading", ~watch.initializing,
         Becomes(Begin(Core, s, Head(port).cut)),
         wire' = [wire EXCEPT ![s] = <<SnapshotFrame(Core, s, Head(port).cut)>>],
         behind' = (behind \/ Head(port).cut < watch.base),
         UNCHANGED <<cut, entry, replies, requests, failures, remote, client, gap>>
  PROVE  StreamInduct'
  <1> DEFINE d == Head(port).cut
             n == JoinedCore(Core, s, d)
             r == Control(Core, stream[s].q, d)
  <1>1. /\ Core \in Cores /\ Core.watch = watch /\ Core.rev = rev /\ Core.shown = shown
        /\ Core.stream = stream /\ watch \in Watches /\ Fits(Core) /\ rev \in Nat
        /\ stream \in [Streams -> Subscribers]
    BY CoreOfState
  <1>2. d \in Nat /\ Head(port) \in Snapshots /\ Head(port).stream = s /\ Head(port) \in Answers
    <2>1. Head(port) \in Answers
      BY PostTaken
    <2>2. QED
      BY <2>1 DEF SnapshotOf, Snapshots
  <1>3. AnswerFits(Core, Head(port))
    BY <1>2 DEF StreamInduct, AnswersFit
  <1>4. ~stream[s].resync => Before(Core, Start(Core, s)) <= d /\ (Holds(Core, s, d) \/ d < watch.base)
    <2>1. Subscribed(Core, s)
      BY <1>1 DEF Subscribed
    <2>2. QED
      BY <1>1, <1>2, <1>3, <2>1 DEF AnswerFits
  <1>5. Becomes(n) /\ SnapshotFrame(Core, s, d) = [snap |-> TRUE, rev |-> r, cut |-> d]
    <2>1. Begin(Core, s, d) = n
      BY <1>1 DEF Begin, JoinedCore
    <2>2. QED
      BY <1>1, <2>1 DEF SnapshotFrame
  <1>6. r \in Int
    <2>1. stream[s].q \in Seq(Published)
      BY <1>1, PartsOfSubscriber
    <2> HIDE DEF d
    <2>2. QED
      BY <1>1, <1>2, <2>1, ControlIsRevision
  <1>7. /\ Fits(n) /\ n.rev = Core.rev /\ n.shown = Core.shown /\ n.watch = Core.watch
        /\ \A t \in Streams \ {s} : n.stream[t] = Core.stream[t]
        /\ n.stream[s].at = "live" /\ n.stream[s].busy /\ n.stream[s].cut = d
        /\ n.stream[s].resync = Core.stream[s].resync /\ n.stream[s].resnap = Core.stream[s].resnap
        /\ ~n.stream[s].resync => /\ Start(n, s) = r /\ r \in 0 .. Core.rev /\ Before(Core, r) <= d
                                  /\ \A e \in Nat : d <= e /\ Holds(Core, s, e) => Holds(n, s, e)
    <2>1. r = Control(Core, Core.stream[s].q, d)
      BY <1>1
    <2>2. n = JoinedCore(Core, s, d) /\ Core.stream[s].at \in {"waiting", "reading"}
          /\ (~Core.stream[s].resync => Before(Core, Start(Core, s)) <= d)
      BY <1>1, <1>4
    <2> HIDE DEF n, r, d
    <2>3. QED
      BY <1>1, <1>2, <2>1, <2>2, JoinedFits
  <1>8. /\ s \notin requests /\ Token(s, FALSE, replies, port', stream[s])
        /\ replies \cap SnapshotOf(s) = {} /\ NoneOf(SnapshotOf(s), port')
        /\ Answers' \cap SnapshotOf(s) = {}
    BY OnlySnapshot
  <1>9. wire' = [wire EXCEPT ![s] = <<[snap |-> TRUE, rev |-> r, cut |-> d]>>]
    BY <1>5
  <1>10. behind' = (behind \/ d < watch.base)
    OBVIOUS
  <1> HIDE DEF n, r, d
  <1> DEFINE w == <<[snap |-> TRUE, rev |-> r, cut |-> d]>>
  <1>11. w \in Seq(Frames) /\ Len(w) = 1
    BY <1>2, <1>6 DEF Frames
  <1>12. /\ wire' \in [Streams -> Seq(Frames)] /\ wire'[s] = w
         /\ \A t \in Streams \ {s} : wire'[t] = wire[t]
    <2>1. wire \in [Streams -> Seq(Frames)]
      BY DEF StreamInduct, StreamTyped
    <2> HIDE DEF w
    <2>2. wire' = [wire EXCEPT ![s] = w]
      BY <1>9 DEF w
    <2>3. QED
      BY <1>11, <2>1, <2>2
  <1>13. /\ n \in Cores /\ stream' = n.stream /\ rev' = rev /\ shown' = shown /\ watch' = watch
         /\ n.stream \in [Streams -> Subscribers]
    BY <1>1, <1>5, <1>7, PartsOfCore DEF Becomes, Fits
  <1>14. n = [rev |-> rev, shown |-> shown, watch |-> watch, stream |-> stream']
    BY <1>1, <1>7, <1>13, PartsOfCore
  <1>15. ~stream[s].resnap /\ stream[s].at # "live"
    BY DEF StreamInduct, Shapes, Shape
  <1>16. Token(s, s \in requests', replies, port', stream'[s])
    BY <1>7, <1>8, <1>13 DEF Token
  <1>17. Shape(stream'[s], wire'[s])
    BY <1>1, <1>7, <1>11, <1>12, <1>13, <1>15 DEF Shape, Fits, Bounded
  <1>18. ClientFits(n, s, w, client[s], behind')
    <2>1. ~n.stream[s].resync => /\ Start(n, s) = r /\ r \in 0 .. n.rev /\ Before(n, r) <= d
                                 /\ behind' \/ Holds(n, s, d)
      <3>1. SUFFICES ASSUME ~n.stream[s].resync
                     PROVE  /\ Start(n, s) = r /\ r \in 0 .. n.rev /\ Before(n, r) <= d
                            /\ behind' \/ Holds(n, s, d)
        OBVIOUS
      <3>2. Before(n, r) = Before(Core, r)
        BY <1>7 DEF Before
      <3>3. Holds(Core, s, d) \/ d < watch.base
        BY <1>1, <1>4, <1>7, <3>1
      <3>4. Holds(Core, s, d) => Holds(n, s, d)
        BY <1>2, <1>7, <3>1
      <3>5. QED
        BY <1>7, <1>10, <3>1, <3>2, <3>3, <3>4
    <2>2. QED
      BY <1>7, <2>1, BegunClient
  <1>19. ~stream'[s].resync => FramesFollow(Core, stream'[s].q)
    <2>1. ASSUME ~stream'[s].resync PROVE FramesFollow(Core, stream'[s].q)
      <3>1. Subscribed(n, s)
        BY <1>7 DEF Subscribed
      <3>2. FramesFollow(n, n.stream[s].q)
        BY <1>7, <1>13, <2>1, <3>1, QueueFollows
      <3>3. QED
        BY <1>7, <1>13, <3>2, ZenonT(40) DEF FramesFollow, Before
    <2>2. QED
      BY <2>1, SMTT(40)
  <1>20. NoGap' /\ behind' \in BOOLEAN /\ (behind => behind') /\ gap' \subseteq Streams
         /\ client \in [Streams -> States]
    BY <1>10 DEF StreamInduct, StreamTyped, ClientsFit, NoGap
  <1> HIDE DEF w
  <1>21. QED
    BY <1>1, <1>7, <1>8, <1>12, <1>13, <1>14, <1>16, <1>17, <1>18, <1>19, <1>20, OneStreamChanges

\* Another resync was wanted meanwhile: the snapshot is asked for again.
LEMMA SnapshotAgain ==
  ASSUME StreamInduct, port # << >>, port' = Tail(port), NEW s \in Streams,
         Head(port) \in SnapshotOf(s), stream[s].at = "live", stream[s].resync,
         stream' = [stream EXCEPT ![s].resync = FALSE, ![s].q = << >>],
         requests' = requests \cup {s},
         UNCHANGED <<cut, entry, replies, failures, remote, rev, shown, watch, clientVars>>
  PROVE  StreamInduct'
  <1>1. /\ Core \in Cores /\ Core.watch = watch /\ Core.rev = rev /\ Core.shown = shown
        /\ Core.stream = stream /\ Fits(Core)
        /\ stream \in [Streams -> Subscribers]
        /\ cut' = cut /\ remote' = remote /\ replies' = replies /\ entry' = entry
        /\ failures' = failures /\ rev' = rev /\ shown' = shown /\ watch' = watch
        /\ wire' = wire /\ client' = client /\ gap' = gap /\ behind' = behind
    BY CoreOfState DEF clientVars
  <1>2. /\ s \notin requests /\ replies \cap SnapshotOf(s) = {} /\ NoneOf(SnapshotOf(s), port')
        /\ Answers' \cap SnapshotOf(s) = {} /\ stream[s].resnap
        /\ Token(s, FALSE, replies, port', stream[s])
    BY OnlySnapshot
  <1>3. /\ stream' \in [Streams -> Subscribers] /\ \A t \in Streams \ {s} : stream'[t] = stream[t]
        /\ stream'[s].at = "live" /\ ~stream'[s].resync /\ stream'[s].q = << >>
        /\ stream'[s].busy = stream[s].busy /\ stream'[s].resnap
    <2>1. << >> \in Seq(Published)
      OBVIOUS
    <2> DEFINE st == [stream[s] EXCEPT !.resync = FALSE, !.q = << >>]
    <2>2. st \in Subscribers /\ st.at = "live" /\ ~st.resync /\ st.q = << >> /\ st.busy = stream[s].busy
          /\ st.resnap
      BY <1>1, <1>2, <2>1, ZenonT(40) DEF Subscribers
    <2>3. stream' = [stream EXCEPT ![s] = st]
      OBVIOUS
    <2> HIDE DEF st
    <2>4. stream \in [Streams -> Subscribers]
      BY <1>1
    <2>5. stream' \in [Streams -> Subscribers] /\ stream'[s] = st
          /\ \A t \in Streams \ {s} : stream'[t] = stream[t]
      BY <2>2, <2>3, <2>4
    <2>6. QED
      BY <2>2, <2>5
  <1>4. ~watch.initializing
    BY <1>1 DEF StreamInduct, StreamPlaces, Placed
  <1>5. Token(s, s \in requests', replies, port', stream'[s])
    BY <1>2, <1>3 DEF Token
  <1>6. Shape(stream'[s], wire[s])
    <2>1. Shape(stream[s], wire[s])
      BY DEF StreamInduct, Shapes
    <2>2. Len(<< >>) = 0 /\ FrameLimit \in Nat
      BY StreamAssumption
    <2>3. QED
      BY <1>2, <1>3, <2>1, <2>2 DEF Shape
  <1> DEFINE n == [rev |-> rev, shown |-> shown, watch |-> watch, stream |-> stream']
  <1>7. n.stream = stream'
    OBVIOUS
  <1>8. n = [rev |-> rev, shown |-> shown, watch |-> watch, stream |-> stream']
    OBVIOUS
  <1> HIDE DEF n
  <1>9. FramesFollow(Core, stream'[s].q)
    BY <1>1, <1>3, EmptyFollows
  <1>10. ClientFits(n, s, wire[s], client[s], behind)
    <2>1. wire[s] = << >>
      BY <1>2 DEF StreamInduct, Shapes, Shape
    <2>2. QED
      BY <1>3, <1>7, <2>1 DEF ClientFits
  <1>11. /\ NoGap' /\ behind' \in BOOLEAN /\ gap' \subseteq Streams
         /\ client \in [Streams -> States] /\ wire \in [Streams -> Seq(Frames)]
    BY <1>1, SMTT(40) DEF StreamInduct, StreamTyped, ClientsFit, NoGap
  <1>12. QED
    BY <1>1, <1>2, <1>3, <1>4, <1>5, <1>6, <1>8, <1>9, <1>10, <1>11, OneStreamChanges

\* A live stream goes on from its new snapshot.
LEMMA SnapshotGoesOn ==
  ASSUME StreamInduct, port # << >>, port' = Tail(port), NEW s \in Streams,
         Head(port) \in SnapshotOf(s), stream[s].at = "live", ~stream[s].resync,
         stream' = [stream EXCEPT ![s].resnap = FALSE, ![s].cut = Head(port).cut,
                      ![s].q = Later(@, Control(Core, stream[s].q, Head(port).cut))],
         wire' = [wire EXCEPT ![s] = <<SnapshotFrame(Core, s, Head(port).cut)>>],
         UNCHANGED <<cut, entry, replies, requests, failures, remote, rev, shown, watch, client, gap,
                     behind>>
  PROVE  StreamInduct'
  <1> DEFINE d == Head(port).cut
             q == stream[s].q
             r == Control(Core, q, d)
             e == Later(q, r)
  <1>1. /\ Core \in Cores /\ Core.watch = watch /\ Core.rev = rev /\ Core.shown = shown
        /\ Core.stream = stream /\ Fits(Core) /\ rev \in Nat /\ watch \in Watches
        /\ stream \in [Streams -> Subscribers]
    BY CoreOfState
  <1>2. d \in Nat /\ Head(port) \in Snapshots /\ Head(port).stream = s /\ Head(port) \in Answers
    <2>1. Head(port) \in Answers
      BY PostTaken
    <2>2. QED
      BY <2>1 DEF SnapshotOf, Snapshots
  <1>3. /\ s \notin requests /\ replies \cap SnapshotOf(s) = {} /\ NoneOf(SnapshotOf(s), port')
        /\ Answers' \cap SnapshotOf(s) = {} /\ stream[s].resnap
        /\ Token(s, FALSE, replies, port', stream[s])
    BY OnlySnapshot
  <1>4. ~watch.initializing /\ Subscribed(Core, s)
    BY <1>1 DEF StreamInduct, StreamPlaces, Placed, Subscribed
  <1>5. Before(Core, Start(Core, s)) <= d /\ Holds(Core, s, d)
    <2>1. AnswerFits(Core, Head(port))
      BY <1>2 DEF StreamInduct, AnswersFit
    <2>2. QED
      BY <1>1, <1>2, <1>4, <2>1 DEF AnswerFits
  <1>6. /\ r \in Start(Core, s) .. rev /\ r \in 0 .. rev /\ Before(Core, r) <= d
        /\ e \in Seq(Published) /\ Len(e) <= FrameLimit /\ Len(e) = rev - r
        /\ FramesFollow(Core, e)
        /\ \A x \in Nat : x > d /\ (\E i \in DOMAIN q : q[i].cut = x)
                               => \E i \in DOMAIN e : e[i].cut = x
    <2>1. LET q1 == Core.stream[s].q
              r1 == Control(Core, q1, d)
              e1 == Later(q1, r1)
          IN  /\ r1 \in Start(Core, s) .. Core.rev /\ r1 \in 0 .. Core.rev /\ Before(Core, r1) <= d
              /\ e1 \in Seq(Published) /\ Len(e1) <= FrameLimit /\ Len(e1) = Core.rev - r1
              /\ FramesFollow(Core, e1)
              /\ \A x \in Nat : x > d /\ (\E i \in DOMAIN q1 : q1[i].cut = x)
                                     => \E i \in DOMAIN e1 : e1[i].cut = x
      <3> HIDE DEF d
      <3>1. QED
        <4>1. Fits(Core) /\ Subscribed(Core, s) /\ ~Core.stream[s].resync /\ d \in Nat
              /\ Before(Core, Start(Core, s)) <= d
          BY <1>1, <1>2, <1>4, <1>5
        <4>2. QED
          BY <4>1, LaterFollows
    <2>2. QED
      BY <1>1, <2>1
  <1>7. SnapshotFrame(Core, s, d) = [snap |-> TRUE, rev |-> r, cut |-> d]
    BY <1>1 DEF SnapshotFrame
  <1>8. stream' = [stream EXCEPT ![s].resnap = FALSE, ![s].cut = d, ![s].q = e]
    OBVIOUS
  <1>9. wire' = [wire EXCEPT ![s] = <<[snap |-> TRUE, rev |-> r, cut |-> d]>>]
    BY <1>7
  <1>10. \A x \in d + 1 .. watch.cut : \E i \in DOMAIN q : q[i].cut = x
    BY <1>1, <1>5 DEF Holds
  <1> HIDE DEF d, q, r, e
  <1>11. /\ stream' \in [Streams -> Subscribers] /\ \A t \in Streams \ {s} : stream'[t] = stream[t]
         /\ stream'[s].at = "live" /\ ~stream'[s].resync /\ stream'[s].q = e /\ stream'[s].cut = d
         /\ stream'[s].busy = stream[s].busy /\ ~stream'[s].resnap
    <2> DEFINE st == [stream[s] EXCEPT !.resnap = FALSE, !.cut = d, !.q = e]
    <2>1. st \in Subscribers /\ st.at = "live" /\ ~st.resync /\ st.q = e /\ st.busy = stream[s].busy
          /\ ~st.resnap /\ st.cut = d
      <3>1. stream[s] \in Subscribers /\ e \in Seq(Published)
        BY <1>1, <1>6
      <3>2. QED
        BY <1>2, <3>1 DEF Subscribers
    <2>2. stream' = [stream EXCEPT ![s] = st]
      BY <1>8
    <2> HIDE DEF st
    <2>3. stream \in [Streams -> Subscribers]
      BY <1>1
    <2>4. stream' \in [Streams -> Subscribers] /\ stream'[s] = st
          /\ \A t \in Streams \ {s} : stream'[t] = stream[t]
      BY <2>1, <2>2, <2>3, ZenonT(40)
    <2>5. QED
      BY <2>1, <2>4
  <1> DEFINE w == <<[snap |-> TRUE, rev |-> r, cut |-> d]>>
  <1>12. w \in Seq(Frames) /\ Len(w) = 1
    BY <1>2, <1>6 DEF Frames
  <1>13. /\ wire' \in [Streams -> Seq(Frames)] /\ wire'[s] = w
         /\ \A t \in Streams \ {s} : wire'[t] = wire[t]
    <2>1. wire \in [Streams -> Seq(Frames)]
      BY DEF StreamInduct, StreamTyped
    <2> HIDE DEF w
    <2>2. wire' = [wire EXCEPT ![s] = w]
      BY <1>9 DEF w
    <2>3. QED
      BY <1>12, <2>1, <2>2
  <1>14. Token(s, s \in requests', replies, port', stream'[s])
    BY <1>3, <1>11 DEF Token
  <1>15. Shape(stream'[s], wire'[s])
    <2>1. stream[s].busy
      BY <1>3 DEF StreamInduct, Shapes, Shape
    <2>2. QED
      BY <1>6, <1>11, <1>12, <1>13, <2>1 DEF Shape
  <1> DEFINE n == [rev |-> rev, shown |-> shown, watch |-> watch, stream |-> stream']
  <1>16. n.stream = stream' /\ n.rev = rev /\ n.shown = shown /\ n.watch = watch
    OBVIOUS
  <1>17. n = [rev |-> rev, shown |-> shown, watch |-> watch, stream |-> stream']
    OBVIOUS
  <1> HIDE DEF n
  <1>18. ClientFits(n, s, w, client[s], behind)
    <2>1. Start(n, s) = r
      BY <1>1, <1>6, <1>11, <1>16 DEF Start
    <2>2. Before(n, r) <= d
      BY <1>1, <1>6, <1>16 DEF Before
    <2>3. Holds(n, s, d)
      <3>1. ASSUME NEW x \in d + 1 .. watch.cut PROVE \E i \in DOMAIN e : e[i].cut = x
        <4>1. x \in Nat /\ x > d
          BY <1>2, <3>1
        <4>2. \E i \in DOMAIN q : q[i].cut = x
          BY <1>10
        <4>3. QED
          BY <1>6, <4>1, <4>2
      <3>2. QED
        BY <1>11, <1>16, <3>1 DEF Holds
    <2>4. QED
      BY <1>6, <1>11, <1>16, <2>1, <2>2, <2>3, BegunClient
  <1>19. /\ NoGap' /\ behind' \in BOOLEAN /\ gap' \subseteq Streams
         /\ client \in [Streams -> States]
    BY DEF StreamInduct, StreamTyped, ClientsFit, NoGap
  <1>20. FramesFollow(Core, stream'[s].q)
    BY <1>6, <1>11
  <1> HIDE DEF w
  <1>21. QED
    BY <1>3, <1>4, <1>11, <1>13, <1>14, <1>15, <1>17, <1>18, <1>19, <1>20, OneStreamChanges

\* The Core when the watch has answered with d: the subscribers in R read their own snapshots.
ReadingCore(d, R) ==
  [rev |-> rev, shown |-> shown, watch |-> [watch EXCEPT !.cut = d],
   stream |-> [s \in Streams |-> IF s \in R THEN [stream[s] EXCEPT !.at = "reading"] ELSE stream[s]]]

\* The Core whose waiting subscribers in R have asked for their snapshots.
LEMMA ReadersFit ==
  ASSUME StreamInduct, NEW d \in Nat, NEW R \in SUBSET Streams, \A s \in R : stream[s].at = "waiting",
         NEW c, c = ReadingCore(d, R)
  PROVE  /\ Fits(c) /\ c.rev = rev /\ c.shown = shown
         /\ c.watch.on = watch.on /\ c.watch.initializing = watch.initializing
         /\ c.watch.pending = watch.pending /\ c.watch.over = watch.over
         /\ \A i : Before(c, i) = Before(Core, i)
         /\ \A t \in Streams :
              /\ c.stream[t].q = stream[t].q /\ c.stream[t].resync = stream[t].resync
              /\ c.stream[t].busy = stream[t].busy /\ c.stream[t].resnap = stream[t].resnap
              /\ t \in R => c.stream[t].at = "reading"
              /\ t \notin R => c.stream[t] = stream[t]
  <1> DEFINE m == [s \in Streams |-> IF s \in R THEN [stream[s] EXCEPT !.at = "reading"] ELSE stream[s]]
             w == [watch EXCEPT !.cut = d]
  <1>1. /\ Core \in Cores /\ Core.watch = watch /\ Core.rev = rev /\ Core.shown = shown
        /\ Core.stream = stream /\ Fits(Core) /\ rev \in Nat /\ watch \in Watches
        /\ stream \in [Streams -> Subscribers] /\ shown \in Seq(Nat)
    BY CoreOfState
  <1>2. c = [rev |-> rev, shown |-> shown, watch |-> w, stream |-> m]
    BY DEF ReadingCore
  <1>3. ASSUME NEW t \in Streams
        PROVE  /\ m[t] \in Subscribers
               /\ m[t].q = stream[t].q /\ m[t].resync = stream[t].resync
               /\ m[t].busy = stream[t].busy /\ m[t].resnap = stream[t].resnap
               /\ t \in R => m[t].at = "reading"
               /\ t \notin R => m[t] = stream[t]
    <2>1. CASE t \in R
      <3>1. m[t] = [stream[t] EXCEPT !.at = "reading"] /\ stream[t] \in Subscribers
        BY <1>1, <2>1
      <3>2. QED
        BY <2>1, <3>1, PlaceChanged
    <2>2. CASE t \notin R
      BY <1>1, <2>2
    <2>3. QED
      BY <2>1, <2>2
  <1>4. m \in [Streams -> Subscribers]
    <2>1. m = [s \in Streams |-> m[s]]
      OBVIOUS
    <2>2. QED
      BY <1>3, <2>1
  <1>5. w \in Watches /\ w.on = watch.on /\ w.initializing = watch.initializing
        /\ w.pending = watch.pending /\ w.over = watch.over
    BY <1>1 DEF Watches
  <1> HIDE DEF m, w
  <1>6. c \in Cores /\ c.rev = rev /\ c.shown = shown /\ c.watch = w /\ c.stream = m
    <2>1. c.rev = rev /\ c.shown = shown /\ c.watch = w /\ c.stream = m
      BY <1>2
    <2>2. rev \in Nat /\ shown \in Seq(Nat) /\ w \in Watches
      BY <1>1, <1>5
    <2>3. c \in Cores
      BY <1>2, <1>4, <2>2 DEF Cores
    <2>4. QED
      BY <2>1, <2>3
  <1>7. Fits(c) /\ \A i : Before(c, i) = Before(Core, i)
    <2>1. ASSUME NEW t \in Streams
          PROVE  /\ Len(c.stream[t].q) <= FrameLimit
                 /\ Subscribed(c, t) /\ ~c.stream[t].resync => FramesFollow(Core, c.stream[t].q)
      <3>1. c.stream[t].q = Core.stream[t].q /\ (c.stream[t].resync <=> Core.stream[t].resync)
        BY <1>1, <1>3, <1>6
      <3>2. Subscribed(c, t) => Subscribed(Core, t)
        <4>1. CASE t \in R
          BY <1>1, <4>1 DEF Subscribed
        <4>2. CASE t \notin R
          BY <1>1, <1>3, <1>6, <4>2 DEF Subscribed
        <4>3. QED
          BY <4>1, <4>2
      <3>3. QED
        BY <1>1, <3>1, <3>2, QueueFollows DEF Fits, Bounded
    <2>2. QED
      BY <1>1, <1>6, <2>1, SubscribersFit
  <1>8. QED
    BY <1>3, <1>5, <1>6, <1>7

\* A frame is put on its way.
LEMMA FrameSent ==
  ASSUME NEW g \in [Streams -> Seq(Frames)], NEW s \in Streams, NEW w \in Seq(Frames),
         NEW h, h = [g EXCEPT ![s] = w]
  PROVE  h \in [Streams -> Seq(Frames)] /\ h[s] = w /\ \A t \in Streams \ {s} : h[t] = g[t]
  OBVIOUS

\* The initialisation of the watch ends with the snapshot that s begins with.
LEMMA WatchBegins ==
  ASSUME StreamInduct, port # << >>, port' = Tail(port), NEW s \in Streams, NEW d \in Nat, d <= cut,
         watch.on, watch.initializing, entry.on, Before(Core, rev) <= d,
         watch.pending = << >> => entry.last <= d,
         watch.pending # << >> /\ ~watch.over => watch.pending[1].snap \/ watch.pending[1].cut <= d + 1,
         NEW c, Fits(c), c.rev = rev, c.shown = shown,
         c.watch.on = watch.on, c.watch.initializing = watch.initializing,
         c.watch.pending = watch.pending, c.watch.over = watch.over,
         \A t \in Streams : c.stream[t].resnap = stream[t].resnap,
         c.stream[s].at \in {"waiting", "reading"},
         ~c.stream[s].resync => Before(c, Start(c, s)) <= d,
         \A t \in Streams \ {s} : /\ c.stream[t].at \in {"off", "reading", "closed"}
                                  /\ c.stream[t].at = "off" => c.stream[t] = NoStream,
         Becomes(Begin(c, s, d)),
         NEW f, f = [snap |-> TRUE, rev |-> Control(c, c.stream[s].q, d), cut |-> d],
         wire' \in [Streams -> Seq(Frames)], wire'[s] = <<f>>, \A t \in Streams \ {s} : wire'[t] = wire[t],
         \A t \in Streams : wire[t] = << >> /\ ~stream[t].busy /\ ~stream[t].resnap,
         \A t \in Streams : c.stream[t].busy = stream[t].busy,
         remote' = "ready", "watch" \notin requests', "unwatch" \notin requests',
         requests' \subseteq Streams,
         replies \cap Watched = {}, NoneOf(Watched, port'), NoneOf(Unwatched, port'),
         \A t \in Streams : Token(t, t \in requests', replies, port', c.stream[t]),
         s \notin requests', replies \cap SnapshotOf(s) = {}, NoneOf(SnapshotOf(s), port'),
         \A a \in Answers' \cap Snapshots :
           /\ a.stream # s
           /\ Subscribed(c, a.stream) /\ ~c.stream[a.stream].resync =>
                Before(c, Start(c, a.stream)) <= a.cut,
         UNCHANGED <<cut, entry, replies, failures, client, gap, behind>>
  PROVE  StreamInduct'
  <1> DEFINE n == Begin(c, s, d)
             r == Control(c, c.stream[s].q, d)
  <1>1. /\ Core \in Cores /\ Core.watch = watch /\ Core.rev = rev /\ Core.shown = shown
        /\ Core.stream = stream /\ Fits(Core) /\ rev \in Nat /\ watch \in Watches
        /\ cut \in Nat /\ entry \in Entries
    BY CoreOfState
  <1>2. WatchFits(Core, cut, entry.last) /\ Placed(Core, remote, "watch" \in requests)
    BY DEF StreamInduct, WatchFollows, StreamPlaces
  <1>3. Before(c, c.rev) <= d /\ \A i : Before(c, i) = Before(Core, i)
    BY <1>1, SMTT(40) DEF Before
  <1>4. /\ Fits(n) /\ c.rev <= n.rev /\ \A i \in 0 .. c.rev : Before(n, i) = Before(c, i)
        /\ n.watch.on /\ ~n.watch.initializing /\ n.watch.pending = << >>
        /\ d <= n.watch.cut /\ n.watch.cut <= cut /\ n.watch.base \in Nat
        /\ watch.pending # << >> => watch.pending[Len(watch.pending)].cut <= n.watch.cut
        /\ Before(n, n.rev) <= n.watch.cut
        /\ \A t \in Streams \ {s} :
             /\ n.stream[t].at = c.stream[t].at /\ n.stream[t].busy = c.stream[t].busy
             /\ n.stream[t].resnap = c.stream[t].resnap
             /\ n.stream[t].cut = c.stream[t].cut
             /\ ~Subscribed(c, t) => n.stream[t] = c.stream[t]
             /\ Subscribed(c, t) /\ ~n.stream[t].resync =>
                  /\ ~c.stream[t].resync /\ Start(n, t) = Start(c, t)
                  /\ \A e \in Nat : n.watch.base <= e => Holds(n, t, e)
        /\ n.stream[s].at = "live" /\ n.stream[s].busy /\ n.stream[s].cut = d
        /\ n.stream[s].resnap = c.stream[s].resnap
        /\ ~n.stream[s].resync =>
             Start(n, s) = r /\ r \in 0 .. c.rev /\ Before(c, r) <= d /\ Holds(n, s, d)
    <2>1. /\ InOrder(c.watch.pending)
          /\ \A i \in DOMAIN c.watch.pending : c.watch.pending[i].cut <= cut
      BY <1>1, <1>2 DEF WatchFits
    <2>2. c.watch.over => c.watch.pending # << >>
      BY <1>1, <1>2 DEF Placed
    <2>3. c.watch.on /\ c.watch.initializing
      OBVIOUS
    <2>4. c.watch.pending # << >> /\ ~c.watch.over =>
            c.watch.pending[1].snap \/ c.watch.pending[1].cut <= d + 1
      BY SMTT(40)
    <2>5. LET n1 == Begin(c, s, d)
              r1 == Control(c, c.stream[s].q, d)
              p == c.watch.pending
          IN  /\ Fits(n1) /\ c.rev <= n1.rev /\ \A i \in 0 .. c.rev : Before(n1, i) = Before(c, i)
              /\ n1.watch.on /\ ~n1.watch.initializing /\ n1.watch.pending = << >>
              /\ d <= n1.watch.cut /\ n1.watch.cut <= cut /\ n1.watch.base \in Nat
              /\ p # << >> => p[Len(p)].cut <= n1.watch.cut
              /\ Before(n1, n1.rev) <= n1.watch.cut
              /\ \A t \in Streams \ {s} :
                   /\ n1.stream[t].at = c.stream[t].at /\ n1.stream[t].busy = c.stream[t].busy
                   /\ n1.stream[t].resnap = c.stream[t].resnap
                   /\ n1.stream[t].cut = c.stream[t].cut
                   /\ ~Subscribed(c, t) => n1.stream[t] = c.stream[t]
                   /\ Subscribed(c, t) /\ ~n1.stream[t].resync =>
                        /\ ~c.stream[t].resync /\ Start(n1, t) = Start(c, t)
                        /\ \A e \in Nat : n1.watch.base <= e => Holds(n1, t, e)
              /\ n1.stream[s].at = "live" /\ n1.stream[s].busy /\ n1.stream[s].cut = d
              /\ n1.stream[s].resnap = c.stream[s].resnap
              /\ ~n1.stream[s].resync =>
                   Start(n1, s) = r1 /\ r1 \in 0 .. c.rev /\ Before(c, r1) <= d /\ Holds(n1, s, d)
      <3>1. cut \in Nat
        BY <1>1
      <3>2. Before(c, c.rev) <= d
        BY <1>3
      <3>3. QED
        BY <2>1, <2>2, <2>3, <2>4, <3>1, <3>2, BeginFits
    <2> HIDE DEF n, r
    <2>6. QED
      BY <2>5 DEF n, r
  <1>5. r \in Int
    <2>1. c \in Cores /\ c.stream[s].q \in Seq(Published)
      BY PartsOfCore, PartsOfSubscriber DEF Fits
    <2>2. QED
      BY <2>1, ControlIsRevision
  <1>6. Becomes(n) /\ f = [snap |-> TRUE, rev |-> r, cut |-> d]
    OBVIOUS
  <1> HIDE DEF n, r
  <1>7. n \in Cores /\ Core' = n /\ stream' = n.stream /\ n.rev \in Nat /\ n.watch.cut \in Nat
    <2>1. n \in Cores
      BY <1>4 DEF Fits
    <2>2. n.rev \in Nat /\ n.watch \in Watches
      BY <2>1, PartsOfCore
    <2>3. n.watch.cut \in Nat
      BY <2>2 DEF Watches
    <2>4. Core' = n /\ stream' = n.stream
      BY <1>6, <2>1, BecomesCore DEF Becomes
    <2>5. QED
      BY <2>1, <2>2, <2>3, <2>4
  <1>8. cut' = cut /\ entry' = entry /\ replies' = replies /\ failures' = failures /\ client' = client
        /\ gap' = gap /\ behind' = behind
    OBVIOUS
  <1>9. /\ port' \in Seq(Posts) /\ Once(Updates, port') /\ Once(Watched, port') /\ Once(Unwatched, port')
        /\ UpdatesFirst(port') /\ (NoneOf(Updates, port) => NoneOf(Updates, port'))
        /\ Answers' \subseteq Answers
        /\ \A i \in DOMAIN port' : \E j \in DOMAIN port : port'[i] = port[j]
    BY <1>8, PostTaken
  <1> DEFINE w == <<f>>
  <1>10. w \in Seq(Frames) /\ Len(w) = 1
    <2>1. f \in Frames
      BY <1>5, <1>6 DEF Frames
    <2>2. QED
      BY <2>1
  <1>11. /\ wire' \in [Streams -> Seq(Frames)] /\ wire'[s] = w
         /\ \A t \in Streams \ {s} : wire'[t] = << >>
    BY SMTT(40)
  <1>12. StreamTyped'
    <2>1. requests' \subseteq {"watch", "unwatch"} \cup Streams
      OBVIOUS
    <2>2. QED
      BY <1>7, <1>8, <1>9, <1>11, <2>1 DEF StreamInduct, StreamTyped
  <1>13. WatchProtocol'
    BY <1>8, <1>9 DEF StreamInduct, WatchProtocol, Watching
  <1>14. StreamPlaces'
    <2>1. \A t \in Streams : n.stream[t].at # "waiting"
      BY <1>4
    <2>2. Placed(n, "ready", FALSE)
      BY <1>4, <2>1 DEF Placed
    <2>3. QED
      BY <1>7, <2>2 DEF StreamPlaces, Placed
  <1>15. Tokens'
    <2>1. ASSUME NEW t \in Streams PROVE Token(t, t \in requests', replies, port', n.stream[t])
      <3>1. CASE t = s
        BY <3>1 DEF Token
      <3>2. CASE t # s
        <4>1. n.stream[t].at = c.stream[t].at /\ n.stream[t].resnap = c.stream[t].resnap
          BY <1>4, <3>2
        <4>2. Token(t, t \in requests', replies, port', c.stream[t])
          OBVIOUS
        <4>3. QED
          BY <4>1, <4>2, TokenSame
      <3>3. QED
        BY <3>1, <3>2
    <2>2. QED
      BY <1>7, <1>8, <2>1 DEF Tokens
  <1>16. Shapes'
    <2>1. ASSUME NEW t \in Streams PROVE Shape(n.stream[t], wire'[t])
      <3>1. Len(n.stream[t].q) <= FrameLimit
        BY <1>4 DEF Fits, Bounded
      <3>2. CASE t = s
        <4>1. n.stream[s].at = "live" /\ n.stream[s].busy /\ ~n.stream[s].resnap
          BY <1>4
        <4>2. wire'[s] = w /\ Len(w) <= 1
          BY <1>10, <1>11
        <4> HIDE DEF w
        <4>3. QED
          BY <3>1, <3>2, <4>1, <4>2 DEF Shape
      <3>3. CASE t # s
        <4>1. n.stream[t].at = c.stream[t].at /\ n.stream[t].busy = stream[t].busy
              /\ n.stream[t].resnap = stream[t].resnap
          BY <1>4, <3>3
        <4>2. c.stream[t].at \in {"off", "reading", "closed"}
              /\ (c.stream[t].at = "off" => n.stream[t] = NoStream)
          <5>1. c.stream[t].at = "off" => n.stream[t] = c.stream[t]
            BY <1>4, <3>3 DEF Subscribed
          <5>2. QED
            BY <3>3, <5>1
        <4>3. Len(<< >>) = 0
          OBVIOUS
        <4>4. QED
          BY <1>11, <3>1, <3>3, <4>1, <4>2, <4>3 DEF Shape
      <3>4. QED
        BY <3>2, <3>3
    <2>2. QED
      BY <1>7, <2>1 DEF Shapes
  <1>17. Pipeline'
    <2>1. ASSUME NEW i \in DOMAIN port', port'[i] \in Updates
          PROVE  UpdateFits(entry, cut, port'[i])
      <3>1. PICK j \in DOMAIN port : port'[i] = port[j]
        BY <1>9
      <3>2. QED
        BY <2>1, <3>1 DEF StreamInduct, Pipeline
    <2>2. QED
      BY <1>8, <2>1 DEF StreamInduct, Pipeline
  <1>18. WatchFollows'
    <2>1. entry.last <= n.watch.cut
      <3>1. CASE watch.pending = << >>
        <4>1. entry.last \in Nat /\ entry.last <= d /\ d <= n.watch.cut
          BY <1>1, <1>4, <3>1, PartsOfEntry
        <4>2. QED
          BY <1>7, <4>1
      <3>2. CASE watch.pending # << >>
        BY <1>1, <1>2, <1>4, <3>2 DEF WatchFits
      <3>3. QED
        BY <3>1, <3>2
    <2>2. Before(n, n.rev) <= cut
      <3>1. Before(n, n.rev) \in Nat
        <4>1. Len(n.shown) = n.rev /\ n.rev \in 0 .. n.rev
          BY <1>4, <1>7 DEF Fits, CoreFits
        <4>2. QED
          BY <1>7, <4>1, BeforeIsCut
      <3>2. Before(n, n.rev) <= n.watch.cut /\ n.watch.cut <= cut
        BY <1>4
      <3>3. QED
        BY <1>1, <1>7, <3>1, <3>2
    <2>3. WatchFits(n, cut, entry.last)
      BY <1>4, <2>1, <2>2 DEF WatchFits
    <2>4. QED
      BY <1>7, <1>8, <2>3 DEF WatchFollows
  <1>19. CoreFits(Core)'
    BY <1>4, <1>7 DEF Fits
  <1>20. AnswersFit'
    <2>1. Answers' \cap Watched = {}
      BY <1>8 DEF Answers, NoneOf
    <2>2. ASSUME NEW a \in Answers', a \in Snapshots PROVE a.cut <= cut /\ AnswerFits(n, a)
      <3>1. a \in Answers /\ a.stream \in Streams /\ a.stream # s /\ a.cut \in Nat
        BY <1>9, <2>2 DEF Snapshots
      <3>2. a.cut <= cut
        BY <2>2, <3>1 DEF StreamInduct, AnswersFit
      <3> DEFINE t == a.stream
      <3>3. /\ n.stream[t].at = c.stream[t].at /\ c.stream[t].at \in {"off", "reading", "closed"}
            /\ Subscribed(c, t) /\ ~n.stream[t].resync =>
                 /\ ~c.stream[t].resync /\ Start(n, t) = Start(c, t)
                 /\ \A e \in Nat : n.watch.base <= e => Holds(n, t, e)
        BY <1>4, <3>1
      <3>4. Subscribed(c, t) /\ ~c.stream[t].resync => Before(c, Start(c, t)) <= a.cut
        BY <2>2
      <3> HIDE DEF t
      <3>5. Subscribed(n, t) => n.stream[t].at = "reading" /\ Subscribed(c, t)
        BY <3>3 DEF Subscribed
      <3>6. ASSUME Subscribed(n, t), ~n.stream[t].resync
            PROVE  /\ Before(n, Start(n, t)) <= a.cut
                   /\ Holds(n, t, a.cut) \/ (n.stream[t].at = "reading" /\ a.cut < n.watch.base)
        <4>1. Subscribed(c, t) /\ ~c.stream[t].resync /\ Start(n, t) = Start(c, t)
          BY <3>3, <3>5, <3>6
        <4>2. Start(c, t) \in 0 .. c.rev
          BY <3>1, <4>1, StartIsRevision DEF t
        <4>3. Before(n, Start(n, t)) = Before(c, Start(c, t))
          BY <1>4, <4>1, <4>2
        <4>4. n.watch.base <= a.cut => Holds(n, t, a.cut)
          BY <3>1, <3>3, <4>1, <3>6
        <4>5. n.watch.base <= a.cut \/ a.cut < n.watch.base
          BY <1>4, <3>1
        <4>6. QED
          BY <3>4, <3>5, <3>6, <4>1, <4>3, <4>4, <4>5
      <3>7. AnswerFits(n, a)
        BY <1>4, <3>6 DEF AnswerFits, t
      <3>8. QED
        BY <3>2, <3>7
    <2>3. QED
      BY <1>7, <1>8, <2>1, <2>2 DEF AnswersFit
  <1>21. ClientsFit'
    <2>1. ASSUME NEW t \in Streams PROVE ClientFits(n, t, wire'[t], client[t], behind)
      <3>1. CASE t = s
        <4>1. ~n.stream[s].resync => /\ Start(n, s) = r /\ r \in 0 .. n.rev /\ Before(n, r) <= d
                                     /\ behind \/ Holds(n, s, d)
          <5>1. ASSUME ~n.stream[s].resync
                PROVE  Start(n, s) = r /\ r \in 0 .. n.rev /\ Before(n, r) <= d /\ Holds(n, s, d)
            <6>1. Start(n, s) = r /\ r \in 0 .. c.rev /\ Before(c, r) <= d /\ Holds(n, s, d)
              BY <1>4, <5>1
            <6>2. Before(n, r) = Before(c, r)
              BY <1>4, <6>1
            <6>3. r \in 0 .. n.rev
              BY <1>1, <1>4, <1>7, <6>1
            <6>4. QED
              BY <6>1, <6>2, <6>3
          <5>2. QED
            BY <5>1
        <4>2. n.stream[s].cut = d
          BY <1>4
        <4>3. ClientFits(n, s, w, client[s], behind)
          <5>1. w = <<[snap |-> TRUE, rev |-> r, cut |-> d]>>
            BY <1>6 DEF w
          <5> HIDE DEF w
          <5>2. QED
            BY <4>1, <4>2, <5>1, BegunClient
        <4>4. QED
          BY <1>11, <3>1, <4>3
      <3>2. CASE t # s
        <4>1. n.stream[t].at # "live" /\ wire'[t] = << >>
          BY <1>4, <1>11, <3>2
        <4>2. QED
          BY <4>1, ClientIdle
      <3>3. QED
        BY <3>1, <3>2
    <2>2. NoGap'
      BY <1>8 DEF StreamInduct, ClientsFit, NoGap
    <2>3. QED
      BY <1>7, <1>8, <2>1, <2>2 DEF ClientsFit
  <1>22. QED
    BY <1>12, <1>13, <1>14, <1>15, <1>16, <1>17, <1>18, <1>19, <1>20, <1>21 DEF StreamInduct

\* The Core of ReceiveWatched, written out.
LEMMA CoreOfReaders ==
  ASSUME NEW d, NEW R
  PROVE  [Core EXCEPT !.watch.cut = d,
                      !.stream = [s \in Streams |->
                         IF s \in R THEN [@[s] EXCEPT !.at = "reading"] ELSE @[s]]]
           = ReadingCore(d, R)
  <1> DEFINE m == [s \in Streams |-> IF s \in R THEN [stream[s] EXCEPT !.at = "reading"] ELSE stream[s]]
             w == [watch EXCEPT !.cut = d]
             c == [Core EXCEPT !.watch.cut = d]
  <1>1. c = [rev |-> rev, shown |-> shown, watch |-> w, stream |-> stream]
    BY DEF Core
  <1>2. c.stream = stream
    BY <1>1
  <1>3. [s \in Streams |-> IF s \in R THEN [c.stream[s] EXCEPT !.at = "reading"] ELSE c.stream[s]] = m
    BY <1>2
  <1>4. [c EXCEPT !.stream = m] = [rev |-> rev, shown |-> shown, watch |-> w, stream |-> m]
    <2> HIDE DEF c
    <2>1. QED
      BY <1>1
  <1>5. [Core EXCEPT !.watch.cut = d,
                      !.stream = [s \in Streams |->
                         IF s \in R THEN [@[s] EXCEPT !.at = "reading"] ELSE @[s]]]
         = [c EXCEPT !.stream =
              [s \in Streams |-> IF s \in R THEN [c.stream[s] EXCEPT !.at = "reading"] ELSE c.stream[s]]]
    OBVIOUS
  <1>6. QED
    BY <1>3, <1>4, <1>5 DEF ReadingCore

\* When the watch is answered its subscribers only wait.
LEMMA WatchAnswered ==
  ASSUME StreamInduct, port # << >>, port' = Tail(port), replies' = replies, Head(port) \in Watched
  PROVE  /\ remote = "asked" /\ "watch" \notin requests /\ "unwatch" \notin requests /\ entry.on
         /\ replies \cap Watched = {} /\ NoneOf(Watched, port') /\ NoneOf(Unwatched, port')
         /\ watch.on /\ watch.initializing /\ watch.first \in Streams
         /\ stream[watch.first].at = "waiting"
         /\ Head(port).cut \in Nat /\ Head(port).cut <= cut
         /\ WatchedFits(Core, entry.last, Head(port))
         /\ requests \subseteq {}
         /\ \A t \in Streams :
              /\ stream[t].at \in {"off", "waiting", "closed"}
              /\ stream[t].at = "off" => stream[t] = NoStream
              /\ wire[t] = << >> /\ ~stream[t].busy /\ ~stream[t].resnap
              /\ Token(t, FALSE, replies, port', stream[t])
              /\ stream[t].at = "waiting" =>
                   replies \cap SnapshotOf(t) = {} /\ NoneOf(SnapshotOf(t), port')
         /\ \A a \in Answers' \cap Snapshots :
              a.stream \in Streams /\ a.cut \in Nat /\ a.cut <= cut /\ stream[a.stream].at = "closed"
  <1>1. /\ Core \in Cores /\ Core.watch = watch /\ Core.stream = stream /\ Core.rev = rev
        /\ port \in Seq(Posts) /\ stream \in [Streams -> Subscribers] /\ watch \in Watches
    BY CoreOfState
  <1>2. /\ Head(port) \in Posts /\ NoneOf(Watched, port') /\ Answers' \subseteq Answers
        /\ Head(port) \in Answers /\ ~NoneOf(Watched, port)
        /\ (NoneOf(Unwatched, port) => NoneOf(Unwatched, port'))
    BY PostTaken
  <1>3. /\ remote = "asked" /\ "watch" \notin requests /\ "unwatch" \notin requests /\ entry.on
        /\ replies \cap Watched = {} /\ NoneOf(Unwatched, port)
    BY <1>2 DEF StreamInduct, WatchProtocol, Watching
  <1>4. Placed(Core, "asked", FALSE)
    BY <1>3 DEF StreamInduct, StreamPlaces, Placed
  <1>5. watch.on /\ watch.initializing /\ watch.first \in Streams /\ stream[watch.first].at = "waiting"
    BY <1>1, <1>4 DEF Placed
  <1>6. Head(port).cut \in Nat /\ Head(port).cut <= cut /\ WatchedFits(Core, entry.last, Head(port))
    BY <1>2 DEF StreamInduct, AnswersFit, Watched
  <1>7. ASSUME NEW t \in Streams
        PROVE  /\ stream[t].at \in {"off", "waiting", "closed"}
               /\ stream[t].at = "off" => stream[t] = NoStream
               /\ wire[t] = << >> /\ ~stream[t].busy /\ ~stream[t].resnap
               /\ Token(t, FALSE, replies, port', stream[t]) /\ t \notin requests
               /\ stream[t].at = "waiting" =>
                    replies \cap SnapshotOf(t) = {} /\ NoneOf(SnapshotOf(t), port')
               /\ stream[t].at = "closed" \/ (replies \cap SnapshotOf(t) = {} /\ NoneOf(SnapshotOf(t), port))
    <2>1. stream[t].at \in {"off", "waiting", "closed"}
      <3>1. stream[t].at \in {"off", "waiting", "reading", "live", "closed"}
        BY <1>1, PartsOfSubscriber
      <3>2. stream[t].at \notin {"reading", "live"}
        BY <1>1, <1>4 DEF Placed
      <3>3. QED
        BY <3>1, <3>2
    <2>2. wire[t] = << >> /\ ~stream[t].busy /\ ~stream[t].resnap
          /\ (stream[t].at = "off" => stream[t] = NoStream)
      BY <2>1 DEF StreamInduct, Shapes, Shape
    <2>3. Token(t, t \in requests, replies, port, stream[t])
      BY DEF StreamInduct, Tokens
    <2>4. t \notin requests
      BY <2>1, <2>3 DEF Token
    <2>5. Token(t, FALSE, replies, port, stream[t])
      BY <2>4, <2>3 DEF Token
    <2>6. Token(t, FALSE, replies, port', stream[t])
      BY <1>1, <2>5, TokenTaken
    <2>7. stream[t].at = "closed" \/ (replies \cap SnapshotOf(t) = {} /\ NoneOf(SnapshotOf(t), port))
      BY <2>1, <2>3 DEF Token
    <2>8. stream[t].at = "waiting" =>
            replies \cap SnapshotOf(t) = {} /\ NoneOf(SnapshotOf(t), port')
      BY <2>6 DEF Token
    <2>9. QED
      BY <2>1, <2>2, <2>4, <2>6, <2>7, <2>8
  <1>8. requests \subseteq {}
    BY <1>3, <1>7 DEF StreamInduct, StreamTyped
  <1>9. ASSUME NEW a \in Answers', a \in Snapshots
        PROVE  a.stream \in Streams /\ a.cut \in Nat /\ a.cut <= cut /\ stream[a.stream].at = "closed"
    <2>1. a \in Answers
      BY <1>2, <1>9
    <2>2. a.stream \in Streams
          /\ ~ (replies \cap SnapshotOf(a.stream) = {} /\ NoneOf(SnapshotOf(a.stream), port))
      BY <1>9, <2>1, AnswerOf
    <2>3. a.cut \in Nat /\ a.cut <= cut
      BY <1>9, <2>1 DEF StreamInduct, AnswersFit, Snapshots
    <2>4. QED
      BY <1>7, <2>2, <2>3
  <1>10. QED
    BY <1>2, <1>3, <1>5, <1>6, <1>7, <1>8, <1>9

\* The watch is registered: the subscribers that wait for it ask for their
\* snapshots.
LEMMA ReceiveWatchedKept ==
  ASSUME StreamInduct, ReceiveWatched
  PROVE  StreamInduct'
  <1> DEFINE d == Head(port).cut
             f == watch.first
             begins == ~watch.over
             R == {s \in Streams : stream[s].at = "waiting" /\ ~(begins /\ s = f)}
             c == ReadingCore(d, R)
  <1>1. /\ port # << >> /\ Head(port).kind = "watched" /\ port' = Tail(port)
        /\ remote' = "ready" /\ requests' = requests \cup R
        /\ cut' = cut /\ entry' = entry /\ replies' = replies /\ failures' = failures
        /\ client' = client /\ gap' = gap /\ behind' = behind
    BY DEF ReceiveWatched
  <1>2. /\ Becomes(IF begins THEN Begin(c, f, d) ELSE c)
        /\ wire' = IF begins THEN [wire EXCEPT ![f] = <<SnapshotFrame(c, f, d)>>] ELSE wire
    <2> DEFINE c1 == [Core EXCEPT !.watch.cut = d,
                       !.stream = [s \in Streams |->
                          IF s \in R THEN [@[s] EXCEPT !.at = "reading"] ELSE @[s]]]
    <2>1. c1 = c
      <3> HIDE DEF d, R, f
      <3>2. QED
        BY CoreOfReaders, ZenonT(40)
    <2>2. /\ Becomes(IF begins THEN Begin(c1, f, d) ELSE c1)
          /\ wire' = IF begins THEN [wire EXCEPT ![f] = <<SnapshotFrame(c1, f, d)>>] ELSE wire
      BY DEF ReceiveWatched
    <2> HIDE DEF c, c1, begins, f, d
    <2>3. QED
      BY <2>1, <2>2
  <1>3. Head(port) \in Watched
    <2>1. Head(port) \in Posts
      BY <1>1, PostTaken
    <2>2. QED
      BY <1>1, <2>1, KindsDiffer
  <1>4. /\ remote = "asked" /\ "watch" \notin requests /\ "unwatch" \notin requests /\ entry.on
        /\ replies \cap Watched = {} /\ NoneOf(Watched, port') /\ NoneOf(Unwatched, port')
        /\ watch.on /\ watch.initializing /\ f \in Streams
        /\ stream[f].at = "waiting"
        /\ d \in Nat /\ d <= cut
        /\ WatchedFits(Core, entry.last, Head(port))
        /\ requests \subseteq {}
        /\ \A t \in Streams :
             /\ stream[t].at \in {"off", "waiting", "closed"}
             /\ stream[t].at = "off" => stream[t] = NoStream
             /\ wire[t] = << >> /\ ~stream[t].busy /\ ~stream[t].resnap
             /\ Token(t, FALSE, replies, port', stream[t])
             /\ stream[t].at = "waiting" =>
                  replies \cap SnapshotOf(t) = {} /\ NoneOf(SnapshotOf(t), port')
        /\ \A a \in Answers' \cap Snapshots :
             a.stream \in Streams /\ a.cut \in Nat /\ a.cut <= cut /\ stream[a.stream].at = "closed"
    BY <1>1, <1>3, WatchAnswered
  <1>5. /\ Core \in Cores /\ Core.watch = watch /\ Core.rev = rev /\ Core.shown = shown
        /\ Core.stream = stream /\ Fits(Core) /\ rev \in Nat /\ watch \in Watches
        /\ stream \in [Streams -> Subscribers]
    BY CoreOfState
  <1>6. watch.over \in BOOLEAN
    BY <1>5 DEF Watches
  <1>7. /\ Fits(c) /\ c.rev = rev /\ c.shown = shown
        /\ c.watch.on = watch.on /\ c.watch.initializing = watch.initializing
        /\ c.watch.pending = watch.pending /\ c.watch.over = watch.over
        /\ \A i : Before(c, i) = Before(Core, i)
        /\ \A t \in Streams :
             /\ c.stream[t].q = stream[t].q /\ c.stream[t].resync = stream[t].resync
             /\ c.stream[t].busy = stream[t].busy /\ c.stream[t].resnap = stream[t].resnap
             /\ t \in R => c.stream[t].at = "reading"
             /\ t \notin R => c.stream[t] = stream[t]
    <2>1. R \in SUBSET Streams /\ \A s \in R : stream[s].at = "waiting"
      OBVIOUS
    <2>2. c = ReadingCore(d, R)
      OBVIOUS
    <2>3. d \in Nat
      BY <1>4
    <2> HIDE DEF R, d, c
    <2>4. QED
      BY <2>1, <2>2, <2>3, ReadersFit
  <1>8. \A t : t \in R <=> t \in Streams /\ stream[t].at = "waiting" /\ ~(begins /\ t = f)
    OBVIOUS
  <1> HIDE DEF R, c, d, f, begins
  <1>9. /\ requests' \subseteq Streams /\ "watch" \notin requests' /\ "unwatch" \notin requests'
        /\ \A t \in Streams : t \in requests' <=> t \in R
    BY <1>1, <1>4, <1>8, NamesDiffer
  <1>10. \A t \in Streams : Token(t, t \in requests', replies, port', c.stream[t])
    <2>1. ASSUME NEW t \in Streams PROVE Token(t, t \in requests', replies, port', c.stream[t])
      <3>1. CASE t \in R
        <4>1. c.stream[t].at = "reading" /\ replies \cap SnapshotOf(t) = {} /\ NoneOf(SnapshotOf(t), port')
              /\ Token(t, FALSE, replies, port', stream[t])
          BY <1>4, <1>7, <1>8, <3>1
        <4>2. QED
          BY <4>1 DEF Token
      <3>2. CASE t \notin R
        <4>1. c.stream[t] = stream[t] /\ t \notin requests' /\ Token(t, FALSE, replies, port', stream[t])
          BY <1>4, <1>7, <1>9, <3>2
        <4>2. QED
          BY <4>1 DEF Token
      <3>3. QED
        BY <3>1, <3>2
    <2>2. QED
      BY <2>1
  <1>11. \A a \in Answers' \cap Snapshots : a.stream \in Streams /\ ~Subscribed(c, a.stream) /\ a.stream # f
                                            /\ a.cut <= cut
    <2>1. ASSUME NEW a \in Answers', a \in Snapshots
          PROVE  a.stream \in Streams /\ ~Subscribed(c, a.stream) /\ a.stream # f /\ a.cut <= cut
      <3>1. a.stream \in Streams /\ stream[a.stream].at = "closed" /\ a.cut <= cut
        BY <1>4, <2>1
      <3>2. a.stream \notin R /\ a.stream # f
        BY <1>4, <1>8, <3>1
      <3>3. c.stream[a.stream] = stream[a.stream]
        BY <1>7, <3>1, <3>2
      <3>4. QED
        BY <3>1, <3>2, <3>3 DEF Subscribed
    <2>2. QED
      BY <2>1
  <1>12. CASE begins
    <2>1. R = {t \in Streams : stream[t].at = "waiting"} \ {f}
      BY <1>8, <1>12
    <2>2. c.stream[f] = stream[f] /\ f \notin R
      BY <1>4, <1>7, <2>1
    <2>3. Becomes(Begin(c, f, d)) /\ wire' = [wire EXCEPT ![f] = <<SnapshotFrame(c, f, d)>>]
      BY <1>2, <1>12
    <2> DEFINE g == [snap |-> TRUE, rev |-> Control(c, c.stream[f].q, d), cut |-> d]
    <2>4. SnapshotFrame(c, f, d) = g
      BY DEF SnapshotFrame
    <2>5. g \in Frames
      <3>1. c \in Cores /\ c.stream[f].q \in Seq(Published)
        BY <1>4, <1>7, PartsOfCore, PartsOfSubscriber DEF Fits
      <3>2. Control(c, c.stream[f].q, d) \in Int
        BY <1>4, <3>1, ControlIsRevision
      <3>3. QED
        BY <1>4, <3>2 DEF Frames
    <2>6. /\ wire' \in [Streams -> Seq(Frames)] /\ wire'[f] = <<g>>
          /\ \A t \in Streams \ {f} : wire'[t] = wire[t]
      <3>1. wire \in [Streams -> Seq(Frames)]
        BY DEF StreamInduct, StreamTyped
      <3> DEFINE p == <<g>>
      <3>2. p \in Seq(Frames)
        <4> HIDE DEF g
        <4>1. QED
          BY <2>5
      <3>3. wire' = [wire EXCEPT ![f] = p]
        BY <2>3, <2>4
      <3> HIDE DEF p, g
      <3>4. wire' \in [Streams -> Seq(Frames)] /\ wire'[f] = p
            /\ \A t \in Streams \ {f} : wire'[t] = wire[t]
        BY <1>4, <3>1, <3>2, <3>3, FrameSent
      <3>5. QED
        BY <3>4 DEF p
    <2>7. /\ Before(Core, rev) <= d
          /\ watch.pending = << >> => entry.last <= d
          /\ watch.pending # << >> /\ ~watch.over => watch.pending[1].snap \/ watch.pending[1].cut <= d + 1
      <3>1. /\ Before(Core, rev) <= d
            /\ watch.pending = << >> => entry.last = d
            /\ watch.pending # << >> /\ ~watch.over => watch.pending[1].snap \/ watch.pending[1].cut = d + 1
        BY <1>4, <1>5 DEF WatchedFits, d
      <3>2. QED
        BY <1>4, <3>1
    <2>8. ~c.stream[f].resync => Before(c, Start(c, f)) <= d
      <3>1. ASSUME ~c.stream[f].resync PROVE Before(c, Start(c, f)) <= d
        <4>1. Subscribed(c, f)
          BY <1>4, <2>2 DEF Subscribed
        <4>2. Start(c, f) \in 0 .. c.rev
          BY <1>4, <1>7, <3>1, <4>1, StartIsRevision
        <4>3. CoreFits(c) /\ c \in Cores /\ c.rev \in 0 .. c.rev
          BY <1>5, <1>7 DEF Fits
        <4>4. Before(c, Start(c, f)) <= Before(c, c.rev) /\ Start(c, f) <= c.rev
          BY <1>5, <1>7, <4>2, <4>3 DEF CoreFits
        <4>5. Before(c, Start(c, f)) \in Nat /\ Before(c, c.rev) \in Nat /\ Before(c, c.rev) <= d
          BY <1>7, <2>7, <4>2, <4>3, BeforeIsCut DEF CoreFits
        <4>6. QED
          BY <1>4, <4>4, <4>5
      <3>2. QED
        BY <3>1
    <2>9. \A t \in Streams \ {f} : /\ c.stream[t].at \in {"off", "reading", "closed"}
                                   /\ c.stream[t].at = "off" => c.stream[t] = NoStream
      <3>1. ASSUME NEW t \in Streams \ {f}
            PROVE  /\ c.stream[t].at \in {"off", "reading", "closed"}
                   /\ c.stream[t].at = "off" => c.stream[t] = NoStream
        <4>1. CASE t \in R
          BY <1>7, <4>1
        <4>2. CASE t \notin R
          <5>1. c.stream[t] = stream[t]
            BY <1>7, <4>2
          <5>2. stream[t].at \in {"off", "closed"}
            BY <1>4, <2>1, <4>2
          <5>3. stream[t].at = "off" => stream[t] = NoStream
            BY <1>4
          <5>4. QED
            BY <5>1, <5>2, <5>3
        <4>3. QED
          BY <4>1, <4>2
      <3>2. QED
        BY <3>1
    <2>10. \A a \in Answers' \cap Snapshots :
             /\ a.stream # f
             /\ Subscribed(c, a.stream) /\ ~c.stream[a.stream].resync =>
                  Before(c, Start(c, a.stream)) <= a.cut
      BY <1>11
    <2>11. f \notin requests' /\ replies \cap SnapshotOf(f) = {} /\ NoneOf(SnapshotOf(f), port')
      BY <1>4, <1>9, <2>2
    <2>12. c.stream[f].at \in {"waiting", "reading"}
      BY <1>4, <2>2
    <2>13. /\ \A t \in Streams : wire[t] = << >> /\ ~stream[t].busy /\ ~stream[t].resnap
           /\ \A t \in Streams : c.stream[t].busy = stream[t].busy
           /\ \A t \in Streams : c.stream[t].resnap = stream[t].resnap
      BY <1>4, <1>7
    <2>14. g = [snap |-> TRUE, rev |-> Control(c, c.stream[f].q, d), cut |-> d]
      OBVIOUS
    <2> HIDE DEF g
    <2>15. UNCHANGED <<cut, entry, replies, failures, client, gap, behind>>
      BY <1>1
    <2>16. /\ port # << >> /\ port' = Tail(port) /\ f \in Streams /\ d \in Nat /\ d <= cut
           /\ watch.on /\ watch.initializing /\ entry.on
           /\ remote' = "ready" /\ replies \cap Watched = {} /\ NoneOf(Watched, port')
           /\ NoneOf(Unwatched, port')
      BY <1>1, <1>4
    <2>17. /\ Fits(c) /\ c.rev = rev /\ c.shown = shown
           /\ c.watch.on = watch.on /\ c.watch.initializing = watch.initializing
           /\ c.watch.pending = watch.pending /\ c.watch.over = watch.over
      BY <1>7
    <2>18. Becomes(Begin(c, f, d))
      BY <2>3
    <2>19. QED
      BY <1>9, <1>10, <2>6, <2>7, <2>8, <2>9, <2>10, <2>11, <2>12, <2>13, <2>14,
         <2>15, <2>16, <2>17, <2>18, WatchBegins, ZenonT(40)
  <1>13. CASE ~begins
    <2>1. Becomes(c) /\ wire' = wire /\ watch.over
      BY <1>2, <1>13 DEF begins
    <2>2. c \in Cores /\ Core' = c /\ stream' = c.stream
      <3>1. c \in Cores
        BY <1>7 DEF Fits
      <3>2. QED
        BY <2>1, <3>1, BecomesCore DEF Becomes
    <2>3. \A t \in Streams : c.stream[t].at \in {"off", "reading", "closed"}
                             /\ (c.stream[t].at = "off" => c.stream[t] = NoStream)
      <3>1. ASSUME NEW t \in Streams
            PROVE  c.stream[t].at \in {"off", "reading", "closed"}
                   /\ (c.stream[t].at = "off" => c.stream[t] = NoStream)
        <4>1. CASE t \in R
          BY <1>7, <4>1
        <4>2. CASE t \notin R
          <5>1. c.stream[t] = stream[t]
            BY <1>7, <4>2
          <5>2. stream[t].at \in {"off", "closed"}
            BY <1>4, <1>8, <1>13, <4>2
          <5>3. stream[t].at = "off" => stream[t] = NoStream
            BY <1>4
          <5>4. QED
            BY <5>1, <5>2, <5>3
        <4>3. QED
          BY <4>1, <4>2
      <3>2. QED
        BY <3>1
    <2>4. /\ port' \in Seq(Posts) /\ Once(Updates, port') /\ Once(Watched, port') /\ Once(Unwatched, port')
          /\ UpdatesFirst(port') /\ (NoneOf(Updates, port) => NoneOf(Updates, port'))
          /\ Answers' \subseteq Answers
          /\ \A i \in DOMAIN port' : \E j \in DOMAIN port : port'[i] = port[j]
      BY <1>1, PostTaken
    <2>5. StreamTyped'
      <3>1. requests' \subseteq {"watch", "unwatch"} \cup Streams
        BY <1>9
      <3>2. QED
        BY <1>1, <2>1, <2>2, <2>4, <3>1 DEF StreamInduct, StreamTyped
    <2>6. WatchProtocol'
      BY <1>1, <1>4, <1>9, <2>4 DEF StreamInduct, WatchProtocol, Watching
    <2>7. StreamPlaces'
      <3>1. watch.pending # << >>
        BY <1>4, <1>5, <2>1 DEF StreamInduct, StreamPlaces, Placed
      <3>2. c.watch.on /\ c.watch.initializing /\ c.watch.over /\ c.watch.pending # << >>
        BY <1>4, <1>7, <2>1, <3>1
      <3>3. Placed(c, "ready", FALSE)
        BY <2>3, <3>2 DEF Placed
      <3>4. QED
        BY <1>1, <1>9, <2>2, <3>3 DEF StreamPlaces, Placed
    <2>8. Tokens'
      BY <1>1, <1>10, <2>2 DEF Tokens
    <2>9. Shapes'
      <3>1. ASSUME NEW t \in Streams PROVE Shape(c.stream[t], wire[t])
        <4>1. Len(c.stream[t].q) <= FrameLimit
          BY <1>7 DEF Fits, Bounded
        <4>2. wire[t] = << >> /\ ~c.stream[t].busy /\ ~c.stream[t].resnap
          BY <1>4, <1>7
        <4>3. Len(<< >>) = 0
          OBVIOUS
        <4>4. QED
          BY <2>3, <4>1, <4>2, <4>3 DEF Shape
      <3>2. QED
        BY <2>1, <2>2, <3>1 DEF Shapes
    <2>10. Pipeline'
      <3>1. ASSUME NEW i \in DOMAIN port', port'[i] \in Updates
            PROVE  UpdateFits(entry, cut, port'[i])
        <4>1. PICK j \in DOMAIN port : port'[i] = port[j]
          BY <2>4
        <4>2. QED
          BY <1>4, <3>1, <4>1 DEF StreamInduct, Pipeline
      <3>2. QED
        BY <1>1, <3>1 DEF StreamInduct, Pipeline
    <2>11. WatchFollows'
      <3>1. WatchFits(Core, cut, entry.last)
        BY DEF StreamInduct, WatchFollows
      <3>2. WatchFits(c, cut, entry.last)
        BY <1>4, <1>5, <1>7, <3>1 DEF WatchFits
      <3>3. QED
        BY <1>1, <2>2, <3>2 DEF WatchFollows
    <2>12. CoreFits(Core)'
      BY <1>7, <2>2 DEF Fits
    <2>13. AnswersFit'
      <3>1. Answers' \cap Watched = {}
        BY <1>1, <1>4 DEF Answers, NoneOf
      <3>2. \A a \in Answers' \cap Snapshots : a.cut <= cut /\ AnswerFits(c, a)
        BY <1>11, AnswerIdle
      <3>3. QED
        BY <1>1, <2>2, <3>1, <3>2 DEF AnswersFit
    <2>14. ClientsFit'
      <3>1. ASSUME NEW t \in Streams PROVE ClientFits(c, t, wire[t], client[t], behind)
        <4>1. c.stream[t].at # "live" /\ wire[t] = << >>
          BY <1>4, <2>3
        <4>2. QED
          BY <4>1, ClientIdle
      <3>2. NoGap'
        BY <1>1 DEF StreamInduct, ClientsFit, NoGap
      <3>3. QED
        BY <1>1, <2>1, <2>2, <3>1, <3>2 DEF ClientsFit
    <2>15. QED
      BY <2>5, <2>6, <2>7, <2>8, <2>9, <2>10, <2>11, <2>12, <2>13, <2>14 DEF StreamInduct
  <1>14. QED
    BY <1>12, <1>13

\* A frame is on its way.
LEMMA WireChanged ==
  ASSUME StreamInduct, NEW s \in Streams, NEW g \in Frames, wire' = [wire EXCEPT ![s] = <<g>>]
  PROVE  /\ wire' \in [Streams -> Seq(Frames)] /\ wire'[s] = <<g>>
         /\ \A t \in Streams \ {s} : wire'[t] = wire[t]
  <1> DEFINE p == <<g>>
  <1>1. wire \in [Streams -> Seq(Frames)]
    BY DEF StreamInduct, StreamTyped
  <1>2. p \in Seq(Frames)
    OBVIOUS
  <1>3. wire' = [wire EXCEPT ![s] = p]
    OBVIOUS
  <1> HIDE DEF p
  <1>4. wire' \in [Streams -> Seq(Frames)] /\ wire'[s] = p
        /\ \A t \in Streams \ {s} : wire'[t] = wire[t]
    BY <1>1, <1>2, <1>3, FrameSent
  <1>5. QED
    BY <1>4 DEF p

\* The first snapshot after an overflow ends the initialisation of the watch.
LEMMA SnapshotBegins ==
  ASSUME StreamInduct, port # << >>, port' = Tail(port), NEW s \in Streams,
         Head(port) \in SnapshotOf(s), stream[s].at = "reading", watch.initializing,
         NEW d, d = Head(port).cut, NEW c, c = Core, Becomes(Begin(c, s, d)),
         NEW g, g = [snap |-> TRUE, rev |-> Control(c, c.stream[s].q, d), cut |-> d],
         wire' \in [Streams -> Seq(Frames)], wire'[s] = <<g>>, \A t \in Streams \ {s} : wire'[t] = wire[t],
         UNCHANGED <<cut, entry, replies, requests, failures, remote, client, gap, behind>>
  PROVE  StreamInduct'
  <1>1. /\ Core \in Cores /\ Core.watch = watch /\ Core.rev = rev /\ Core.shown = shown
        /\ Core.stream = stream /\ Fits(Core) /\ rev \in Nat /\ watch \in Watches /\ cut \in Nat
        /\ stream \in [Streams -> Subscribers] /\ port \in Seq(Posts) /\ entry \in Entries
    BY CoreOfState
  <1>2. /\ cut' = cut /\ entry' = entry /\ replies' = replies /\ failures' = failures
        /\ requests' = requests /\ remote' = remote /\ client' = client /\ gap' = gap /\ behind' = behind
    OBVIOUS
  <1>3. /\ Head(port) \in Answers /\ Answers' \subseteq Answers
        /\ (NoneOf(Watched, port) => NoneOf(Watched, port'))
        /\ (NoneOf(Unwatched, port) => NoneOf(Unwatched, port'))
    BY <1>2, PostTaken
  <1>4. /\ s \notin requests /\ replies \cap SnapshotOf(s) = {} /\ NoneOf(SnapshotOf(s), port')
        /\ Answers' \cap SnapshotOf(s) = {}
    BY <1>2, OnlySnapshot
  <1>5. d \in Nat /\ Head(port).stream = s /\ Head(port) \in Snapshots
    BY DEF SnapshotOf, Snapshots
  <1>6. d <= cut /\ AnswerFits(Core, Head(port))
    BY <1>3, <1>5 DEF StreamInduct, AnswersFit
  <1>7. Placed(Core, remote, "watch" \in requests)
    BY DEF StreamInduct, StreamPlaces
  <1>8. remote = "ready"
    BY <1>1, <1>7 DEF Placed
  <1>9. watch.on /\ watch.over /\ watch.pending # << >>
    BY <1>1, <1>7, <1>8 DEF Placed
  <1>10. /\ entry.on /\ "watch" \notin requests /\ "unwatch" \notin requests
         /\ replies \cap Watched = {} /\ NoneOf(Watched, port) /\ NoneOf(Unwatched, port)
    BY <1>8 DEF StreamInduct, WatchProtocol, Watching
  <1>11. requests' \subseteq Streams
    BY <1>2, <1>10 DEF StreamInduct, StreamTyped
  <1>12. ASSUME NEW t \in Streams
         PROVE  /\ stream[t].at \in {"off", "reading", "closed"}
                /\ stream[t].at = "off" => stream[t] = NoStream
                /\ wire[t] = << >> /\ ~stream[t].busy /\ ~stream[t].resnap
    <2>1. stream[t].at \in {"off", "waiting", "reading", "live", "closed"}
      BY <1>1, PartsOfSubscriber
    <2>2. stream[t].at # "live" /\ stream[t].at # "waiting"
      BY <1>1, <1>7, <1>8 DEF Placed
    <2>3. Shape(stream[t], wire[t])
      BY DEF StreamInduct, Shapes
    <2>4. QED
      BY <2>1, <2>2, <2>3 DEF Shape
  <1>13. Subscribed(Core, s)
    BY <1>1 DEF Subscribed
  <1>14. Before(Core, rev) <= d /\ (~stream[s].resync => Before(Core, Start(Core, s)) <= d)
    BY <1>1, <1>5, <1>6, <1>13 DEF AnswerFits
  <1>15. \A t \in Streams : Token(t, t \in requests', replies, port', stream[t])
    <2>1. ASSUME NEW t \in Streams PROVE Token(t, t \in requests, replies, Tail(port), stream[t])
      <3>1. Token(t, t \in requests, replies, port, stream[t])
        BY DEF StreamInduct, Tokens
      <3>2. QED
        BY <1>1, <3>1, TokenTaken
    <2>2. QED
      BY <1>2, <2>1
  <1>16. \A a \in Answers' \cap Snapshots :
           /\ a.stream # s
           /\ Subscribed(Core, a.stream) /\ ~Core.stream[a.stream].resync =>
                Before(Core, Start(Core, a.stream)) <= a.cut
    <2>1. ASSUME NEW a \in Answers', a \in Snapshots
          PROVE  /\ a.stream # s
                 /\ Subscribed(Core, a.stream) /\ ~Core.stream[a.stream].resync =>
                      Before(Core, Start(Core, a.stream)) <= a.cut
      <3>1. a.stream # s
        BY <1>4, <2>1 DEF Snapshots, SnapshotOf
      <3>2. AnswerFits(Core, a)
        BY <1>3, <2>1 DEF StreamInduct, AnswersFit
      <3>3. QED
        BY <3>1, <3>2 DEF AnswerFits
    <2>2. QED
      BY <2>1
  <1>23. /\ Before(Core, rev) <= d
         /\ watch.pending = << >> => entry.last <= d
         /\ watch.pending # << >> /\ ~watch.over => watch.pending[1].snap \/ watch.pending[1].cut <= d + 1
    BY <1>9, <1>14
  <1>24. /\ Fits(c) /\ c.rev = rev /\ c.shown = shown
         /\ c.watch.on = watch.on /\ c.watch.initializing = watch.initializing
         /\ c.watch.pending = watch.pending /\ c.watch.over = watch.over
         /\ c.stream[s].at \in {"waiting", "reading"}
         /\ ~c.stream[s].resync => Before(c, Start(c, s)) <= d
    BY <1>1, <1>14
  <1>25. /\ \A t \in Streams \ {s} : /\ c.stream[t].at \in {"off", "reading", "closed"}
                                     /\ c.stream[t].at = "off" => c.stream[t] = NoStream
         /\ \A t \in Streams : wire[t] = << >> /\ ~stream[t].busy /\ ~stream[t].resnap
         /\ \A t \in Streams : c.stream[t].busy = stream[t].busy
         /\ \A t \in Streams : c.stream[t].resnap = stream[t].resnap
         /\ \A t \in Streams : Token(t, t \in requests', replies, port', c.stream[t])
    BY <1>1, <1>12, <1>15
  <1>26. /\ remote' = "ready" /\ "watch" \notin requests' /\ "unwatch" \notin requests'
         /\ s \notin requests'
         /\ NoneOf(Watched, port') /\ NoneOf(Unwatched, port') /\ d \in Nat /\ d <= cut
    BY <1>2, <1>3, <1>4, <1>5, <1>6, <1>8, <1>10
  <1>27. \A a \in Answers' \cap Snapshots :
           /\ a.stream # s
           /\ Subscribed(c, a.stream) /\ ~c.stream[a.stream].resync =>
                Before(c, Start(c, a.stream)) <= a.cut
    BY <1>16
  <1>28. UNCHANGED <<cut, entry, replies, failures, client, gap, behind>>
    BY <1>2
  <1>29. QED
    BY <1>28, <1>4, <1>9, <1>10, <1>11, <1>23, <1>24, <1>25, <1>26, <1>27, WatchBegins, ZenonT(90)

\* A snapshot: the subscriber begins with it, or goes on after a
\* resynchronisation.
LEMMA ReceiveSnapshotKept ==
  ASSUME StreamInduct, ReceiveSnapshot
  PROVE  StreamInduct'
  <1> DEFINE d == Head(port).cut
             s == Head(port).stream
             r == Control(Core, stream[s].q, d)
  <1>1. /\ port # << >> /\ Head(port).kind = "snapshot" /\ port' = Tail(port)
        /\ cut' = cut /\ entry' = entry /\ replies' = replies /\ failures' = failures
        /\ remote' = remote /\ client' = client /\ gap' = gap
    BY DEF ReceiveSnapshot
  <1>2. Head(port) \in Snapshots /\ s \in Streams /\ Head(port) \in SnapshotOf(s)
    <2>1. Head(port) \in Posts
      BY <1>1, PostTaken
    <2>2. Head(port) \in Snapshots
      BY <1>1, <2>1, KindsDiffer
    <2>3. QED
      BY <2>2 DEF Snapshots, SnapshotOf
  <1>3. CASE ~Subscribed(Core, s) /\ UNCHANGED <<hostVars, requests, wire, behind>>
    BY <1>1, <1>2, <1>3, SnapshotIgnored DEF clientVars
  <1>4. CASE /\ stream[s].at = "reading"
             /\ Becomes(Begin(Core, s, d))
             /\ wire' = [wire EXCEPT ![s] = <<SnapshotFrame(Core, s, d)>>]
             /\ behind' = (behind \/ (~watch.initializing /\ d < watch.base))
             /\ UNCHANGED requests
    <2>1. UNCHANGED <<cut, entry, replies, requests, failures, remote, client, gap>>
      BY <1>1, <1>4
    <2>2. CASE watch.initializing
      <3>1. behind' = behind
        <4>1. behind \in BOOLEAN
          BY DEF StreamInduct, StreamTyped
        <4>2. behind' = (behind \/ (~watch.initializing /\ d < watch.base))
          BY <1>4
        <4> HIDE DEF d
        <4>3. QED
          BY <2>2, <4>1, <4>2
      <3>2. UNCHANGED <<cut, entry, replies, requests, failures, remote, client, gap, behind>>
        BY <2>1, <3>1
      <3> DEFINE c == Core
                 g == [snap |-> TRUE, rev |-> Control(c, c.stream[s].q, d), cut |-> d]
      <3>3. g \in Frames
        <4>1. stream[s].q \in Seq(Published) /\ d \in Nat /\ Core \in Cores /\ Core.stream = stream
          BY <1>2, CoreOfState, PartsOfSubscriber DEF Snapshots
        <4>2. Control(Core, stream[s].q, d) \in Int
          BY <4>1, ControlIsRevision
        <4>3. QED
          BY <4>1, <4>2 DEF Frames
      <3>4. wire' = [wire EXCEPT ![s] = <<g>>]
        BY <1>4 DEF SnapshotFrame
      <3>5. Becomes(Begin(c, s, d)) /\ stream[s].at = "reading"
            /\ g = [snap |-> TRUE, rev |-> Control(c, c.stream[s].q, d), cut |-> d]
            /\ c = Core /\ d = Head(port).cut
        BY <1>4
      <3> HIDE DEF s, c, g, d
      <3>6. /\ wire' \in [Streams -> Seq(Frames)] /\ wire'[s] = <<g>>
            /\ \A t \in Streams \ {s} : wire'[t] = wire[t]
        BY <1>2, <3>3, <3>4, WireChanged
      <3>7. QED
        BY <1>1, <1>2, <2>2, <3>2, <3>5, <3>6, SnapshotBegins
    <2>3. CASE ~watch.initializing
      <3>1. behind' = (behind \/ Head(port).cut < watch.base)
        <4>1. behind' = (behind \/ (~watch.initializing /\ d < watch.base))
          BY <1>4
        <4>2. (behind \/ (~watch.initializing /\ d < watch.base)) = (behind \/ d < watch.base)
          BY <2>3, Zenon
        <4>3. QED
          BY <4>1, <4>2
      <3>2. Becomes(Begin(Core, s, Head(port).cut))
            /\ wire' = [wire EXCEPT ![s] = <<SnapshotFrame(Core, s, Head(port).cut)>>]
            /\ stream[s].at = "reading"
        BY <1>4
      <3> HIDE DEF s
      <3>3. QED
        BY <1>1, <1>2, <2>1, <2>3, <3>1, <3>2, SnapshotJoins
    <2>4. QED
      BY <2>2, <2>3
  <1>5. CASE /\ stream[s].at = "live" /\ stream[s].resync
             /\ stream' = [stream EXCEPT ![s].resync = FALSE, ![s].q = << >>]
             /\ requests' = requests \cup {s}
             /\ UNCHANGED <<rev, shown, watch, wire, behind>>
    <2>1. UNCHANGED <<cut, entry, replies, failures, remote, rev, shown, watch, clientVars>>
      BY <1>1, <1>5 DEF clientVars
    <2> HIDE DEF s
    <2>2. QED
      BY <1>1, <1>2, <1>5, <2>1, SnapshotAgain
  <1>6. CASE /\ stream[s].at = "live" /\ ~stream[s].resync
             /\ stream' = [stream EXCEPT ![s].resnap = FALSE, ![s].cut = d,
                                         ![s].q = Later(@, r)]
             /\ wire' = [wire EXCEPT ![s] = <<SnapshotFrame(Core, s, d)>>]
             /\ UNCHANGED <<rev, shown, watch, requests, behind>>
    <2>1. UNCHANGED <<cut, entry, replies, requests, failures, remote, rev, shown, watch, client, gap,
                      behind>>
      BY <1>1, <1>6
    <2>2. stream' = [stream EXCEPT ![s].resnap = FALSE, ![s].cut = Head(port).cut,
                       ![s].q = Later(@, Control(Core, stream[s].q, Head(port).cut))]
      BY <1>6
    <2>3. wire' = [wire EXCEPT ![s] = <<SnapshotFrame(Core, s, Head(port).cut)>>]
      BY <1>6
    <2> HIDE DEF s
    <2>4. QED
      BY <1>1, <1>2, <1>6, <2>1, <2>2, <2>3, SnapshotGoesOn, ZenonT(40)
  <1>7. QED
    BY <1>3, <1>4, <1>5, <1>6 DEF ReceiveSnapshot

\* The frame a subscriber hands on next.
LEMMA HeadFollows ==
  ASSUME NEW c, Fits(c), NEW s \in Streams, Subscribed(c, s), ~c.stream[s].resync,
         NEW q, q = c.stream[s].q, q # << >>
  PROVE  /\ Head(q) \in Published /\ Head(q) = q[1] /\ 1 \in DOMAIN q
         /\ Head(q).rev = Start(c, s) + 1 /\ Head(q).rev \in 1 .. c.rev
         /\ Head(q).cut = 0 => Before(c, Head(q).rev) = Before(c, Start(c, s))
         /\ Head(q).cut # 0 => Before(c, Head(q).rev) = Head(q).cut
         /\ Tail(q) \in Seq(Published) /\ Len(Tail(q)) = Len(q) - 1 /\ Len(q) \in Nat \ {0}
         /\ FramesFollow(c, Tail(q))
         /\ \A i \in DOMAIN q : i = 1 \/ (i - 1 \in DOMAIN Tail(q) /\ Tail(q)[i - 1] = q[i])
  <1>1. c \in Cores /\ q \in Seq(Published) /\ c.rev \in Nat /\ FramesFollow(c, q)
    BY QueueFollows, PartsOfCore, PartsOfSubscriber DEF Fits
  <1> DEFINE p == Tail(q)
  <1>2. /\ p \in Seq(Published) /\ Len(p) = Len(q) - 1 /\ Len(q) \in Nat \ {0}
        /\ DOMAIN q = 1 .. Len(q) /\ DOMAIN p = 1 .. Len(q) - 1
        /\ Head(q) = q[1] /\ Head(q) \in Published /\ 1 \in DOMAIN q
        /\ \A i \in DOMAIN p : p[i] = q[i + 1] /\ i + 1 \in DOMAIN q
        /\ \A i \in DOMAIN q : i = 1 \/ (i - 1 \in DOMAIN p /\ p[i - 1] = q[i])
    BY <1>1, Shortened, SMTT(40)
  <1> DEFINE f == Head(q)
  <1>3. f.rev = c.rev - Len(q) + 1 /\ Len(q) <= c.rev /\ f.cut \in Nat
    BY <1>1, <1>2 DEF FramesFollow, Published
  <1>4. Start(c, s) = c.rev - Len(q)
    BY DEF Start
  <1> HIDE DEF p, f
  <1>5. f.rev = Start(c, s) + 1 /\ f.rev \in 1 .. c.rev /\ f.rev - 1 = Start(c, s)
    BY <1>1, <1>2, <1>3, <1>4
  <1>6. /\ f.cut = 0 => c.shown[f.rev] = Before(c, f.rev - 1)
        /\ f.cut # 0 => c.shown[f.rev] = f.cut
    BY <1>1, <1>2, SMTT(40) DEF FramesFollow, f
  <1>7. Before(c, f.rev) = c.shown[f.rev]
    BY <1>5 DEF Before
  <1>8. FramesFollow(c, p)
    <2>1. 1 \in 0 .. Len(q) /\ Len(p) = Len(q) - 1
      BY <1>2
    <2>2. \A i \in 1 .. Len(p) : p[i] = q[i + 1]
      BY <1>2
    <2>3. QED
      BY <1>1, <1>2, <2>1, <2>2, EndFollows
  <1>9. QED
    BY <1>2, <1>5, <1>6, <1>7, <1>8, ZenonT(40) DEF p, f

\* A queue that has every delta behind e begins, if with a newer one, with the next one.
LEMMA HeadIsNext ==
  ASSUME NEW c, Fits(c), NEW s \in Streams, Subscribed(c, s), ~c.stream[s].resync,
         NEW q, q = c.stream[s].q, q # << >>, NEW e \in Nat, Holds(c, s, e),
         Before(c, c.rev) <= c.watch.cut, c.watch.cut \in Nat, e < Head(q).cut
  PROVE  Head(q).cut = e + 1
  <1> DEFINE f == Head(q)
  <1>1. /\ f \in Published /\ f = q[1] /\ f.rev = Start(c, s) + 1 /\ f.rev \in 1 .. c.rev
        /\ (f.cut # 0 => Before(c, f.rev) = f.cut)
    BY HeadFollows
  <1>2. c \in Cores /\ q \in Seq(Published) /\ c.rev \in Nat /\ FramesFollow(c, q) /\ CoreFits(c)
    BY QueueFollows, PartsOfCore, PartsOfSubscriber DEF Fits
  <1>3. f.cut \in Nat /\ e < f.cut
    BY <1>1 DEF Published
  <1> HIDE DEF f
  <1>4. f.cut # 0 /\ Before(c, f.rev) = f.cut
    BY <1>1, <1>3
  <1>5. f.cut <= c.watch.cut
    <2>1. Before(c, f.rev) <= Before(c, c.rev)
      BY <1>1, <1>2 DEF CoreFits
    <2>2. Before(c, c.rev) \in Nat
      BY <1>2, BeforeIsCut DEF CoreFits
    <2>3. QED
      BY <1>3, <1>4, <2>1, <2>2
  <1>6. e + 1 \in e + 1 .. c.watch.cut
    BY <1>3, <1>5
  <1>7. PICK i \in DOMAIN q : q[i].cut = e + 1
    BY <1>6 DEF Holds
  <1>8. CASE i = 1
    BY <1>1, <1>7, <1>8
  <1>9. CASE i # 1
    <2>1. Len(q) \in Nat /\ i \in 1 .. Len(q) /\ Len(q) <= c.rev
      BY <1>2, <1>7, SMTT(40) DEF FramesFollow
    <2>2. q[i].rev = c.rev - Len(q) + i /\ (q[i].cut # 0 => Before(c, q[i].rev - 1) < q[i].cut)
      BY <1>2, <1>7 DEF FramesFollow
    <2>3. Start(c, s) = c.rev - Len(q)
      BY DEF Start
    <2> DEFINE j == q[i].rev - 1
    <2>4. q[i].cut = e + 1 /\ q[i].cut # 0 /\ Before(c, j) < e + 1
      BY <1>7, <2>2
    <2>5. j \in 0 .. c.rev /\ f.rev <= j
      <3> DEFINE l == Len(q)
      <3>1. q[i].rev = c.rev - l + i /\ f.rev = c.rev - l + 1
        <4>1. q[i].rev = c.rev - l + i
          BY <2>2
        <4>2. f.rev = Start(c, s) + 1
          BY <1>1
        <4> HIDE DEF l
        <4>3. Start(c, s) = c.rev - l
          BY <2>3 DEF l
        <4>4. QED
          BY <4>1, <4>2, <4>3
      <3>2. l \in Nat /\ i \in 1 .. l /\ l <= c.rev /\ c.rev \in Nat /\ i # 1
        BY <1>2, <1>9, <2>1
      <3> HIDE DEF l
      <3>3. j = c.rev - l + i - 1
        BY <3>1, <3>2
      <3> HIDE DEF j
      <3>4. QED
        BY <3>1, <3>2, <3>3, SMTT(40)
    <2> HIDE DEF j
    <2>6. Before(c, f.rev) <= Before(c, j)
      BY <1>1, <1>2, <2>5 DEF CoreFits
    <2>7. Before(c, j) \in Nat
      BY <1>2, <2>5, BeforeIsCut DEF CoreFits
    <2>8. QED
      BY <1>3, <1>4, <2>4, <2>6, <2>7, SMTT(40)
  <1>10. QED
    BY <1>8, <1>9 DEF f

\* The client of a stream that hands on its next frame.
LEMMA ClientGoesOn ==
  ASSUME NEW c, Fits(c), NEW s \in Streams, c.stream[s].at = "live", ~c.stream[s].resync,
         ~c.stream[s].resnap,
         NEW q, q = c.stream[s].q, q # << >>, Before(c, c.rev) <= c.watch.cut, c.watch.cut \in Nat,
         NEW st \in States, NEW late \in BOOLEAN, ClientFits(c, s, << >>, st, late),
         NEW n, n.rev = c.rev, n.shown = c.shown, n.watch = c.watch,
         n.stream[s].q = Tail(q),
         n.stream[s].cut = IF Head(q).cut > c.stream[s].cut THEN Head(q).cut ELSE c.stream[s].cut,
         NEW g, g = Deliver(c.stream[s], Head(q))
  PROVE  ClientFits(n, s, <<g>>, st, late)
  <1> DEFINE f == Head(q)
             k == c.stream[s].cut
             l == n.stream[s].cut
             a == Start(c, s)
             w == <<g>>
  <1>1. Subscribed(c, s)
    BY SMTT(40) DEF Subscribed
  <1>2. /\ f \in Published /\ f.rev = a + 1 /\ f.rev \in 1 .. c.rev
        /\ (f.cut = 0 => Before(c, f.rev) = Before(c, a))
        /\ (f.cut # 0 => Before(c, f.rev) = f.cut)
        /\ Len(Tail(q)) = Len(q) - 1 /\ Len(q) \in Nat \ {0}
        /\ \A i \in DOMAIN q : i = 1 \/ (i - 1 \in DOMAIN Tail(q) /\ Tail(q)[i - 1] = q[i])
        /\ Head(q) = q[1]
    BY <1>1, HeadFollows, SMTT(40)
  <1>3. /\ c \in Cores /\ c.rev \in Nat /\ c.stream[s] \in Subscribers /\ k \in Nat /\ Len(c.shown) = c.rev
        /\ f.cut \in Nat /\ f.rev \in Int
    BY <1>2, PartsOfCore, PartsOfSubscriber DEF Fits, CoreFits, Published
  <1>4. ~g.snap /\ g.rev = f.rev /\ g.cut = (IF f.cut <= k THEN 0 ELSE f.cut)
    BY DEF Deliver
  <1>5. /\ \A i : Before(n, i) = Before(c, i)
        /\ Start(n, s) = a + 1
    <2>1. Start(n, s) = c.rev - Len(Tail(q)) /\ a = c.rev - Len(q)
      BY SMTT(40) DEF Start
    <2>2. Start(n, s) = a + 1
      <3> HIDE DEF a
      <3>1. QED
        BY <1>2, <1>3, <2>1
    <2>3. QED
      BY <2>2 DEF Before
  <1>6. w # << >> /\ Head(w) = g
    OBVIOUS
  <1>7. /\ GoodState(c, [rev |-> a, cut |-> k])
        /\ st = [rev |-> a, cut |-> k] \/ (late /\ GoodState(c, st) /\ st.rev < a)
        /\ late \/ Holds(c, s, k)
        /\ GoodState(c, st)
    BY DEF ClientFits, Following, After, Reached
  <1>8. l = (IF f.cut > k THEN f.cut ELSE k)
    OBVIOUS
  <1>9. ~late => f.cut <= k \/ f.cut = k + 1
    <2>1. ASSUME ~late, ~(f.cut <= k) PROVE f.cut = k + 1
      <3>1. Holds(c, s, k) /\ k < f.cut
        BY <1>3, <1>7, <2>1, SMTT(40)
      <3>2. QED
        BY <1>1, <1>3, <3>1, HeadIsNext
    <2>2. QED
      BY <2>1
  <1>10. late \/ Holds(n, s, l)
    <2>1. ASSUME ~late, NEW x \in l + 1 .. c.watch.cut
          PROVE  \E i \in DOMAIN Tail(q) : Tail(q)[i].cut = x
      <3>1. x \in k + 1 .. c.watch.cut /\ x # f.cut
        BY <1>3, <1>8, <2>1, SMTT(40)
      <3>2. PICK i \in DOMAIN q : q[i].cut = x
        BY <1>7, <2>1, <3>1 DEF Holds
      <3>3. i # 1
        BY <1>2, <3>1, <3>2
      <3>4. QED
        BY <1>2, <3>2, <3>3
    <2>2. QED
      BY <2>1, SMTT(40) DEF Holds
  <1> HIDE DEF f, k, l, a, w
  <1>11. a \in 0 .. c.rev /\ a + 1 \in 0 .. c.rev /\ Before(c, a) \in Nat /\ Before(c, a) <= k
    <2>1. a \in 0 .. c.rev /\ Before(c, a) <= k
      BY <1>7 DEF GoodState
    <2>2. Before(c, a) \in Nat
      BY <1>3, <2>1, BeforeIsCut
    <2>3. a + 1 \in 0 .. c.rev
      BY <1>2, <1>3, <2>1
    <2>4. QED
      BY <2>1, <2>2, <2>3
  <1>12. Before(c, f.rev) <= l /\ l \in Nat
    BY <1>2, <1>3, <1>8, <1>11
  <1>13. GoodState(n, [rev |-> a + 1, cut |-> l])
    BY <1>2, <1>5, <1>11, <1>12 DEF GoodState
  <1>14. GoodState(n, st) /\ (st.rev < a => st.rev < a + 1)
    BY <1>5, <1>7, <1>11 DEF GoodState
  <1>15. st = [rev |-> a, cut |-> k] => IF Follows(st, g) THEN Reduce(st, g) = [rev |-> a + 1, cut |-> l]
                                        ELSE late
    <2>1. ASSUME st = [rev |-> a, cut |-> k]
          PROVE  IF Follows(st, g) THEN Reduce(st, g) = [rev |-> a + 1, cut |-> l] ELSE late
      <3>1. st.rev = a /\ st.cut = k
        BY <2>1
      <3>2. g.rev - 1 = st.rev
        BY <1>2, <1>4, <1>11, <3>1
      <3>3. CASE f.cut <= k
        <4>1. g.cut = 0 /\ l = k
          BY <1>3, <1>4, <1>8, <3>3
        <4>2. Follows(st, g)
          BY <3>2, <4>1, SMTT(40) DEF Follows
        <4>3. Reduce(st, g) = [rev |-> a + 1, cut |-> l]
          BY <1>2, <1>4, <3>1, <4>1 DEF Reduce
        <4>4. QED
          BY <4>2, <4>3
      <3>4. CASE ~(f.cut <= k)
        <4>1. g.cut = f.cut /\ l = f.cut /\ f.cut # 0
          BY <1>3, <1>4, <1>8, <3>4, SMTT(40)
        <4>2. Reduce(st, g) = [rev |-> a + 1, cut |-> l]
          BY <1>2, <1>4, <4>1 DEF Reduce
        <4>3. ~late => Follows(st, g)
          BY <1>9, <3>1, <3>2, <3>4, <4>1 DEF Follows
        <4>4. QED
          BY <4>2, <4>3
      <3>5. QED
        BY <3>3, <3>4
    <2>2. QED
      BY <2>1
  <1>16. ~late => Follows(st, g)
    BY <1>7, <1>15
  <1>17. After(w, st) = IF Follows(st, g) THEN Reduce(st, g) ELSE st
    BY <1>4, <1>6 DEF After, Taken
  <1>18. ~Follows(st, g) => late /\ st.rev < a + 1
    <2>1. CASE st = [rev |-> a, cut |-> k]
      BY <1>11, <1>15, <2>1
    <2>2. CASE st # [rev |-> a, cut |-> k]
      BY <1>7, <1>14, <2>2
    <2>3. QED
      BY <2>1, <2>2
  <1>19. Follows(st, g) => st = [rev |-> a, cut |-> k]
    <2>1. ASSUME Follows(st, g) PROVE ~(st.rev < a)
      <3>1. g.rev = a + 1 /\ g.rev - 1 = st.rev
        BY <1>2, <1>4, <2>1 DEF Follows
      <3>2. QED
        BY <1>11, <3>1, SMTT(40)
    <2>2. QED
      BY <1>7, <2>1
  <1>20. After(w, st) = [rev |-> a + 1, cut |-> l]
           \/ (late /\ GoodState(n, After(w, st)) /\ After(w, st).rev < a + 1)
    BY <1>14, <1>15, <1>17, <1>18, <1>19
  <1>21. Reached(n, s) = [rev |-> a + 1, cut |-> l]
    BY <1>5, SMTT(40) DEF Reached, l
  <1>22. Following(n, s, After(w, st), late)
    BY <1>5, <1>10, <1>13, <1>20, <1>21 DEF Following, l
  <1>23. ClientFits(n, s, w, st, late)
    BY <1>4, <1>6, <1>14, <1>16, <1>22 DEF ClientFits
  <1>24. QED
    BY <1>23 DEF w

\* A stream changes.
LEMMA StreamChanged ==
  ASSUME NEW g \in [Streams -> Subscribers], NEW s \in Streams, NEW st \in Subscribers,
         NEW h, h = [g EXCEPT ![s] = st]
  PROVE  h \in [Streams -> Subscribers] /\ h[s] = st /\ \A t \in Streams \ {s} : h[t] = g[t]
  OBVIOUS

\* A live stream without a frame on its way waits for nothing.
LEMMA NothingUnderWay ==
  ASSUME StreamInduct, NEW s \in Streams, stream[s].at = "live", ~stream[s].busy
  PROVE  /\ ~stream[s].resnap /\ wire[s] = << >> /\ s \notin requests /\ replies \cap SnapshotOf(s) = {}
         /\ NoneOf(SnapshotOf(s), port) /\ Answers \cap SnapshotOf(s) = {}
         /\ ~watch.initializing /\ remote = "ready" /\ watch.on
         /\ Token(s, FALSE, replies, port, stream[s]) /\ Len(stream[s].q) <= FrameLimit
  <1>1. Core.stream = stream /\ Core.watch = watch
    BY CoreOfState
  <1>2. ~stream[s].resnap /\ wire[s] = << >> /\ Len(stream[s].q) <= FrameLimit
    BY DEF StreamInduct, Shapes, Shape
  <1>3. Token(s, s \in requests, replies, port, stream[s])
    BY DEF StreamInduct, Tokens
  <1>4. s \notin requests /\ replies \cap SnapshotOf(s) = {} /\ NoneOf(SnapshotOf(s), port)
    BY <1>2, <1>3 DEF Token
  <1>5. Answers \cap SnapshotOf(s) = {}
    BY <1>4 DEF Answers, NoneOf
  <1>6. ~watch.initializing /\ remote = "ready" /\ watch.on
    BY <1>1 DEF StreamInduct, StreamPlaces, Placed
  <1>7. QED
    BY <1>2, <1>3, <1>4, <1>5, <1>6 DEF Token

\* The pump asks for a new snapshot.
LEMMA PumpAsks ==
  ASSUME StreamInduct, NEW s \in Streams, stream[s].at = "live", ~stream[s].busy, stream[s].resync,
         stream' = [stream EXCEPT ![s].busy = TRUE, ![s].resnap = TRUE, ![s].resync = FALSE,
                                  ![s].q = << >>],
         requests' = requests \cup {s},
         UNCHANGED <<wire, cut, entry, replies, failures, port, remote, rev, shown, watch, client, gap, behind>>
  PROVE  StreamInduct'
  <1>1. /\ Core \in Cores /\ Core.watch = watch /\ Core.rev = rev /\ Core.shown = shown
        /\ Core.stream = stream /\ Fits(Core)
        /\ stream \in [Streams -> Subscribers]
        /\ cut' = cut /\ remote' = remote /\ replies' = replies /\ entry' = entry /\ port' = port
        /\ failures' = failures /\ rev' = rev /\ shown' = shown /\ watch' = watch
        /\ wire' = wire /\ client' = client /\ gap' = gap /\ behind' = behind
    BY CoreOfState
  <1>2. /\ ~stream[s].resnap /\ wire[s] = << >> /\ s \notin requests /\ replies \cap SnapshotOf(s) = {}
        /\ NoneOf(SnapshotOf(s), port) /\ Answers \cap SnapshotOf(s) = {}
        /\ ~watch.initializing /\ Token(s, FALSE, replies, port, stream[s])
    BY NothingUnderWay
  <1>3. /\ stream' \in [Streams -> Subscribers] /\ \A t \in Streams \ {s} : stream'[t] = stream[t]
        /\ stream'[s].at = "live" /\ ~stream'[s].resync /\ stream'[s].q = << >>
        /\ stream'[s].busy /\ stream'[s].resnap
    <2>1. << >> \in Seq(Published)
      OBVIOUS
    <2> DEFINE st == [stream[s] EXCEPT !.busy = TRUE, !.resnap = TRUE, !.resync = FALSE, !.q = << >>]
    <2>2. st \in Subscribers /\ st.at = "live" /\ ~st.resync /\ st.q = << >> /\ st.busy /\ st.resnap
      BY <1>1, <2>1 DEF Subscribers
    <2>3. stream' = [stream EXCEPT ![s] = st]
      OBVIOUS
    <2> HIDE DEF st
    <2>4. stream \in [Streams -> Subscribers]
      BY <1>1
    <2>5. stream' \in [Streams -> Subscribers] /\ stream'[s] = st
          /\ \A t \in Streams \ {s} : stream'[t] = stream[t]
      BY <2>2, <2>3, <2>4, StreamChanged, ZenonT(90)
    <2>6. QED
      BY <2>2, <2>5
  <1>4. Answers' = Answers
    BY <1>1 DEF Answers
  <1>5. Token(s, s \in requests', replies, port', stream'[s])
    BY <1>1, <1>2, <1>3 DEF Token
  <1>6. Shape(stream'[s], wire[s])
    <2>1. Len(<< >>) = 0 /\ FrameLimit \in Nat
      BY StreamAssumption
    <2>2. QED
      BY <1>2, <1>3, <2>1 DEF Shape
  <1> DEFINE n == [rev |-> rev, shown |-> shown, watch |-> watch, stream |-> stream']
  <1>7. n.stream = stream'
    OBVIOUS
  <1>8. n = [rev |-> rev, shown |-> shown, watch |-> watch, stream |-> stream']
    OBVIOUS
  <1> HIDE DEF n
  <1>9. FramesFollow(Core, stream'[s].q)
    BY <1>1, <1>3, EmptyFollows
  <1>10. ClientFits(n, s, wire[s], client[s], behind)
    BY <1>2, <1>3, <1>7 DEF ClientFits
  <1>11. /\ NoGap' /\ behind' \in BOOLEAN /\ gap' \subseteq Streams
         /\ client \in [Streams -> States] /\ wire \in [Streams -> Seq(Frames)]
    BY <1>1 DEF StreamInduct, StreamTyped, ClientsFit, NoGap
  <1>12. /\ stream[s].at \in {"reading", "live"}
         /\ client' \in [Streams -> States] /\ \A t \in Streams \ {s} : client'[t] = client[t]
         /\ port' = port \/ (port # << >> /\ port' = Tail(port))
         /\ behind => behind'
         /\ wire' \in [Streams -> Seq(Frames)] /\ \A t \in Streams \ {s} : wire'[t] = wire[t]
         /\ requests' = requests \/ requests' = requests \cup {s}
         /\ Shape(stream'[s], wire'[s]) /\ ClientFits(n, s, wire'[s], client'[s], behind')
    BY <1>1, <1>6, <1>10, <1>11
  <1>13. \A a \in Answers' \cap SnapshotOf(s) : AnswerFits(n, a)
    BY <1>2, <1>4
  <1>14. UNCHANGED <<cut, entry, replies, failures, remote, rev, shown, watch>>
    BY <1>1
  <1>15. ~stream'[s].resync => FramesFollow(Core, stream'[s].q)
    BY <1>9
  <1>16. QED
    BY <1>2, <1>3, <1>5, <1>8, <1>11, <1>12, <1>13, <1>14, <1>15, OneStreamChanges

\* The pump hands the next frame on.
LEMMA PumpSends ==
  ASSUME StreamInduct, NEW s \in Streams, stream[s].at = "live", ~stream[s].busy, ~stream[s].resync,
         stream[s].q # << >>,
         NEW q, q = stream[s].q, NEW k, k = IF Head(q).cut > stream[s].cut THEN Head(q).cut ELSE stream[s].cut,
         stream' = [stream EXCEPT ![s].busy = TRUE, ![s].q = Tail(q), ![s].cut = k],
         NEW g, g = Deliver(stream[s], Head(q)), wire' = [wire EXCEPT ![s] = <<g>>],
         UNCHANGED <<requests, cut, entry, replies, failures, port, remote, rev, shown, watch, client, gap, behind>>
  PROVE  StreamInduct'
  <1>1. /\ Core \in Cores /\ Core.watch = watch /\ Core.rev = rev /\ Core.shown = shown
        /\ Core.stream = stream /\ Fits(Core) /\ watch \in Watches
        /\ stream \in [Streams -> Subscribers]
        /\ cut' = cut /\ remote' = remote /\ replies' = replies /\ entry' = entry /\ port' = port
        /\ failures' = failures /\ rev' = rev /\ shown' = shown /\ watch' = watch
        /\ requests' = requests /\ client' = client /\ gap' = gap /\ behind' = behind
    BY CoreOfState
  <1>2. /\ ~stream[s].resnap /\ wire[s] = << >> /\ s \notin requests /\ Answers \cap SnapshotOf(s) = {}
        /\ ~watch.initializing /\ watch.on /\ Token(s, FALSE, replies, port, stream[s])
        /\ Len(q) <= FrameLimit
    BY NothingUnderWay
  <1>3. Subscribed(Core, s)
    BY <1>1 DEF Subscribed
  <1>4. /\ Head(q) \in Published /\ Tail(q) \in Seq(Published) /\ Len(Tail(q)) = Len(q) - 1
        /\ Len(q) \in Nat \ {0} /\ FramesFollow(Core, Tail(q))
    BY <1>1, <1>3, HeadFollows
  <1>5. stream[s] \in Subscribers /\ stream[s].cut \in Nat /\ Head(q).cut \in Nat /\ Head(q).rev \in Nat
    BY <1>1, <1>4, PartsOfSubscriber DEF Published
  <1>6. k \in Nat
    BY <1>5
  <1> DEFINE e == Tail(q)
  <1>7. e \in Seq(Published)
    BY <1>4
  <1>8. stream' = [stream EXCEPT ![s].busy = TRUE, ![s].q = e, ![s].cut = k]
    OBVIOUS
  <1>9. e = Tail(q)
    OBVIOUS
  <1> HIDE DEF e
  <1>10. /\ stream' \in [Streams -> Subscribers] /\ \A t \in Streams \ {s} : stream'[t] = stream[t]
         /\ stream'[s].at = "live" /\ ~stream'[s].resync /\ stream'[s].q = e /\ stream'[s].cut = k
         /\ stream'[s].busy /\ ~stream'[s].resnap
    <2> DEFINE st == [stream[s] EXCEPT !.busy = TRUE, !.q = e, !.cut = k]
    <2>1. st \in Subscribers /\ st.at = "live" /\ ~st.resync /\ st.q = e /\ st.busy /\ ~st.resnap /\ st.cut = k
      BY <1>2, <1>5, <1>6, <1>7 DEF Subscribers
    <2>2. stream' = [stream EXCEPT ![s] = st]
      BY <1>8
    <2> HIDE DEF st
    <2>3. stream \in [Streams -> Subscribers]
      BY <1>1
    <2>4. stream' \in [Streams -> Subscribers] /\ stream'[s] = st
          /\ \A t \in Streams \ {s} : stream'[t] = stream[t]
      BY <2>1, <2>2, <2>3, ZenonT(40)
    <2>5. QED
      BY <2>1, <2>4
  <1>11. g \in Frames
    BY <1>5 DEF Deliver, Frames
  <1>12. /\ wire' \in [Streams -> Seq(Frames)] /\ wire'[s] = <<g>>
         /\ \A t \in Streams \ {s} : wire'[t] = wire[t]
    BY <1>11, WireChanged
  <1>13. Answers' = Answers
    BY <1>1 DEF Answers
  <1>14. Token(s, s \in requests', replies, port', stream'[s])
    BY <1>1, <1>2, <1>10 DEF Token
  <1>15. Shape(stream'[s], wire'[s])
    <2>1. FrameLimit \in Nat
      BY StreamAssumption
    <2>2. Len(e) <= FrameLimit
      BY <1>2, <1>4, <1>9, <2>1
    <2>3. Len(<<g>>) = 1
      OBVIOUS
    <2>4. QED
      BY <1>10, <1>12, <2>2, <2>3 DEF Shape
  <1> DEFINE n == [rev |-> rev, shown |-> shown, watch |-> watch, stream |-> stream']
  <1>16. n.rev = rev /\ n.shown = shown /\ n.watch = watch /\ n.stream = stream'
    OBVIOUS
  <1>17. n = [rev |-> rev, shown |-> shown, watch |-> watch, stream |-> stream']
    BY SMTT(40)
  <1> HIDE DEF n
  <1>18. ClientFits(n, s, <<g>>, client[s], behind)
    <2>1. Before(Core, Core.rev) <= Core.watch.cut /\ Core.watch.cut \in Nat
      BY <1>1, <1>2 DEF StreamInduct, WatchFollows, WatchFits, Watches
    <2>2. client[s] \in States /\ behind \in BOOLEAN
      BY DEF StreamInduct, StreamTyped
    <2>3. ClientFits(Core, s, << >>, client[s], behind)
      BY <1>2 DEF StreamInduct, ClientsFit
    <2>4. n.stream[s].q = Tail(q) /\ n.stream[s].cut = IF Head(q).cut > Core.stream[s].cut THEN Head(q).cut
                                                        ELSE Core.stream[s].cut
      BY <1>1, <1>9, <1>10, <1>16
    <2>5. Core.stream[s].at = "live" /\ ~Core.stream[s].resync /\ ~Core.stream[s].resnap /\ q = Core.stream[s].q
          /\ g = Deliver(Core.stream[s], Head(q)) /\ q # << >>
          /\ n.rev = Core.rev /\ n.shown = Core.shown /\ n.watch = Core.watch /\ Fits(Core)
      BY <1>1, <1>2, <1>16
    <2>6. QED
      BY <2>1, <2>2, <2>3, <2>4, <2>5, ClientGoesOn
  <1>19. /\ NoGap' /\ behind' \in BOOLEAN /\ gap' \subseteq Streams /\ client \in [Streams -> States]
    BY <1>1 DEF StreamInduct, StreamTyped, ClientsFit, NoGap
  <1>20. FramesFollow(Core, stream'[s].q)
    BY <1>4, <1>9, <1>10
  <1>21. \A a \in Answers' \cap SnapshotOf(s) : AnswerFits(n, a)
    BY <1>2, <1>13
  <1>22. UNCHANGED <<cut, entry, replies, failures, remote, rev, shown, watch>>
    BY <1>1
  <1>23. /\ stream[s].at \in {"reading", "live"}
         /\ client' \in [Streams -> States] /\ \A t \in Streams \ {s} : client'[t] = client[t]
         /\ port' = port \/ (port # << >> /\ port' = Tail(port))
         /\ behind => behind'
         /\ requests' = requests \/ requests' = requests \cup {s}
         /\ ClientFits(n, s, wire'[s], client'[s], behind')
         /\ wire' \in [Streams -> Seq(Frames)] /\ \A t \in Streams \ {s} : wire'[t] = wire[t]
         /\ ~stream'[s].resync => FramesFollow(Core, stream'[s].q)
    BY <1>1, <1>12, <1>18, <1>19, <1>20
  <1>24. ~watch.initializing
    BY <1>2
  <1>25. QED
    BY <1>10, <1>14, <1>15, <1>17, <1>19, <1>21, <1>22, <1>23, <1>24, OneStreamChanges, ZenonT(40)

\* The stream of a subscriber sends its next frame, or asks for a snapshot when
\* frames were dropped.
LEMMA PumpKept ==
  ASSUME StreamInduct, NEW s \in Streams, Pump(s)
  PROVE  StreamInduct'
  <1>1. /\ stream[s].at = "live" /\ ~stream[s].busy
        /\ UNCHANGED <<cut, entry, replies, failures, port, remote, rev, shown, watch, client, gap, behind>>
    BY DEF Pump
  <1>2. CASE /\ stream[s].resync
             /\ stream' = [stream EXCEPT ![s].busy = TRUE, ![s].resnap = TRUE, ![s].resync = FALSE,
                                         ![s].q = << >>]
             /\ requests' = requests \cup {s}
             /\ UNCHANGED wire
    BY <1>1, <1>2, PumpAsks, ZenonT(40)
  <1>3. CASE /\ ~stream[s].resync /\ stream[s].q # << >>
             /\ LET f == Head(stream[s].q)
                IN  /\ stream' = [stream EXCEPT ![s].busy = TRUE, ![s].q = Tail(@),
                                                ![s].cut = IF f.cut > @ THEN f.cut ELSE @]
                    /\ wire' = [wire EXCEPT ![s] = <<Deliver(stream[s], f)>>]
             /\ UNCHANGED requests
    <2> DEFINE q == stream[s].q
               k == IF Head(q).cut > stream[s].cut THEN Head(q).cut ELSE stream[s].cut
               g == Deliver(stream[s], Head(q))
    <2>1. stream' = [stream EXCEPT ![s].busy = TRUE, ![s].q = Tail(q), ![s].cut = k]
      BY <1>3
    <2>2. wire' = [wire EXCEPT ![s] = <<g>>]
      BY <1>3
    <2>3. q = stream[s].q /\ k = (IF Head(q).cut > stream[s].cut THEN Head(q).cut ELSE stream[s].cut)
          /\ g = Deliver(stream[s], Head(q))
      OBVIOUS
    <2>4. ~stream[s].resync /\ stream[s].q # << >>
      BY <1>3
    <2>5. UNCHANGED <<requests, cut, entry, replies, failures, port, remote, rev, shown, watch, client, gap, behind>>
      BY <1>1, <1>3
    <2> HIDE DEF q, k, g
    <2>6. QED
      BY <1>1, <2>1, <2>2, <2>3, <2>4, <2>5, PumpSends, ZenonT(40)
  <1>4. QED
    BY <1>1, <1>2, <1>3 DEF Pump

\* The client takes a frame.
LEMMA ClientTakes ==
  ASSUME StreamInduct, NEW s \in Streams, ClientReceives(s)
  PROVE  StreamInduct'
  <1> DEFINE w == wire[s]
             f == Head(w)
             st == client[s]
             after == After(w, st)
             old == ~f.snap /\ f.rev <= st.rev
             good == f.snap \/ Follows(st, f)
  <1>1. /\ Core \in Cores /\ Core.watch = watch /\ Core.rev = rev /\ Core.shown = shown
        /\ Core.stream = stream /\ Fits(Core) /\ watch \in Watches
        /\ stream \in [Streams -> Subscribers]
    BY CoreOfState
  <1>2. /\ w # << >> /\ wire' = [wire EXCEPT ![s] = << >>]
        /\ stream' = [stream EXCEPT ![s].busy = FALSE]
        /\ client' = IF old \/ ~good THEN client ELSE [client EXCEPT ![s] = Reduce(st, f)]
        /\ gap' = IF old \/ good THEN gap ELSE gap \cup {s}
        /\ cut' = cut /\ entry' = entry /\ requests' = requests /\ replies' = replies
        /\ failures' = failures /\ port' = port /\ remote' = remote /\ rev' = rev /\ shown' = shown
        /\ watch' = watch /\ behind' = behind
    BY DEF ClientReceives, dataVars
  <1>3. /\ wire \in [Streams -> Seq(Frames)] /\ client \in [Streams -> States]
        /\ gap \subseteq Streams /\ behind \in BOOLEAN /\ NoGap
        /\ ClientFits(Core, s, w, st, behind)
    BY DEF StreamInduct, StreamTyped, ClientsFit
  <1>4. w \in Seq(Frames) /\ f \in Frames /\ f.rev \in Int /\ f.cut \in Nat /\ f.snap \in BOOLEAN
    <2>1. w \in Seq(Frames)
      BY <1>3
    <2> HIDE DEF w
    <2>2. f \in Frames
      BY <1>2, <2>1, Shortened
    <2>3. QED
      BY <2>1, <2>2 DEF Frames
  <1>5. st \in States /\ st.rev \in Int /\ st.cut \in Int
    BY <1>3 DEF States
  <1>6. stream[s].at = "live" /\ ~stream[s].resnap /\ stream[s].busy /\ Len(stream[s].q) <= FrameLimit
    BY <1>2 DEF StreamInduct, Shapes, Shape
  <1>7. Token(s, s \in requests, replies, port, stream[s])
    BY DEF StreamInduct, Tokens
  <1>8. Answers \cap SnapshotOf(s) = {} /\ ~watch.initializing /\ Subscribed(Core, s)
    <2>1. replies \cap SnapshotOf(s) = {} /\ NoneOf(SnapshotOf(s), port)
      BY <1>6, <1>7 DEF Token
    <2>2. Answers \cap SnapshotOf(s) = {}
      BY <2>1 DEF Answers, NoneOf
    <2>3. ~watch.initializing
      BY <1>1, <1>6 DEF StreamInduct, StreamPlaces, Placed
    <2>4. QED
      BY <1>1, <1>6, <2>2, <2>3 DEF Subscribed
  <1>9. after = (IF good THEN Reduce(st, f) ELSE st)
    BY <1>2 DEF After, Taken
  <1>10. old => ~good
    <2> HIDE DEF f, st
    <2>1. ASSUME old, Follows(st, f) PROVE FALSE
      <3>1. f.rev - 1 = st.rev /\ f.rev <= st.rev
        BY <2>1 DEF Follows
      <3>2. QED
        BY <1>4, <1>5, <3>1
    <2>2. QED
      BY <2>1
  <1>11. Reduce(st, f) \in States
    BY <1>4, <1>5 DEF Reduce, States
  <1>12. ~behind => good
    BY <1>2, <1>3 DEF ClientFits
  <1>13. f = Head(w)
    OBVIOUS
  <1> HIDE DEF f, st
  <1>14. after \in States
    BY <1>5, <1>9, <1>11
  <1>15. client' \in [Streams -> States] /\ client'[s] = after /\ \A t \in Streams \ {s} : client'[t] = client[t]
    <2>1. CASE good
      <3>1. ~old
        BY <1>10, <2>1
      <3>2. client' = [client EXCEPT ![s] = after]
        BY <1>2, <1>9, <2>1, <3>1
      <3> HIDE DEF after
      <3>3. QED
        BY <1>3, <1>14, <3>2
    <2>2. CASE ~good
      <3>1. client' = client /\ after = st
        BY <1>2, <1>9, <2>2
      <3>2. QED
        BY <1>3, <3>1 DEF st
    <2>3. QED
      BY <2>1, <2>2
  <1>16. gap' \subseteq Streams /\ NoGap'
    <2>1. gap' \subseteq Streams
      BY <1>2, <1>3
    <2>2. CASE behind
      BY <1>2, <2>1, <2>2 DEF NoGap
    <2>3. CASE ~behind
      <3>1. good /\ gap = {}
        BY <1>3, <1>12, <2>3 DEF NoGap
      <3>2. gap' = gap
        BY <1>2, <3>1
      <3>3. QED
        BY <2>1, <3>1, <3>2 DEF NoGap
    <2>4. QED
      BY <2>2, <2>3
  <1> HIDE DEF after, old, good
  <1>17. /\ stream' \in [Streams -> Subscribers] /\ \A t \in Streams \ {s} : stream'[t] = stream[t]
         /\ stream'[s].at = "live" /\ stream'[s].resync = stream[s].resync /\ stream'[s].q = stream[s].q
         /\ stream'[s].cut = stream[s].cut /\ ~stream'[s].busy /\ ~stream'[s].resnap
    <2> DEFINE x == [stream[s] EXCEPT !.busy = FALSE]
    <2>1. x \in Subscribers /\ x.at = "live" /\ x.resync = stream[s].resync /\ x.q = stream[s].q
          /\ x.cut = stream[s].cut /\ ~x.busy /\ ~x.resnap
      BY <1>1, <1>6 DEF Subscribers
    <2>2. stream' = [stream EXCEPT ![s] = x]
      BY <1>2
    <2> HIDE DEF x
    <2>3. stream \in [Streams -> Subscribers]
      BY <1>1
    <2>4. stream' \in [Streams -> Subscribers] /\ stream'[s] = x
          /\ \A t \in Streams \ {s} : stream'[t] = stream[t]
      BY <2>1, <2>2, <2>3, StreamChanged
    <2>5. QED
      BY <2>1, <2>4
  <1>18. /\ wire' \in [Streams -> Seq(Frames)] /\ wire'[s] = << >>
         /\ \A t \in Streams \ {s} : wire'[t] = wire[t]
    BY <1>2, <1>3, FrameSent
  <1>19. Answers' = Answers
    BY <1>2 DEF Answers
  <1>20. Token(s, s \in requests', replies, port', stream'[s])
    BY <1>2, <1>6, <1>7, <1>17 DEF Token
  <1>21. Shape(stream'[s], wire'[s])
    <2>1. Len(<< >>) = 0
      OBVIOUS
    <2>2. QED
      BY <1>6, <1>17, <1>18, <2>1 DEF Shape
  <1> DEFINE n == [rev |-> rev, shown |-> shown, watch |-> watch, stream |-> stream']
  <1>22. n.rev = rev /\ n.shown = shown /\ n.watch = watch /\ n.stream = stream'
    OBVIOUS
  <1>23. n = [rev |-> rev, shown |-> shown, watch |-> watch, stream |-> stream']
    OBVIOUS
  <1> HIDE DEF n
  <1>24. ~stream'[s].resync => FramesFollow(Core, stream'[s].q)
    <2>1. ~stream[s].resync => FramesFollow(Core, stream[s].q)
      BY <1>1, <1>8, QueueFollows
    <2>2. QED
      BY <1>17, <2>1
  <1>25. ClientFits(n, s, << >>, after, behind)
    <2>1. ASSUME ~stream[s].resync PROVE Following(n, s, after, behind) /\ GoodState(n, after)
      <3>1. Following(Core, s, after, behind)
        BY <1>1, <1>3, <1>6, <2>1 DEF ClientFits, after, st
      <3>2. \A x : GoodState(n, x) <=> GoodState(Core, x)
        BY <1>1, <1>22 DEF GoodState, Before
      <3>3. Start(n, s) = Start(Core, s) /\ Reached(n, s) = Reached(Core, s)
        BY <1>1, <1>17, <1>22 DEF Start, Reached
      <3>4. \A e : Holds(Core, s, e) => Holds(n, s, e)
        BY <1>1, <1>17, <1>22 DEF Holds
      <3>5. n.stream[s].cut = Core.stream[s].cut
        BY <1>1, <1>17, <1>22
      <3>6. Following(n, s, after, behind)
        BY <3>1, <3>2, <3>3, <3>4, <3>5 DEF Following
      <3>7. QED
        BY <3>6 DEF Following
    <2>2. After(<< >>, after) = after
      BY DEF After
    <2>3. n.stream[s].resync = stream[s].resync
      BY <1>17, <1>22
    <2>4. QED
      BY <2>1, <2>2, <2>3 DEF ClientFits
  <1>26. ClientFits(n, s, wire'[s], client'[s], behind')
    BY <1>2, <1>15, <1>18, <1>25
  <1>27. \A a \in Answers' \cap SnapshotOf(s) : AnswerFits(n, a)
    BY <1>8, <1>19
  <1>28. UNCHANGED <<cut, entry, replies, failures, remote, rev, shown, watch>>
    BY <1>2
  <1>29. /\ stream[s].at \in {"reading", "live"} /\ ~watch.initializing
         /\ port' = port \/ (port # << >> /\ port' = Tail(port))
         /\ requests' = requests \/ requests' = requests \cup {s}
         /\ behind' \in BOOLEAN /\ (behind => behind')
    BY <1>2, <1>3, <1>6, <1>8
  <1>30. stream'[s].at = "live"
    BY <1>17
  <1>31. QED
    BY <1>15, <1>16, <1>17, <1>18, <1>20, <1>21, <1>23, <1>24, <1>26, <1>27, <1>28, <1>29, <1>30,
       OneStreamChanges

\* Nothing is watched and nothing is subscribed at the start.
LEMMA StreamInductInitially ==
  ASSUME StreamInit
  PROVE  StreamInduct
  <1>1. /\ cut = 0 /\ entry = NoEntry /\ requests = {} /\ replies = {} /\ failures = 0
        /\ port = << >> /\ remote = "none"
        /\ rev = 0 /\ shown = << >> /\ watch = NoWatch
        /\ stream = [s \in Streams |-> NoStream]
        /\ wire = [s \in Streams |-> << >>]
        /\ client = [s \in Streams |-> NoState]
        /\ gap = {} /\ behind = FALSE
    BY DEF StreamInit
  <1>2. DOMAIN port = {} /\ Answers = {} /\ Len(<< >>) = 0
    BY <1>1 DEF Answers
  <1>3. NoEntry \in Entries /\ ~NoEntry.on
    <2>1. << >> \in Seq(Nat)
      OBVIOUS
    <2>2. QED
      BY <2>1 DEF NoEntry, Entries
  <1>4. NoWatch \in Watches /\ ~NoWatch.on /\ ~NoWatch.initializing /\ NoWatch.pending = << >> /\ ~NoWatch.over
    <2>1. << >> \in Seq(Updates)
      OBVIOUS
    <2>2. QED
      BY <2>1 DEF NoWatch, Watches
  <1>5. /\ NoStream \in Subscribers /\ NoStream.at = "off" /\ NoStream.q = << >>
        /\ ~NoStream.busy /\ ~NoStream.resnap
    BY PartsOfNoStream
  <1>6. stream \in [Streams -> Subscribers] /\ \A s \in Streams : stream[s] = NoStream
    BY <1>1, <1>5
  <1>7. /\ Core = [rev |-> 0, shown |-> << >>, watch |-> NoWatch, stream |-> stream]
        /\ Core.rev = 0 /\ Core.shown = << >> /\ Core.watch = NoWatch /\ Core.stream = stream
    BY <1>1 DEF Core
  <1>8. Core \in Cores
    <2>1. << >> \in Seq(Nat)
      OBVIOUS
    <2>2. QED
      BY <1>4, <1>6, <1>7, <2>1 DEF Cores
  <1>9. \A s \in Streams : ~Subscribed(Core, s)
    BY <1>5, <1>6, <1>7 DEF Subscribed
  <1>10. wire \in [Streams -> Seq(Frames)] /\ \A s \in Streams : wire[s] = << >>
    <2>1. << >> \in Seq(Frames)
      OBVIOUS
    <2>2. QED
      BY <1>1, <2>1
  <1>11. StreamTyped
    <2>1. client \in [Streams -> States]
      <3>1. NoState \in States
        BY DEF NoState, States
      <3>2. QED
        BY <1>1, <3>1
    <2>2. << >> \in Seq(Posts)
      OBVIOUS
    <2>3. QED
      BY <1>1, <1>3, <1>8, <1>10, <2>1, <2>2 DEF StreamTyped
  <1>12. WatchProtocol
    BY <1>1, <1>2, <1>3 DEF WatchProtocol, Watching, Once, NoneOf, UpdatesFirst
  <1>13. StreamPlaces
    BY <1>1, <1>4, <1>5, <1>6, <1>7 DEF StreamPlaces, Placed
  <1>14. Tokens
    BY <1>1, <1>2 DEF Tokens, Token, Once, NoneOf
  <1>15. Shapes
    <2>1. FrameLimit \in Nat /\ 0 <= FrameLimit
      BY StreamAssumption
    <2>2. QED
      BY <1>2, <1>5, <1>6, <1>10, <2>1 DEF Shapes, Shape
  <1>16. Pipeline
    BY <1>1, <1>3 DEF Pipeline
  <1>17. WatchFollows
    BY <1>1, <1>4, <1>7 DEF WatchFollows, WatchFits, Before
  <1>18. CoreFits(Core)
    <2>1. \A i, j \in 0 .. Core.rev : i <= j => Before(Core, i) <= Before(Core, j)
      BY <1>7 DEF Before
    <2>2. \A s \in Streams : Faithful(Core, s)
      BY <1>9 DEF Faithful
    <2>3. QED
      BY <1>2, <1>7, <2>1, <2>2 DEF CoreFits
  <1>19. AnswersFit
    BY <1>2 DEF AnswersFit
  <1>20. ClientsFit
    BY <1>1, <1>5, <1>6, <1>7, <1>10, ClientIdle DEF ClientsFit, NoGap
  <1>21. QED
    BY <1>11, <1>12, <1>13, <1>14, <1>15, <1>16, <1>17, <1>18, <1>19, <1>20 DEF StreamInduct

\* Every step keeps the invariant.
LEMMA StreamInductKept ==
  ASSUME StreamInduct, [StreamNext]_streamVars
  PROVE  StreamInduct'
  <1>1. CASE Produce
    BY <1>1, ProduceKept
  <1>2. CASE PumpTakes
    BY <1>2, PumpTakesKept
  <1>3. CASE PumpPosts
    BY <1>3, PumpPostsKept
  <1>4. CASE DeliveryFails
    BY <1>4, DeliveryFailsKept
  <1>5. CASE HandleWatch
    BY <1>5, HandleWatchKept
  <1>6. CASE HandleUnwatch
    BY <1>6, HandleUnwatchKept
  <1>7. CASE \E r \in replies : Reply(r)
    BY <1>7, ReplyKept
  <1>8. CASE ControlChanges
    BY <1>8, ControlChangesKept
  <1>9. CASE ReceiveUpdate
    BY <1>9, ReceiveUpdateKept
  <1>10. CASE ReceiveWatched
    BY <1>10, ReceiveWatchedKept
  <1>11. CASE ReceiveUnwatched
    BY <1>11, ReceiveUnwatchedKept
  <1>12. CASE ReceiveSnapshot
    BY <1>12, ReceiveSnapshotKept
  <1>13. ASSUME NEW s \in Streams, HandleSnapshot(s) PROVE StreamInduct'
    BY <1>13, HandleSnapshotKept
  <1>14. ASSUME NEW s \in Streams, Subscribe(s) PROVE StreamInduct'
    BY <1>14, SubscribeKept
  <1>15. ASSUME NEW s \in Streams, Unsubscribe(s) PROVE StreamInduct'
    BY <1>15, UnsubscribeKept
  <1>16. ASSUME NEW s \in Streams, ReadFails(s) PROVE StreamInduct'
    BY <1>16, ReadFailsKept
  <1>17. ASSUME NEW s \in Streams, Pump(s) PROVE StreamInduct'
    BY <1>17, PumpKept
  <1>18. ASSUME NEW s \in Streams, ClientReceives(s) PROVE StreamInduct'
    BY <1>18, ClientTakes
  <1>19. CASE UNCHANGED streamVars
    <2>1. /\ cut' = cut /\ entry' = entry /\ requests' = requests /\ replies' = replies
          /\ failures' = failures /\ port' = port /\ remote' = remote
          /\ rev' = rev /\ shown' = shown /\ watch' = watch /\ stream' = stream
          /\ wire' = wire /\ client' = client /\ gap' = gap /\ behind' = behind
      BY <1>19 DEF streamVars, dataVars, hostVars, clientVars
    <2>2. Core' = Core /\ Answers' = Answers
      BY <2>1 DEF Core, Answers
    <2>3. StreamTyped' /\ WatchProtocol' /\ StreamPlaces' /\ Tokens' /\ Shapes' /\ Pipeline'
      BY <2>1, <2>2 DEF StreamInduct, StreamTyped, WatchProtocol, Watching, StreamPlaces, Tokens, Shapes,
                        Pipeline
    <2>4. WatchFollows' /\ CoreFits(Core)' /\ AnswersFit' /\ ClientsFit'
      BY <2>1, <2>2 DEF StreamInduct, WatchFollows, AnswersFit, ClientsFit, NoGap
    <2>5. QED
      BY <2>3, <2>4 DEF StreamInduct
  <1>20. QED
    BY <1>1, <1>2, <1>3, <1>4, <1>5, <1>6, <1>7, <1>8, <1>9, <1>10, <1>11, <1>12, <1>13, <1>14, <1>15,
       <1>16, <1>17, <1>18, <1>19 DEF StreamNext, CoreSteps

\* The bound on the deltas of the conversation.
LEMMA StreamBounded ==
  StreamSpec => [](cut \in 0 .. MaxCut)
  <1>1. StreamInit => cut \in 0 .. MaxCut
    BY StreamAssumption DEF StreamInit
  <1>2. cut \in 0 .. MaxCut /\ [StreamNext]_streamVars => (cut \in 0 .. MaxCut)'
    <2>1. SUFFICES ASSUME cut \in 0 .. MaxCut, [StreamNext]_streamVars
                   PROVE  cut' = cut \/ (cut < MaxCut /\ cut' = cut + 1)
      BY StreamAssumption
    <2>2. CASE Produce
      BY <2>2, SMTT(40) DEF Produce
    <2>3. CASE StreamNext /\ ~Produce
      BY <2>3, ZenonT(40) DEF StreamNext, CoreSteps, PumpTakes, PumpPosts, DeliveryFails, HandleWatch, HandleUnwatch,
         HandleSnapshot, Reply, ControlChanges, ReceiveUpdate, ReceiveWatched, ReceiveUnwatched,
         ReceiveSnapshot, Subscribe, Unsubscribe, ReadFails, Released, Pump, ClientReceives, dataVars
    <2>4. CASE UNCHANGED streamVars
      BY <2>4 DEF streamVars, dataVars
    <2>5. QED
      BY <2>1, <2>2, <2>3, <2>4
  <1>3. QED
    BY <1>1, <1>2, PTL DEF StreamSpec

\* A client that shows a control state has what was published before it.
LEMMA NothingIsSkipped ==
  ASSUME StreamInduct
  PROVE  NothingSkipped
  <1>1. SUFFICES ASSUME NEW s \in Streams, stream[s].at = "live", client[s].rev > 0, ~Resynchronising(s)
                 PROVE  client[s].cut >= shown[client[s].rev]
    BY DEF NothingSkipped
  <1>2. Core \in Cores /\ Core.stream = stream /\ Core.shown = shown /\ Core.rev = rev /\ rev \in Nat
        /\ Len(Core.shown) = Core.rev
    BY CoreOfState DEF Fits, CoreFits
  <1>3. ClientFits(Core, s, wire[s], client[s], behind)
    BY DEF StreamInduct, ClientsFit
  <1>4. GoodState(Core, client[s])
    BY <1>1, <1>2, <1>3 DEF ClientFits, Resynchronising
  <1>5. client[s].rev \in 0 .. rev /\ client[s].rev # 0 /\ Before(Core, client[s].rev) <= client[s].cut
    BY <1>1, <1>2, <1>4 DEF GoodState
  <1>6. Before(Core, client[s].rev) = shown[client[s].rev]
    BY <1>2, <1>5 DEF Before
  <1>7. Before(Core, client[s].rev) \in Nat
    BY <1>2, <1>5, BeforeIsCut
  <1>8. client[s].cut \in Int
    BY DEF StreamInduct, StreamTyped, States
  <1>9. QED
    BY <1>5, <1>6, <1>7, <1>8

\* The inductive invariant gives what the runs check.
LEMMA StreamInductSuffices ==
  ASSUME StreamInduct, cut \in 0 .. MaxCut
  PROVE  StreamInvariant
  <1>1. /\ Core \in Cores /\ Core.stream = stream /\ Core.shown = shown /\ Core.rev = rev /\ rev \in Nat
        /\ Len(Core.shown) = Core.rev /\ watch \in Watches /\ entry \in Entries
        /\ stream \in [Streams -> Subscribers]
    BY CoreOfState DEF Fits, CoreFits
  <1>2. entry.pump \in {"idle", "run", "forming", "sent"}
    BY <1>1, PartsOfEntry
  <1>3. entry.pump \in {"run", "forming", "sent"} => entry.on
    BY DEF StreamInduct, WatchProtocol, NoEntry
  <1>4. ASSUME NEW s \in Streams
        PROVE  /\ stream[s].at \in {"off", "waiting", "reading", "live", "closed"}
               /\ Len(stream[s].q) <= FrameLimit + Len(watch.pending) + 1
               /\ Len(wire[s]) <= 1
               /\ stream[s].resnap => stream[s].busy /\ wire[s] = << >>
    <2>1. Shape(stream[s], wire[s])
      BY DEF StreamInduct, Shapes
    <2>2. stream[s].at \in {"off", "waiting", "reading", "live", "closed"}
      BY <1>1, PartsOfSubscriber
    <2>3. FrameLimit \in Nat /\ Len(watch.pending) \in Nat /\ Len(stream[s].q) \in Nat
      <3>1. watch.pending \in Seq(Updates) /\ stream[s].q \in Seq(Published)
        BY <1>1, PartsOfSubscriber DEF Watches
      <3>2. QED
        BY <3>1, StreamAssumption
    <2>4. Len(stream[s].q) <= FrameLimit
      BY <2>1 DEF Shape
    <2>5. Len(stream[s].q) <= FrameLimit + Len(watch.pending) + 1
      BY <2>3, <2>4
    <2>6. QED
      BY <2>1, <2>2, <2>5 DEF Shape
  <1>5. requests \subseteq {"watch", "unwatch"} \cup Streams
        /\ remote \in {"none", "asked", "ready", "stopping"} /\ gap \subseteq Streams
    BY DEF StreamInduct, StreamTyped
  <1>6. StreamTypeOK
    BY <1>1, <1>2, <1>3, <1>4, <1>5 DEF StreamTypeOK
  <1>7. NoGap
    BY DEF StreamInduct, ClientsFit
  <1>8. QED
    BY <1>6, <1>7, NothingIsSkipped DEF StreamInvariant

\* THEOREM: the entry at the Data Worker, the watch and the queues of the Core
\* (core_service.ts) and every client agree on what is published and on its way.
THEOREM StreamHolds ==
  StreamSpec => []StreamInduct
  <1>1. StreamInit => StreamInduct
    BY StreamInductInitially
  <1>2. StreamInduct /\ [StreamNext]_streamVars => StreamInduct'
    BY StreamInductKept
  <1>3. QED
    BY <1>1, <1>2, PTL DEF StreamSpec

\* THEOREM: unless a stream began behind its watch no client is handed a frame
\* that does not follow what it has, and a client that shows a control state has
\* every delta published before it or is being resynchronised (data_service.ts,
\* core_service.ts, reducer.ts).
THEOREM StreamCorrect ==
  StreamSpec => []StreamInvariant
  <1>1. StreamInduct /\ cut \in 0 .. MaxCut => StreamInvariant
    BY StreamInductSuffices
  <1>2. QED
    BY <1>1, StreamHolds, StreamBounded, PTL

=============================================================================
