--------------------------- MODULE ChildRuns_proofs ---------------------------
(***************************************************************************)
(* Proofs about ChildRuns, for any number of runs and any faults: which    *)
(* terminal a run reports, what its cleanup leaves of it, whom a           *)
(* cancellation reaches and which control facts are stored.                *)
(***************************************************************************)
EXTENDS ChildRuns, TLAPS

-----------------------------------------------------------------------------
(* The inductive invariant: one run.                                       *)

Fields ==
  {"spawn", "addressable", "admitted", "admissionError", "attempted", "forced", "started",
   "cancelRequested", "cancelRecorded", "cancelSent", "terminal", "durable", "settle", "seal",
   "sealer", "force", "final", "clean", "physical", "worker", "portClosed", "heard", "toWorker",
   "toHost", "unread", "session", "exec", "next", "pending", "queued", "written", "cleanupFact",
   "collected", "executionRefused"}

ToWorker == {"turn", "cancel", "ack", "close"}
Boots == {"ready", "config", "filter", "boot"}
ToHost == Boots \cup {"cancel_received", "proposal", "failure", "turn_settled", "closed", "error"}
Waits == {"none", "terminating", "calling", "answered", "error", "finalizing", "done", "failed"}

Flags(x) ==
  /\ x.addressable \in BOOLEAN /\ x.admitted \in BOOLEAN /\ x.admissionError \in BOOLEAN
  /\ x.attempted \in BOOLEAN /\ x.forced \in BOOLEAN /\ x.started \in BOOLEAN
  /\ x.portClosed \in BOOLEAN /\ x.heard \in BOOLEAN /\ x.durable \in BOOLEAN
  /\ x.cancelRequested \in BOOLEAN /\ x.cancelRecorded \in BOOLEAN /\ x.cancelSent \in BOOLEAN
  /\ x.executionRefused \in BOOLEAN
Shaped(x) ==
  /\ DOMAIN x = Fields
  /\ x.spawn \in {"idle", "account", "opening", "capacity", "booting", "thrown", "admitting",
                  "answered", "rejected", "local", "ok", "refused"}
  /\ x.worker \in {"none", "booting", "idle", "running", "waiting", "ended", "terminated"}
  /\ x.physical \in {"none", "closing", "cleaning", "swallowed", "facts", "factsFailed", "done",
                     "failed"}
  /\ x.settle \in {"none", "proposal", "failure", "answered", "acknowledged", "error", "done"}
  /\ x.seal \in Waits /\ x.force \in Waits
  /\ x.sealer \in {"none", "failChild", "finishWithoutData"}
  /\ x.final \in {"none", "terminating", "closing", "done"}
  /\ x.clean \in {"none", "admission", "grace", "startup", "settlement", "forced", "finalizing",
                  "refused", "end", "done", "failed"}
  /\ x.terminal \in Terminals \cup {"none"} /\ x.collected \in Terminals \cup {"none"}
  /\ x.session \in {"none", "open", "closed"}
  /\ x.exec \in Terminals \cup {"none", "admitted"}
  /\ x.unread \subseteq {"turn_settled", "closed", "error"}
  /\ x.toWorker \in Seq(ToWorker) /\ x.toHost \in Seq(ToHost)

\* A run has nothing before its Session is opened and no terminal before its spawn is over,
\* and a spawn that is over has left a terminal, an admission or the error of the open.
Unopened == {"idle", "account", "opening"}
Over == {"local", "ok", "refused"}
SpawnFollows(x) ==
  /\ x.spawn \in Unopened =>
       /\ x.worker = "none" /\ x.session = "none" /\ ~x.admissionError
       /\ x.clean \in {"none", "admission"}
       /\ x.spawn # "opening" => x.clean = "none"
  /\ x.spawn \notin Unopened \cup Over => x.worker # "none" /\ x.session = "open"
  /\ x.spawn \notin Over => x.terminal = "none" /\ ~x.attempted /\ ~x.admissionError
  /\ x.spawn \in Over => \/ x.terminal # "none"
                         \/ x.spawn # "local" /\ (x.admitted \/ x.admissionError)
  /\ x.admissionError => x.worker = "none" /\ x.session = "none" /\ ~x.admitted
  /\ x.admitted => x.spawn \in {"ok", "refused"} /\ x.session # "none" /\ x.worker # "none"
  /\ x.exec # "none" <=> x.admitted \/ x.spawn = "answered"

\* A Worker boots once, answers its boot first, and ends by itself only when the boot has failed
\* or its run is settled.
WorkerFollows(x) ==
  /\ x.worker = "booting" => x.spawn \in {"capacity", "booting"} /\ x.toHost = << >>
  /\ \A i \in DOMAIN x.toHost : x.toHost[i] \in Boots =>
       /\ i = 1 /\ x.spawn = "booting"
       /\ x.worker = IF x.toHost[i] = "ready" THEN "idle" ELSE "ended"
  /\ x.worker = "ended" => x.terminal # "none" \/ x.spawn = "booting"
  /\ x.worker \in {"none", "terminated"} => x.toHost = << >> /\ x.toWorker = << >>
  /\ x.worker = "none" => x.physical = "none"
  /\ x.physical \notin {"none", "closing"} => x.worker = "terminated"
  /\ x.physical = "closing" => x.terminal # "none"

\* Whoever settles a run does so once it is admitted, and reports what Data has stored.
SettlementFollows(x) ==
  /\ x.settle # "none" \/ x.seal # "none" \/ x.force # "none" => x.admitted /\ x.attempted
  /\ x.settle \in {"answered", "acknowledged"} \/ "answered" \in {x.seal, x.force} =>
       x.exec \in Terminals
  /\ x.force = "done" => x.terminal # "none"
  /\ x.attempted => x.terminal # "none" \/ x.admitted
  /\ x.final # "none" <=> x.terminal # "none"
  /\ x.terminal # "none" /\ x.durable /\ x.exec # "none" => x.terminal = x.exec
  /\ x.collected # "none" => x.collected = x.terminal

\* Where the cleanup stands says what is settled, and its end what is gone: only behind a refused
\* execution it does not look at what a failed process cleanup has left.
Gone(x) == WorkerIsOver(x) /\ x.session # "open"
CleanupFollows(x) ==
  /\ x.clean # "none" => x.cancelRequested
  /\ x.clean \in {"settlement", "forced", "finalizing", "refused", "end", "done"} =>
       StartupComplete(x)
  /\ x.clean \in {"settlement", "forced"} => x.admitted
  /\ x.clean \in {"end", "done"} => x.terminal # "none"
  /\ x.clean = "refused" => x.executionRefused
  /\ x.final = "closing" \/ x.session = "closed" => WorkerIsOver(x)
  /\ x.final = "done" => Gone(x) \/ x.physical = "failed"
  /\ x.clean = "done" => Gone(x) \/ (x.executionRefused /\ x.physical = "failed")

\* The facts have the numbers below n: p is held back until the run is admitted, then q is
\* queued behind w, which is written, as long as the Session is open.
Numbered(q, n) == \A i \in DOMAIN q : q[i] = n + i
Below(q, n) == \A i \in DOMAIN q : q[i] \in 1 .. n - 1
Counted(p, q, w, n, admitted, session) ==
  /\ p \in Seq(Nat) /\ q \in Seq(Nat) /\ w \in Seq(Nat) /\ n \in Nat \ {0}
  /\ ~admitted => Len(p) = n - 1 /\ q = << >> /\ w = << >>
  /\ admitted => p = << >>
  /\ admitted /\ session = "open" => Len(w) + Len(q) = n - 1 /\ Numbered(q, Len(w))
  /\ Numbered(p, 0) /\ Numbered(w, 0) /\ Below(q, n) /\ Len(w) < n

\* f is the fact of the process cleanup: once the cleanup has ended, it is among w.
Reached(f, w, n, admitted, physical) ==
  /\ f \in Nat /\ f < n
  /\ f # 0 => /\ admitted /\ physical \in {"facts", "factsFailed", "done", "failed"}
              /\ physical \in {"done", "failed"} => f <= Len(w)
FactsFollow(x) ==
  /\ Counted(x.pending, x.queued, x.written, x.next, x.admitted, x.session)
  /\ Reached(x.cleanupFact, x.written, x.next, x.admitted, x.physical)

\* A turn is sent once the run is admitted, and the cancel that was asked for comes behind it.
Has(q, m) == \E i \in DOMAIN q : q[i] = m
Overtaken(q) == \A i \in DOMAIN q : q[i] = "turn" => \E j \in DOMAIN q : j > i /\ q[j] = "cancel"
CancelFollows(x) ==
  /\ Has(x.toWorker, "turn") \/ x.worker \in {"running", "waiting"} => x.spawn = "ok" /\ x.admitted
  /\ Has(x.toWorker, "close") => x.terminal # "none"
  /\ x.cancelSent => x.cancelRequested
  /\ x.cancelRequested /\ x.terminal = "none" =>
       /\ x.worker = "running" => x.heard \/ Has(x.toWorker, "cancel")
       /\ Overtaken(x.toWorker)

Sound(x) ==
  /\ Shaped(x) /\ Flags(x) /\ SpawnFollows(x) /\ WorkerFollows(x) /\ SettlementFollows(x)
  /\ CleanupFollows(x) /\ FactsFollow(x)
Fits(x) == Sound(x) /\ CancelFollows(x)

-----------------------------------------------------------------------------
(* The inductive invariant: the runs and their parent.                     *)

\* The parent's cleanup awaits every run that has a Worker, and each of them is cleaned up.
ParentFollows ==
  /\ parent \in [active : BOOLEAN, cleanup : {"none", "waiting", "done", "failed"},
                 awaits : SUBSET Runs]
  /\ parent.active <=> parent.cleanup = "none"
  /\ ~parent.active => \A r \in Runs \ parent.awaits : run[r].worker = "none"
  /\ \A r \in parent.awaits : run[r].clean # "none"
  /\ parent.cleanup = "done" => \A r \in parent.awaits : run[r].clean = "done"

RegistryInduct ==
  /\ run = [r \in Runs |-> run[r]]
  /\ \A r \in Runs : Fits(run[r])
  /\ ParentFollows

\* What no step takes back.
Later(x, y) ==
  /\ x.clean # "none" => y.clean # "none"
  /\ x.clean = "done" => y.clean = "done"
  /\ x.worker = "none" => y.worker = "none"

\* What a step of a run does: the run fits afterwards, and nothing is taken back.
Advances(r) ==
  \E y : /\ Fits(y) /\ Becomes(r, y)
         /\ Later(run[r], y) \/ (parent.active /\ y.clean = run[r].clean)

-----------------------------------------------------------------------------
(* Control facts and messages.                                             *)

\* A queue of numbers grows by the next one.
LEMMA NumbersGrow ==
  ASSUME NEW q \in Seq(Nat), NEW n \in Nat \ {0}
  PROVE  /\ Append(q, n) \in Seq(Nat) /\ Len(q) \in Nat /\ Len(Append(q, n)) = Len(q) + 1
         /\ Below(q, n) => Below(Append(q, n), n + 1)
         /\ \A k \in Nat : Numbered(q, k) /\ k + Len(q) = n - 1 => Numbered(Append(q, n), k)
  <1>1. /\ Append(q, n) \in Seq(Nat) /\ Len(q) \in Nat /\ Len(Append(q, n)) = Len(q) + 1
        /\ DOMAIN q = 1 .. Len(q) /\ DOMAIN Append(q, n) = 1 .. Len(q) + 1
        /\ \A i \in 1 .. Len(q) : Append(q, n)[i] = q[i]
        /\ Append(q, n)[Len(q) + 1] = n
    OBVIOUS
  <1>2. Below(q, n) => Below(Append(q, n), n + 1)
    BY <1>1 DEF Below
  <1>3. ASSUME NEW k \in Nat, Numbered(q, k), k + Len(q) = n - 1
        PROVE  Numbered(Append(q, n), k)
    BY <1>1, <1>3 DEF Numbered
  <1>. QED
    BY <1>1, <1>2, <1>3

\* An empty queue of facts is numbered from anywhere.
LEMMA NoNumbers ==
  ASSUME NEW n
  PROVE  << >> \in Seq(Nat) /\ Len(<< >>) = 0 /\ Numbered(<< >>, n) /\ Below(<< >>, n)
  BY DEF Numbered, Below

\* RecordExecutionControl after the admission: the fact is queued behind the others.
LEMMA FactQueued ==
  ASSUME NEW p, NEW q, NEW w, NEW n, NEW s, Counted(p, q, w, n, TRUE, s)
  PROVE  Counted(p, Append(q, n), w, n + 1, TRUE, s)
  <1>1. q \in Seq(Nat) /\ w \in Seq(Nat) /\ n \in Nat \ {0} /\ Len(w) \in Nat
    BY DEF Counted
  <1>2. /\ Append(q, n) \in Seq(Nat) /\ Len(q) \in Nat /\ Len(Append(q, n)) = Len(q) + 1
        /\ Below(q, n) => Below(Append(q, n), n + 1)
        /\ \A k \in Nat : Numbered(q, k) /\ k + Len(q) = n - 1 => Numbered(Append(q, n), k)
    BY <1>1, NumbersGrow
  <1>3. s = "open" => Len(w) + Len(Append(q, n)) = (n + 1) - 1 /\ Numbered(Append(q, n), Len(w))
    BY <1>1, <1>2 DEF Counted
  <1>. QED
    BY <1>1, <1>2, <1>3 DEF Counted

\* RecordExecutionControl before the admission: the fact is held back behind the others.
LEMMA FactHeld ==
  ASSUME NEW p, NEW q, NEW w, NEW n, NEW s, Counted(p, q, w, n, FALSE, s)
  PROVE  Counted(Append(p, n), q, w, n + 1, FALSE, s)
  <1>1. /\ p \in Seq(Nat) /\ n \in Nat \ {0} /\ Len(p) = n - 1 /\ Numbered(p, 0)
        /\ q = << >> /\ w = << >>
    BY DEF Counted
  <1>2. /\ Append(p, n) \in Seq(Nat) /\ Len(Append(p, n)) = (n + 1) - 1
        /\ Numbered(Append(p, n), 0)
    BY <1>1, NumbersGrow
  <1>3. Numbered(w, 0) /\ Below(q, n + 1) /\ Len(w) < n + 1
    BY <1>1, NoNumbers
  <1>. QED
    BY <1>1, <1>2, <1>3 DEF Counted

\* FlushPendingExecutionControls: the facts held back are the first ones queued.
LEMMA FactsReleased ==
  ASSUME NEW p, NEW q, NEW w, NEW n, NEW s, Counted(p, q, w, n, FALSE, s)
  PROVE  Counted(<< >>, q \o p, w, n, TRUE, s)
  <1>1. /\ p \in Seq(Nat) /\ n \in Nat \ {0} /\ Len(p) = n - 1 /\ Numbered(p, 0)
        /\ q = << >> /\ w = << >>
    BY DEF Counted
  <1>2. q \o p = p
    BY <1>1
  <1>3. Below(p, n)
    <2>1. DOMAIN p = 1 .. n - 1
      BY <1>1
    <2>. QED
      BY <1>1, <2>1 DEF Numbered, Below
  <1>4. Len(w) + Len(p) = n - 1 /\ Numbered(p, Len(w)) /\ Len(w) < n
    BY <1>1, NoNumbers
  <1>. QED
    BY <1>1, <1>2, <1>3, <1>4, NoNumbers DEF Counted

\* The head of a queue of numbers is the next one, the tail is numbered behind it.
LEMMA NumbersShrink ==
  ASSUME NEW q \in Seq(Nat), NEW n, q # << >>
  PROVE  /\ Tail(q) \in Seq(Nat) /\ Len(q) \in Nat /\ Len(Tail(q)) = Len(q) - 1 /\ Head(q) \in Nat
         /\ Below(q, n) => Below(Tail(q), n) /\ Head(q) \in 1 .. n - 1
         /\ \A k \in Nat : Numbered(q, k) => Head(q) = k + 1 /\ Numbered(Tail(q), k + 1)
  <1>1. /\ Tail(q) \in Seq(Nat) /\ Len(q) \in Nat /\ Len(q) # 0 /\ Len(Tail(q)) = Len(q) - 1
        /\ DOMAIN q = 1 .. Len(q) /\ DOMAIN Tail(q) = 1 .. Len(q) - 1
        /\ \A i \in 1 .. Len(q) - 1 : Tail(q)[i] = q[i + 1]
        /\ Head(q) = q[1] /\ q[1] \in Nat
    OBVIOUS
  <1>2. Below(q, n) => Below(Tail(q), n) /\ Head(q) \in 1 .. n - 1
    BY <1>1 DEF Below
  <1>3. ASSUME NEW k \in Nat, Numbered(q, k)
        PROVE  Head(q) = k + 1 /\ Numbered(Tail(q), k + 1)
    BY <1>1, <1>3 DEF Numbered
  <1>. QED
    BY <1>1, <1>2, <1>3

\* WriteFact with the Session open: the head of the queue is the next fact to be written.
LEMMA FactWritten ==
  ASSUME NEW p, NEW q, NEW w, NEW n, NEW a, NEW s, Counted(p, q, w, n, a, s), s = "open", q # << >>
  PROVE  Counted(p, Tail(q), Append(w, Head(q)), n, a, s) /\ Len(Append(w, Head(q))) = Len(w) + 1
  <1>1. /\ a /\ p \in Seq(Nat) /\ q \in Seq(Nat) /\ w \in Seq(Nat) /\ n \in Nat \ {0}
        /\ Len(w) \in Nat /\ p = << >> /\ Len(w) + Len(q) = n - 1 /\ Numbered(q, Len(w))
        /\ Numbered(p, 0) /\ Numbered(w, 0) /\ Below(q, n)
    BY DEF Counted
  <1>2. /\ Tail(q) \in Seq(Nat) /\ Len(q) \in Nat /\ Len(Tail(q)) = Len(q) - 1
        /\ Below(Tail(q), n) /\ Head(q) \in 1 .. n - 1
        /\ Head(q) = Len(w) + 1 /\ Numbered(Tail(q), Len(w) + 1)
    BY <1>1, NumbersShrink
  <1>3. /\ Append(w, Len(w) + 1) \in Seq(Nat) /\ Len(Append(w, Len(w) + 1)) = Len(w) + 1
        /\ Numbered(Append(w, Len(w) + 1), 0)
    <2>1. (Len(w) + 1) \in Nat \ {0} /\ 0 + Len(w) = (Len(w) + 1) - 1
      BY <1>1
    <2>. QED
      BY <1>1, <2>1, NumbersGrow
  <1>4. (Len(w) + 1) + Len(Tail(q)) = n - 1 /\ Len(w) + 1 < n
    BY <1>1, <1>2
  <1>. QED
    BY <1>1, <1>2, <1>3, <1>4 DEF Counted

\* WriteFact with the Session closed: the fact is gone.
LEMMA FactLost ==
  ASSUME NEW p, NEW q, NEW w, NEW n, NEW a, NEW s, Counted(p, q, w, n, a, s), s # "open", q # << >>
  PROVE  Counted(p, Tail(q), w, n, a, s)
  <1>1. q \in Seq(Nat) /\ Below(q, n)
    BY DEF Counted
  <1>2. Tail(q) \in Seq(Nat) /\ Below(Tail(q), n)
    BY <1>1, NumbersShrink
  <1>. QED
    BY <1>2 DEF Counted

\* CloseSession, and the open of a run that is not admitted.
LEMMA FactsKept ==
  ASSUME NEW p, NEW q, NEW w, NEW n, NEW a, NEW s, NEW t, Counted(p, q, w, n, a, s),
         ~a \/ t # "open"
  PROVE  Counted(p, q, w, n, a, t)
  BY DEF Counted

\* FactsAwaited: what is no longer queued has been written, while the Session is open.
LEMMA FactReached ==
  ASSUME NEW p, NEW q, NEW w, NEW n, NEW s, Counted(p, q, w, n, TRUE, s), s = "open",
         NEW f \in 1 .. n - 1, \A i \in DOMAIN q : q[i] # f
  PROVE  f <= Len(w)
  <1>1. /\ q \in Seq(Nat) /\ w \in Seq(Nat) /\ n \in Nat /\ Len(w) + Len(q) = n - 1
        /\ Numbered(q, Len(w))
    BY DEF Counted
  <1>2. SUFFICES ASSUME f > Len(w) PROVE FALSE
    BY <1>1
  <1>3. (f - Len(w)) \in DOMAIN q
    BY <1>1, <1>2
  <1>4. q[f - Len(w)] = Len(w) + (f - Len(w))
    BY <1>1, <1>3 DEF Numbered
  <1>. QED
    BY <1>1, <1>3, <1>4

\* The fact of the process cleanup stays where it is while others are prepared and written.
LEMMA ReachedStays ==
  ASSUME NEW f, NEW w, NEW v, NEW n \in Nat, NEW m \in Nat, NEW a, NEW b, NEW physical,
         Reached(f, w, n, a, physical), n <= m, Len(w) \in Nat, Len(v) \in Nat,
         Len(w) <= Len(v), a => b
  PROVE  Reached(f, v, m, b, physical)
  BY DEF Reached

\* A message taken from a queue leaves what is behind it.
LEMMA MessageTaken ==
  ASSUME NEW S, NEW q \in Seq(S), q # << >>
  PROVE  /\ Tail(q) \in Seq(S) /\ Head(q) \in S /\ Has(q, Head(q))
         /\ \A m : Has(Tail(q), m) => Has(q, m)
         /\ \A m : Has(q, m) => Has(Tail(q), m) \/ Head(q) = m
         /\ Overtaken(q) => Overtaken(Tail(q))
         /\ Overtaken(q) /\ Head(q) = "turn" => Has(Tail(q), "cancel")
  <1>1. /\ Tail(q) \in Seq(S) /\ Len(q) \in Nat /\ Len(q) # 0
        /\ DOMAIN q = 1 .. Len(q) /\ DOMAIN Tail(q) = 1 .. Len(q) - 1
        /\ \A i \in 1 .. Len(q) - 1 : Tail(q)[i] = q[i + 1]
        /\ Head(q) = q[1] /\ q[1] \in S
    OBVIOUS
  <1>2. Has(q, Head(q))
    BY <1>1 DEF Has
  <1>3. ASSUME NEW m, Has(Tail(q), m) PROVE Has(q, m)
    <2>1. PICK i \in 1 .. Len(q) - 1 : q[i + 1] = m
      BY <1>1, <1>3 DEF Has
    <2>. QED
      BY <1>1, <2>1 DEF Has
  <1>4. ASSUME NEW i \in DOMAIN q, i # 1
        PROVE  i - 1 \in DOMAIN Tail(q) /\ Tail(q)[i - 1] = q[i]
    <2>1. (i - 1) \in 1 .. Len(q) - 1 /\ (i - 1) + 1 = i
      BY <1>1, <1>4
    <2>. QED
      BY <1>1, <2>1
  <1>5. ASSUME NEW m, Has(q, m) PROVE Has(Tail(q), m) \/ Head(q) = m
    BY <1>1, <1>4, <1>5 DEF Has
  <1>6. ASSUME Overtaken(q) PROVE Overtaken(Tail(q))
    <2>1. SUFFICES ASSUME NEW i \in DOMAIN Tail(q), Tail(q)[i] = "turn"
                   PROVE  \E j \in DOMAIN Tail(q) : j > i /\ Tail(q)[j] = "cancel"
      BY DEF Overtaken
    <2>2. i \in Nat /\ i # 0 /\ i + 1 \in DOMAIN q /\ q[i + 1] = "turn"
      BY <1>1, <2>1
    <2>3. PICK j \in DOMAIN q : j > i + 1 /\ q[j] = "cancel"
      BY <1>6, <2>2 DEF Overtaken
    <2>4. j \in Nat /\ j # 1 /\ j - 1 > i
      BY <1>1, <2>2, <2>3
    <2>5. j - 1 \in DOMAIN Tail(q) /\ Tail(q)[j - 1] = "cancel"
      BY <1>4, <2>3, <2>4
    <2>. QED
      BY <2>4, <2>5
  <1>7. ASSUME Overtaken(q), Head(q) = "turn" PROVE Has(Tail(q), "cancel")
    <2>1. PICK j \in DOMAIN q : j > 1 /\ q[j] = "cancel"
      BY <1>1, <1>7 DEF Overtaken
    <2>2. j - 1 \in DOMAIN Tail(q) /\ Tail(q)[j - 1] = "cancel"
      BY <1>1, <1>4, <2>1
    <2>. QED
      BY <2>2 DEF Has
  <1>. QED
    BY <1>1, <1>2, <1>3, <1>5, <1>6, <1>7

\* A message sent goes behind the others; a cancel overtakes every turn that is under way.
LEMMA MessageSent ==
  ASSUME NEW S, NEW q \in Seq(S), NEW n \in S
  PROVE  /\ Append(q, n) \in Seq(S)
         /\ \A m : Has(Append(q, n), m) <=> Has(q, m) \/ n = m
         /\ Overtaken(q) /\ n # "turn" => Overtaken(Append(q, n))
         /\ n = "cancel" => Overtaken(Append(q, n))
  <1>1. /\ Append(q, n) \in Seq(S) /\ Len(q) \in Nat
        /\ DOMAIN q = 1 .. Len(q) /\ DOMAIN Append(q, n) = 1 .. Len(q) + 1
        /\ \A i \in 1 .. Len(q) : Append(q, n)[i] = q[i]
        /\ Append(q, n)[Len(q) + 1] = n
    OBVIOUS
  <1>2. ASSUME NEW m PROVE Has(Append(q, n), m) <=> Has(q, m) \/ n = m
    <2>1. Len(q) + 1 \in DOMAIN Append(q, n)
      BY <1>1
    <2>2. \A i \in DOMAIN q : i \in DOMAIN Append(q, n) /\ Append(q, n)[i] = q[i]
      BY <1>1
    <2>3. \A i \in DOMAIN Append(q, n) : i \in DOMAIN q \/ i = Len(q) + 1
      BY <1>1
    <2>. QED
      BY <1>1, <2>1, <2>2, <2>3 DEF Has
  <1>3. ASSUME Overtaken(q), n # "turn" PROVE Overtaken(Append(q, n))
    BY <1>1, <1>3 DEF Overtaken
  <1>4. ASSUME n = "cancel" PROVE Overtaken(Append(q, n))
    BY <1>1, <1>4 DEF Overtaken
  <1>. QED
    BY <1>1, <1>2, <1>3, <1>4

\* A queue that is empty holds no message.
LEMMA NoMessages ==
  ASSUME NEW S
  PROVE  << >> \in Seq(S) /\ Overtaken(<< >>) /\ \A m : ~Has(<< >>, m)
  BY DEF Has, Overtaken

\* RecordExecutionControl keeps the order of the facts.
LEMMA FactsRecorded ==
  ASSUME NEW x, NEW y, FactsFollow(x), x.admitted \in BOOLEAN,
         y.next = x.next + 1, y.written = x.written, y.admitted = x.admitted,
         y.session = x.session,
         y.pending = IF x.admitted THEN x.pending ELSE Append(x.pending, x.next),
         y.queued = IF x.admitted THEN Append(x.queued, x.next) ELSE x.queued
  PROVE  /\ Counted(y.pending, y.queued, y.written, y.next, y.admitted, y.session)
         /\ x.next \in Nat \ {0} /\ Len(x.written) < x.next /\ Len(x.written) \in Nat
         /\ y.cleanupFact = x.cleanupFact /\ y.physical = x.physical =>
              Reached(y.cleanupFact, y.written, y.next, y.admitted, y.physical)
  <1>1. Counted(y.pending, y.queued, y.written, y.next, y.admitted, y.session)
    <2>1. CASE x.admitted = TRUE
      <3>1. Counted(x.pending, x.queued, x.written, x.next, TRUE, x.session)
        BY <2>1 DEF FactsFollow
      <3>2. Counted(x.pending, Append(x.queued, x.next), x.written, x.next + 1, TRUE, x.session)
        BY <3>1, FactQueued
      <3>. QED
        BY <2>1, <3>2
    <2>2. CASE x.admitted = FALSE
      <3>1. Counted(x.pending, x.queued, x.written, x.next, FALSE, x.session)
        BY <2>2 DEF FactsFollow
      <3>2. Counted(Append(x.pending, x.next), x.queued, x.written, x.next + 1, FALSE, x.session)
        BY <3>1, FactHeld
      <3>. QED
        BY <2>2, <3>2
    <2>. QED
      BY <2>1, <2>2
  <1>2. /\ x.next \in Nat \ {0} /\ Len(x.written) < x.next /\ Len(x.written) \in Nat
        /\ Reached(x.cleanupFact, x.written, x.next, x.admitted, x.physical)
    BY DEF FactsFollow, Counted
  <1>3. ASSUME y.cleanupFact = x.cleanupFact, y.physical = x.physical
        PROVE  Reached(y.cleanupFact, y.written, y.next, y.admitted, y.physical)
    <2>1. x.next + 1 \in Nat /\ x.next <= x.next + 1 /\ x.next \in Nat
      BY <1>2
    <2>2. Reached(x.cleanupFact, x.written, x.next + 1, x.admitted, x.physical)
      BY <1>2, <2>1 DEF Reached
    <2>. QED
      BY <1>3, <2>2
  <1>. QED
    BY <1>1, <1>2, <1>3

\* FactsAwaited: the fact of the process cleanup is among those written.
LEMMA CleanupFactReached ==
  ASSUME NEW x, Fits(x), x.physical \in {"facts", "factsFailed"},
         \A i \in DOMAIN x.queued : x.queued[i] # x.cleanupFact
  PROVE  \A p : p \in {"done", "failed"} =>
            Reached(x.cleanupFact, x.written, x.next, x.admitted, p)
  <1>1. /\ Reached(x.cleanupFact, x.written, x.next, x.admitted, x.physical)
        /\ Counted(x.pending, x.queued, x.written, x.next, x.admitted, x.session)
    BY DEF Fits, Sound, FactsFollow
  <1>2. x.cleanupFact \in Nat /\ x.cleanupFact < x.next /\ x.next \in Nat
    BY <1>1 DEF Reached, Counted
  <1>3. CASE x.cleanupFact = 0
    BY <1>2, <1>3 DEF Reached
  <1>4. CASE x.cleanupFact # 0
    <2>1. x.admitted = TRUE
      BY <1>1, <1>4 DEF Reached, Fits, Sound, Flags
    <2>2. x.session = "open"
      BY <2>1 DEF Fits, Sound, Shaped, SpawnFollows, WorkerFollows, CleanupFollows, WorkerIsOver
    <2>3. Counted(x.pending, x.queued, x.written, x.next, TRUE, "open")
      BY <1>1, <2>1, <2>2
    <2>4. x.cleanupFact \in 1 .. x.next - 1
      BY <1>2, <1>4
    <2>5. x.cleanupFact <= Len(x.written)
      BY <2>3, <2>4, FactReached
    <2>. QED
      BY <1>2, <2>1, <2>5 DEF Reached
  <1>. QED
    BY <1>3, <1>4

-----------------------------------------------------------------------------
(* What the methods do to a run that fits.                                 *)

\* The shape of a record is in sight while its fields are followed.
USE DEF Fits, Sound, Shaped, Fields, ToWorker, ToHost, Boots, Waits, Terminals, Over, Unopened, Gone

\* RecordExecutionControl keeps everything but the numbers.
LEMMA RecordFits ==
  ASSUME NEW x, Sound(x)
  PROVE  LET y == RecordExecutionControl(x)
         IN  Sound(y) /\ Later(x, y)
  <1> DEFINE y == RecordExecutionControl(x)
  <1> USE DEF RecordExecutionControl
  <1>1. /\ Shaped(y) /\ Flags(y) /\ SpawnFollows(y) /\ WorkerFollows(y) /\ SettlementFollows(y)
        /\ CleanupFollows(y) /\ Later(x, y)
    BY DEF Flags, SpawnFollows, WorkerFollows, SettlementFollows, CleanupFollows,
      StartupComplete, WorkerIsOver, Later
  <1>2. FactsFollow(y)
    <2>1. /\ y.pending = IF x.admitted THEN x.pending ELSE Append(x.pending, x.next)
          /\ y.queued = IF x.admitted THEN Append(x.queued, x.next) ELSE x.queued
          /\ y.written = x.written /\ y.next = x.next + 1 /\ y.admitted = x.admitted
          /\ y.session = x.session /\ y.cleanupFact = x.cleanupFact
          /\ y.physical = x.physical
      OBVIOUS
    <2>2. FactsFollow(x) /\ x.admitted \in BOOLEAN
      BY DEF Flags, SpawnFollows
    <2>. HIDE DEF y, Fits, Sound
    <2>. QED
      BY <2>1, <2>2, FactsRecorded DEF FactsFollow
  <1>. QED
    BY <1>1, <1>2

\* A message that is sent, or dropped by a Worker that is gone, settles nothing.
LEMMA SendFits ==
  ASSUME NEW x, Sound(x), NEW m \in {"cancel", "ack"}, x.worker # "none"
  PROVE  LET y == Send(x, m)
         IN  Sound(y) /\ Later(x, y)
  BY DEF Flags, SpawnFollows, WorkerFollows, SettlementFollows, CleanupFollows,
    StartupComplete, WorkerIsOver, FactsFollow, Reached, Later, Send

\* supervisor.terminate: the Worker is gone with its messages, and who waited is rejected.
LEMMA TerminatedFits ==
  ASSUME NEW x, Fits(x), x.worker # "none"
  PROVE  LET y == Terminated(x)
         IN  Fits(y) /\ Later(x, y)
  BY NoMessages DEF Flags, SpawnFollows, WorkerFollows, SettlementFollows, CleanupFollows,
    StartupComplete, WorkerIsOver, FactsFollow, Reached, CancelFollows, Later, Terminated

\* terminateWorker without grace.
LEMMA TerminateFits ==
  ASSUME NEW x, Fits(x)
  PROVE  LET y == TerminateWorker(x, FALSE)
         IN  Fits(y) /\ Later(x, y)
  BY MessageSent, NoMessages DEF Flags, SpawnFollows, WorkerFollows, SettlementFollows,
    CleanupFollows, StartupComplete, WorkerIsOver, FactsFollow, Reached, CancelFollows, Later,
    TerminateWorker, Send, Terminated

\* terminateWorker with grace: only a run that has its terminal is closed that way.
LEMMA CloseFits ==
  ASSUME NEW x, Fits(x), x.terminal # "none"
  PROVE  LET y == TerminateWorker(x, TRUE)
         IN  Fits(y) /\ Later(x, y)
  BY MessageSent, NoMessages DEF Flags, SpawnFollows, WorkerFollows, SettlementFollows,
    CleanupFollows, StartupComplete, WorkerIsOver, FactsFollow, Reached, CancelFollows, Later,
    TerminateWorker, Send, Terminated

\* completeLocal of a run whose spawn is over; what is called durable is what Data has.
LEMMA CompleteFits ==
  ASSUME NEW x, Fits(x), NEW t \in Terminals, NEW d \in BOOLEAN, NEW g \in BOOLEAN,
         x.spawn \in Over, d => x.terminal # "none" \/ x.exec \in {t, "none"}
  PROVE  LET y == CompleteLocal(x, t, d, g)
         IN  Fits(y) /\ Later(x, y)
  <1> DEFINE y == CompleteLocal(x, t, d, g)
  <1> USE DEF CompleteLocal, TerminateWorker, Send, Terminated
  <1>1. /\ Shaped(y) /\ Flags(y)
    BY DEF Flags
  <1>2. /\ SpawnFollows(y) /\ WorkerFollows(y) /\ SettlementFollows(y) /\ CleanupFollows(y)
        /\ Later(x, y)
    <2>1. SpawnFollows(y)
      BY DEF SpawnFollows, SettlementFollows, WorkerFollows
    <2>2. WorkerFollows(y)
      BY DEF WorkerFollows, SpawnFollows, SettlementFollows
    <2>3. SettlementFollows(y)
      BY DEF SettlementFollows, SpawnFollows
    <2>4. CleanupFollows(y)
      BY DEF CleanupFollows, StartupComplete, WorkerIsOver, SpawnFollows,
         WorkerFollows, SettlementFollows
    <2>5. Later(x, y)
      BY DEF Later, WorkerFollows
    <2>. QED
      BY <2>1, <2>2, <2>3, <2>4, <2>5
  <1>3. /\ FactsFollow(y) /\ CancelFollows(y)
    BY MessageSent, NoMessages DEF FactsFollow, Reached, SpawnFollows, WorkerFollows,
      CancelFollows, SettlementFollows
  <1>. QED
    BY <1>1, <1>2, <1>3

\* cancelRequested by itself promises nothing yet.
LEMMA AskedSound ==
  ASSUME NEW x, Sound(x)
  PROVE  LET y == [x EXCEPT !.cancelRequested = TRUE]
         IN  Sound(y) /\ Later(x, y)
  BY DEF Flags, SpawnFollows, WorkerFollows, SettlementFollows, CleanupFollows,
    StartupComplete, WorkerIsOver, FactsFollow, Reached, Later

\* cancelRecorded comes with it.
LEMMA RecordedSound ==
  ASSUME NEW x, Sound(x)
  PROVE  LET y == [x EXCEPT !.cancelRequested = TRUE, !.cancelRecorded = TRUE]
         IN  Sound(y) /\ Later(x, y)
  BY DEF Flags, SpawnFollows, WorkerFollows, SettlementFollows, CleanupFollows,
    StartupComplete, WorkerIsOver, FactsFollow, Reached, Later

\* cancelSent as well.
LEMMA SentSound ==
  ASSUME NEW x, Sound(x)
  PROVE  LET y == [x EXCEPT !.cancelSent = TRUE]
         IN  Sound(y) /\ Later(x, y)
  BY DEF Flags, SpawnFollows, WorkerFollows, SettlementFollows, CleanupFollows,
    StartupComplete, WorkerIsOver, FactsFollow, Reached, Later

-----------------------------------------------------------------------------
(* What the handlers do to a run that fits.                                *)

\* Spawn: the look-up of the account, or the open at once.
LEMMA SpawnFits ==
  ASSUME NEW x, Fits(x), NEW n \in {"account", "opening"}, x.spawn = "idle"
  PROVE  LET y == [x EXCEPT !.spawn = n]
         IN  Fits(y) /\ Later(x, y)
  BY DEF Flags, SpawnFollows, WorkerFollows, SettlementFollows, CleanupFollows,
    StartupComplete, WorkerIsOver, FactsFollow, Reached, CancelFollows, Later

\* AccountKnown: the Session is opened next.
LEMMA AccountFits ==
  ASSUME NEW x, Fits(x), x.spawn = "account"
  PROVE  LET y == [x EXCEPT !.spawn = "opening"]
         IN  Fits(y) /\ Later(x, y)
  BY DEF Flags, SpawnFollows, WorkerFollows, SettlementFollows, CleanupFollows,
    StartupComplete, WorkerIsOver, FactsFollow, Reached, CancelFollows, Later

\* SessionOpened, when the run was cancelled meanwhile.
LEMMA OpenStopsFits ==
  ASSUME NEW x, Fits(x), x.spawn = "opening"
  PROVE  LET y == [SettleUnstartedTerminal([x EXCEPT !.session = "open"], "cancelled")
                    EXCEPT !.spawn = "local"]
         IN  Fits(y) /\ Later(x, y)
  <1> DEFINE y == [SettleUnstartedTerminal([x EXCEPT !.session = "open"], "cancelled")
                    EXCEPT !.spawn = "local"]
  <1> USE DEF SettleUnstartedTerminal, CompleteLocal, TerminateWorker, Send, Terminated
  <1>1. Shaped(y)
    OBVIOUS
  <1>2. Flags(y)
    <2>1. /\ y.addressable = x.addressable /\ y.admitted = x.admitted
          /\ y.admissionError = x.admissionError /\ y.forced = x.forced /\ y.started = x.started
      BY DEF SpawnFollows, SettlementFollows
    <2>2. /\ y.portClosed = x.portClosed /\ y.heard = x.heard
          /\ y.cancelRequested = x.cancelRequested /\ y.cancelRecorded = x.cancelRecorded
          /\ y.cancelSent = x.cancelSent
        /\ y.executionRefused = x.executionRefused
      BY DEF SpawnFollows, SettlementFollows
    <2>3. y.attempted = TRUE
      BY DEF SpawnFollows, SettlementFollows
    <2>4. y.durable = TRUE
      BY DEF SpawnFollows, SettlementFollows
    <2>. HIDE DEF y
    <2>. QED
      BY <2>1, <2>2, <2>3, <2>4 DEF Flags
  <1>3. /\ SpawnFollows(y) /\ SettlementFollows(y) /\ Later(x, y)
    <2>1. SpawnFollows(y)
      BY DEF SpawnFollows, SettlementFollows, WorkerFollows
    <2>2. SettlementFollows(y)
      BY DEF SettlementFollows, SpawnFollows
    <2>3. Later(x, y)
      BY DEF Later, WorkerFollows
    <2>. QED
      BY <2>1, <2>2, <2>3
  <1>4. /\ WorkerFollows(y) /\ CleanupFollows(y)
    <2>1. WorkerFollows(y)
      BY DEF WorkerFollows, SpawnFollows, SettlementFollows
    <2>2. CleanupFollows(y)
      BY DEF CleanupFollows, StartupComplete, WorkerIsOver, SpawnFollows,
         WorkerFollows, SettlementFollows
    <2>. QED
      BY <2>1, <2>2
  <1>5. FactsFollow(y)
    BY FactsKept DEF FactsFollow, Reached, SpawnFollows, WorkerFollows
  <1>6. CancelFollows(y)
    BY MessageSent, NoMessages DEF CancelFollows, SpawnFollows, WorkerFollows,
      SettlementFollows
  <1>. QED
    BY <1>1, <1>2, <1>3, <1>4, <1>5, <1>6

\* SessionOpened: the Worker is created.
LEMMA OpenedFits ==
  ASSUME NEW x, Fits(x), x.spawn = "opening"
  PROVE  LET y == [x EXCEPT !.session = "open", !.worker = "booting", !.spawn = "capacity"]
         IN  Fits(y)
  BY FactsKept DEF Flags, SpawnFollows, WorkerFollows, SettlementFollows, CleanupFollows,
    StartupComplete, WorkerIsOver, FactsFollow, Reached, CancelFollows

\* OpenRefused: the run has neither a Session nor a Worker.
LEMMA RefusedFits ==
  ASSUME NEW x, Fits(x), x.spawn = "opening"
  PROVE  LET y == [x EXCEPT !.spawn = "refused", !.admissionError = TRUE, !.addressable = FALSE]
         IN  Fits(y) /\ Later(x, y)
  BY DEF Flags, SpawnFollows, WorkerFollows, SettlementFollows, CleanupFollows,
    StartupComplete, WorkerIsOver, FactsFollow, Reached, CancelFollows, Later

\* CapacityKnown: start() registers its waiter.
LEMMA CapacityFits ==
  ASSUME NEW x, Fits(x), x.spawn = "capacity"
  PROVE  LET y == [x EXCEPT !.spawn = "booting"]
         IN  Fits(y) /\ Later(x, y)
  BY DEF Flags, SpawnFollows, WorkerFollows, SettlementFollows, CleanupFollows,
    StartupComplete, WorkerIsOver, FactsFollow, Reached, CancelFollows, Later

\* A start that was rejected or came too late settles the run.
LEMMA UnstartedFits ==
  ASSUME NEW x, Fits(x), NEW t \in Terminals, x.spawn \in {"booting", "thrown"}
  PROVE  LET y == [SettleUnstartedTerminal(x, t) EXCEPT !.spawn = "local"]
         IN  Fits(y) /\ Later(x, y)
  <1> DEFINE y == [SettleUnstartedTerminal(x, t) EXCEPT !.spawn = "local"]
  <1> USE DEF SettleUnstartedTerminal, CompleteLocal, TerminateWorker, Send, Terminated
  <1>1. y.worker = "terminated" /\ y.toHost = << >> /\ y.toWorker = << >>
    BY DEF SpawnFollows, WorkerFollows, SettlementFollows
  <1>2. y.physical \notin {"none", "closing"} /\ y.terminal # "none"
    BY DEF SpawnFollows, WorkerFollows, SettlementFollows
  <1>3. Shaped(y)
    OBVIOUS
  <1>4. Flags(y)
    <2>1. /\ y.addressable = x.addressable /\ y.admitted = x.admitted
          /\ y.admissionError = x.admissionError /\ y.forced = x.forced /\ y.started = x.started
      BY DEF SpawnFollows, SettlementFollows
    <2>2. /\ y.portClosed = x.portClosed /\ y.heard = x.heard
          /\ y.cancelRequested = x.cancelRequested /\ y.cancelRecorded = x.cancelRecorded
          /\ y.cancelSent = x.cancelSent
        /\ y.executionRefused = x.executionRefused
      BY DEF SpawnFollows, SettlementFollows
    <2>3. y.attempted = TRUE
      BY DEF SpawnFollows, SettlementFollows
    <2>4. y.durable = TRUE
      BY DEF SpawnFollows, SettlementFollows
    <2>. HIDE DEF y
    <2>. QED
      BY <2>1, <2>2, <2>3, <2>4 DEF Flags
  <1>5. /\ SpawnFollows(y) /\ SettlementFollows(y) /\ Later(x, y)
    <2>1. SpawnFollows(y)
      BY DEF SpawnFollows, SettlementFollows, WorkerFollows
    <2>2. SettlementFollows(y)
      BY DEF SettlementFollows, SpawnFollows
    <2>3. Later(x, y)
      BY DEF Later, WorkerFollows
    <2>. QED
      BY <2>1, <2>2, <2>3
  <1>6. /\ WorkerFollows(y) /\ CleanupFollows(y)
    <2>1. WorkerFollows(y)
      BY <1>1, <1>2 DEF WorkerFollows, SpawnFollows, SettlementFollows
    <2>2. CleanupFollows(y)
      BY <1>1, <1>2 DEF CleanupFollows, StartupComplete, WorkerIsOver, SpawnFollows,
         WorkerFollows, SettlementFollows
    <2>. QED
      BY <2>1, <2>2
  <1>7. FactsFollow(y)
    BY DEF FactsFollow, Reached, SpawnFollows, WorkerFollows
  <1>8. CancelFollows(y)
    BY <1>1, <1>2, MessageSent, NoMessages DEF CancelFollows, SpawnFollows, WorkerFollows,
      SettlementFollows
  <1>. QED
    BY <1>3, <1>4, <1>5, <1>6, <1>7, <1>8

\* StartFailed: the configuration of the child is wrong.
LEMMA ConfigFits ==
  ASSUME NEW x, Fits(x), x.spawn = "booting"
  PROVE  LET y == [CompleteLocal(x, "failed", TRUE, FALSE) EXCEPT !.spawn = "local"]
         IN  Fits(y) /\ Later(x, y)
  <1> DEFINE y == [CompleteLocal(x, "failed", TRUE, FALSE) EXCEPT !.spawn = "local"]
  <1> USE DEF CompleteLocal, TerminateWorker, Send, Terminated
  <1>1. y.worker = "terminated" /\ y.toHost = << >> /\ y.toWorker = << >>
    BY DEF SpawnFollows, WorkerFollows, SettlementFollows
  <1>2. y.physical \notin {"none", "closing"} /\ y.terminal # "none"
    BY DEF SpawnFollows, WorkerFollows, SettlementFollows
  <1>3. Shaped(y)
    OBVIOUS
  <1>4. Flags(y)
    <2>1. /\ y.addressable = x.addressable /\ y.admitted = x.admitted
          /\ y.admissionError = x.admissionError /\ y.attempted = x.attempted
          /\ y.forced = x.forced
      BY DEF SpawnFollows, SettlementFollows
    <2>2. /\ y.started = x.started /\ y.portClosed = x.portClosed /\ y.heard = x.heard
          /\ y.cancelRequested = x.cancelRequested /\ y.cancelRecorded = x.cancelRecorded
          /\ y.cancelSent = x.cancelSent
        /\ y.executionRefused = x.executionRefused
      BY DEF SpawnFollows, SettlementFollows
    <2>3. y.durable = TRUE
      BY DEF SpawnFollows, SettlementFollows
    <2>. HIDE DEF y
    <2>. QED
      BY <2>1, <2>2, <2>3 DEF Flags
  <1>5. /\ SpawnFollows(y) /\ WorkerFollows(y) /\ SettlementFollows(y) /\ CleanupFollows(y)
        /\ Later(x, y)
    <2>1. SpawnFollows(y)
      BY <1>1, <1>2 DEF SpawnFollows, SettlementFollows, WorkerFollows
    <2>2. WorkerFollows(y)
      BY <1>1, <1>2 DEF WorkerFollows, SpawnFollows, SettlementFollows
    <2>3. SettlementFollows(y)
      BY <1>1, <1>2 DEF SettlementFollows, SpawnFollows
    <2>4. CleanupFollows(y)
      BY <1>1, <1>2 DEF CleanupFollows, StartupComplete, WorkerIsOver, SpawnFollows,
         WorkerFollows, SettlementFollows
    <2>5. Later(x, y)
      BY <1>1, <1>2 DEF Later, WorkerFollows
    <2>. QED
      BY <2>1, <2>2, <2>3, <2>4, <2>5
  <1>6. /\ FactsFollow(y) /\ CancelFollows(y)
    BY <1>1, <1>2, MessageSent, NoMessages DEF FactsFollow, Reached, SpawnFollows,
      WorkerFollows, CancelFollows, SettlementFollows
  <1>. QED
    BY <1>3, <1>4, <1>5, <1>6

\* StartFailed: the child has no tool it may use.
LEMMA FilterFits ==
  ASSUME NEW x, Fits(x), x.spawn = "booting"
  PROVE  LET y == [FinishWithoutData(x, "failed") EXCEPT !.spawn = "ok"]
         IN  Fits(y) /\ Later(x, y)
  <1> DEFINE y == [FinishWithoutData(x, "failed") EXCEPT !.spawn = "ok"]
  <1> USE DEF FinishWithoutData, BeginSeal, TerminateWorker, Send, Terminated, CompleteLocal
  <1>1. y.worker = "terminated" /\ y.toHost = << >> /\ y.toWorker = << >>
    BY DEF SpawnFollows, WorkerFollows, SettlementFollows
  <1>2. y.physical \notin {"none", "closing"} /\ y.terminal # "none"
    BY DEF SpawnFollows, WorkerFollows, SettlementFollows
  <1>3. Shaped(y)
    OBVIOUS
  <1>4. Flags(y)
    <2>1. /\ y.addressable = x.addressable /\ y.admitted = x.admitted
          /\ y.admissionError = x.admissionError /\ y.attempted = x.attempted
          /\ y.forced = x.forced
      BY DEF SpawnFollows, SettlementFollows
    <2>2. /\ y.started = x.started /\ y.portClosed = x.portClosed /\ y.heard = x.heard
          /\ y.cancelRequested = x.cancelRequested /\ y.cancelRecorded = x.cancelRecorded
          /\ y.cancelSent = x.cancelSent
        /\ y.executionRefused = x.executionRefused
      BY DEF SpawnFollows, SettlementFollows
    <2>3. y.durable = TRUE
      BY DEF SpawnFollows, SettlementFollows
    <2>. HIDE DEF y
    <2>. QED
      BY <2>1, <2>2, <2>3 DEF Flags
  <1>5. /\ SpawnFollows(y) /\ SettlementFollows(y) /\ Later(x, y)
    <2>1. SpawnFollows(y)
      BY DEF SpawnFollows, SettlementFollows, WorkerFollows
    <2>2. SettlementFollows(y)
      BY DEF SettlementFollows, SpawnFollows
    <2>3. Later(x, y)
      BY DEF Later, WorkerFollows
    <2>. QED
      BY <2>1, <2>2, <2>3
  <1>6. /\ WorkerFollows(y) /\ CleanupFollows(y)
    <2>1. WorkerFollows(y)
      BY <1>1, <1>2 DEF WorkerFollows, SpawnFollows, SettlementFollows
    <2>2. CleanupFollows(y)
      BY <1>1, <1>2 DEF CleanupFollows, StartupComplete, WorkerIsOver, SpawnFollows,
         WorkerFollows, SettlementFollows
    <2>. QED
      BY <2>1, <2>2
  <1>7. FactsFollow(y)
    BY DEF FactsFollow, Reached, SpawnFollows, WorkerFollows
  <1>8. CancelFollows(y)
    BY <1>1, <1>2, MessageSent, NoMessages DEF CancelFollows, SpawnFollows, WorkerFollows,
      SettlementFollows
  <1>. QED
    BY <1>3, <1>4, <1>5, <1>6, <1>7, <1>8

\* DataAdmits: Data has the execution, the registry has yet to hear of it.
LEMMA AdmitsFits ==
  ASSUME NEW x, Fits(x), x.spawn = "admitting"
  PROVE  LET y == [x EXCEPT !.exec = "admitted", !.spawn = "answered"]
         IN  Fits(y) /\ Later(x, y)
  BY DEF Flags, SpawnFollows, WorkerFollows, SettlementFollows, CleanupFollows,
    StartupComplete, WorkerIsOver, FactsFollow, Reached, CancelFollows, Later

\* DataAdmits: Data refuses the execution.
LEMMA RejectsFits ==
  ASSUME NEW x, Fits(x), x.spawn = "admitting"
  PROVE  LET y == [x EXCEPT !.spawn = "rejected", !.executionRefused = TRUE]
         IN  Fits(y) /\ Later(x, y)
  BY DEF Flags, SpawnFollows, WorkerFollows, SettlementFollows, CleanupFollows,
    StartupComplete, WorkerIsOver, FactsFollow, Reached, CancelFollows, Later

\* FlushPendingExecutionControls, when the run is then stopped.
LEMMA AdmittedFits ==
  ASSUME NEW x, Fits(x), x.spawn = "answered"
  PROVE  LET y == [FlushPendingExecutionControls(x) EXCEPT !.spawn = "refused"]
         IN  Fits(y) /\ Later(x, y)
  <1> DEFINE y == [FlushPendingExecutionControls(x) EXCEPT !.spawn = "refused"]
  <1> USE DEF FlushPendingExecutionControls
  <1>1. Shaped(y)
    OBVIOUS
  <1>2. Flags(y)
    BY DEF Flags
  <1>3. SpawnFollows(y)
    BY DEF SpawnFollows
  <1>4. WorkerFollows(y)
    BY DEF WorkerFollows, SpawnFollows
  <1>5. SettlementFollows(y)
    BY DEF SettlementFollows, SpawnFollows
  <1>6. CleanupFollows(y)
    BY DEF CleanupFollows, StartupComplete, WorkerIsOver, SpawnFollows, WorkerFollows,
      SettlementFollows
  <1>7. FactsFollow(y)
    <2>1. /\ y.pending = << >> /\ y.queued = x.queued \o x.pending /\ y.written = x.written
          /\ y.next = x.next /\ y.admitted = TRUE /\ y.session = x.session
          /\ y.cleanupFact = x.cleanupFact /\ y.physical = x.physical
      OBVIOUS
    <2>2. FactsFollow(x) /\ x.admitted = FALSE
      BY DEF Flags, SpawnFollows
    <2>3. Counted(x.pending, x.queued, x.written, x.next, FALSE, x.session)
      BY <2>2 DEF FactsFollow
    <2>4. Counted(<< >>, x.queued \o x.pending, x.written, x.next, TRUE, x.session)
      BY <2>3, FactsReleased
    <2>5. Reached(x.cleanupFact, x.written, x.next, TRUE, x.physical)
      BY <2>2 DEF FactsFollow, Reached
    <2>. HIDE DEF y, Fits, Sound
    <2>. QED
      BY <2>1, <2>4, <2>5 DEF FactsFollow
  <1>8. CancelFollows(y)
    BY DEF CancelFollows, SpawnFollows, WorkerFollows, SettlementFollows
  <1>9. Later(x, y)
    BY DEF Later, WorkerFollows
  <1>. QED
    BY <1>1, <1>2, <1>3, <1>4, <1>5, <1>6, <1>7, <1>8, <1>9

\* Admitted: the facts held back are queued and the turn is sent.
LEMMA AdmittedGoes ==
  ASSUME NEW x, Fits(x), x.spawn = "answered", ~x.cancelRequested
  PROVE  LET y == [Send(FlushPendingExecutionControls(x), "turn") EXCEPT !.spawn = "ok"]
         IN  Fits(y) /\ Later(x, y)
  <1> DEFINE y == [Send(FlushPendingExecutionControls(x), "turn") EXCEPT !.spawn = "ok"]
  <1> USE DEF Send, FlushPendingExecutionControls
  <1>1. Shaped(y)
    OBVIOUS
  <1>2. Flags(y)
    BY DEF Flags
  <1>3. SpawnFollows(y)
    BY DEF SpawnFollows
  <1>4. WorkerFollows(y)
    BY DEF WorkerFollows, SpawnFollows
  <1>5. SettlementFollows(y)
    BY DEF SettlementFollows, SpawnFollows
  <1>6. CleanupFollows(y)
    BY DEF CleanupFollows, StartupComplete, WorkerIsOver, SpawnFollows, WorkerFollows,
      SettlementFollows
  <1>7. FactsFollow(y)
    <2>1. /\ y.pending = << >> /\ y.queued = x.queued \o x.pending /\ y.written = x.written
          /\ y.next = x.next /\ y.admitted = TRUE /\ y.session = x.session
          /\ y.cleanupFact = x.cleanupFact /\ y.physical = x.physical
      OBVIOUS
    <2>2. FactsFollow(x) /\ x.admitted = FALSE
      BY DEF Flags, SpawnFollows
    <2>. HIDE DEF y, Fits, Sound
    <2>. QED
      BY <2>1, <2>2, FactsReleased DEF FactsFollow, Reached
  <1>8. CancelFollows(y)
    BY MessageSent DEF CancelFollows, SpawnFollows, WorkerFollows, SettlementFollows
  <1>9. Later(x, y)
    BY DEF Later, WorkerFollows
  <1>. QED
    BY <1>1, <1>2, <1>3, <1>4, <1>5, <1>6, <1>7, <1>8, <1>9

\* AdmissionRejected: the run is interrupted without Data.
LEMMA RejectedFits ==
  ASSUME NEW x, Fits(x), x.spawn = "rejected"
  PROVE  LET y == [FinishWithoutData(x, "interrupted") EXCEPT !.spawn = "refused"]
         IN  Fits(y) /\ Later(x, y)
  <1> DEFINE y == [FinishWithoutData(x, "interrupted") EXCEPT !.spawn = "refused"]
  <1> USE DEF FinishWithoutData, BeginSeal, TerminateWorker, Send, Terminated, CompleteLocal
  <1>1. Shaped(y)
    OBVIOUS
  <1>2. Flags(y)
    <2>1. /\ y.addressable = x.addressable /\ y.admitted = x.admitted
          /\ y.admissionError = x.admissionError /\ y.attempted = x.attempted
          /\ y.forced = x.forced
      BY DEF SpawnFollows, SettlementFollows
    <2>2. /\ y.started = x.started /\ y.portClosed = x.portClosed /\ y.heard = x.heard
          /\ y.cancelRequested = x.cancelRequested /\ y.cancelRecorded = x.cancelRecorded
          /\ y.cancelSent = x.cancelSent
        /\ y.executionRefused = x.executionRefused
      BY DEF SpawnFollows, SettlementFollows
    <2>3. y.durable = TRUE
      BY DEF SpawnFollows, SettlementFollows
    <2>. HIDE DEF y
    <2>. QED
      BY <2>1, <2>2, <2>3 DEF Flags
  <1>3. /\ SpawnFollows(y) /\ SettlementFollows(y) /\ Later(x, y)
    <2>1. SpawnFollows(y)
      BY DEF SpawnFollows, SettlementFollows, WorkerFollows
    <2>2. SettlementFollows(y)
      BY DEF SettlementFollows, SpawnFollows
    <2>3. Later(x, y)
      BY DEF Later, WorkerFollows
    <2>. QED
      BY <2>1, <2>2, <2>3
  <1>4. /\ WorkerFollows(y) /\ CleanupFollows(y)
    <2>1. WorkerFollows(y)
      BY DEF WorkerFollows, SpawnFollows, SettlementFollows
    <2>2. CleanupFollows(y)
      BY DEF CleanupFollows, StartupComplete, WorkerIsOver, SpawnFollows,
         WorkerFollows, SettlementFollows
    <2>. QED
      BY <2>1, <2>2
  <1>5. FactsFollow(y)
    BY DEF FactsFollow, Reached, SpawnFollows, WorkerFollows
  <1>6. CancelFollows(y)
    BY MessageSent, NoMessages DEF CancelFollows, SpawnFollows, WorkerFollows,
      SettlementFollows
  <1>. QED
    BY <1>1, <1>2, <1>3, <1>4, <1>5, <1>6

\* LocalSettled: the spawn answers.
LEMMA LocalFits ==
  ASSUME NEW x, Fits(x), x.spawn = "local"
  PROVE  LET y == [x EXCEPT !.spawn = "refused"]
         IN  Fits(y) /\ Later(x, y)
  BY DEF Flags, SpawnFollows, WorkerFollows, SettlementFollows, CleanupFollows,
    StartupComplete, WorkerIsOver, FactsFollow, Reached, CancelFollows, Later

\* WorkerBoots: the Worker is ready, its first message.
LEMMA ReadyFits ==
  ASSUME NEW x, Fits(x), x.worker = "booting", x.spawn = "booting"
  PROVE  LET y == [x EXCEPT !.worker = "idle", !.toHost = Append(@, "ready")]
         IN  Fits(y) /\ Later(x, y)
  BY DEF Flags, SpawnFollows, WorkerFollows, SettlementFollows, CleanupFollows,
    StartupComplete, WorkerIsOver, FactsFollow, Reached, CancelFollows, Later

\* WorkerBoots: the Worker reports why it ends.
LEMMA BootFailsFits ==
  ASSUME NEW x, Fits(x), NEW why \in {"config", "filter", "boot"}, x.worker = "booting",
         x.spawn = "booting"
  PROVE  LET y == [x EXCEPT !.worker = "ended", !.toHost = Append(@, why)]
         IN  Fits(y) /\ Later(x, y)
  BY DEF Flags, SpawnFollows, WorkerFollows, SettlementFollows, CleanupFollows,
    StartupComplete, WorkerIsOver, FactsFollow, Reached, CancelFollows, Later

\* WorkerReceives a turn: a cancel that was asked for is still behind it.
LEMMA TurnFits ==
  ASSUME NEW x, Fits(x), x.toWorker # << >>, x.worker \in {"idle", "running", "waiting"},
         Head(x.toWorker) = "turn", ~x.portClosed
  PROVE  LET y == [[x EXCEPT !.toWorker = Tail(@)] EXCEPT !.worker = "running"]
         IN  Fits(y) /\ Later(x, y)
  BY MessageTaken DEF Flags, SpawnFollows, WorkerFollows, CancelFollows, SettlementFollows,
    CleanupFollows, StartupComplete, WorkerIsOver, FactsFollow, Reached, Later

\* WorkerReceives a turn after its port was closed.
LEMMA TurnErrsFits ==
  ASSUME NEW x, Fits(x), x.toWorker # << >>, x.worker \in {"idle", "running", "waiting"},
         Head(x.toWorker) = "turn", x.portClosed
  PROVE  LET y == [[x EXCEPT !.toWorker = Tail(@)] EXCEPT !.toHost = Append(@, "error")]
         IN  Fits(y) /\ Later(x, y)
  <1> DEFINE y == [[x EXCEPT !.toWorker = Tail(@)] EXCEPT !.toHost = Append(@, "error")]
  <1>1. Shaped(y)
    OBVIOUS
  <1>2. Flags(y)
    BY DEF Flags
  <1>3. SpawnFollows(y)
    BY DEF SpawnFollows
  <1>4. WorkerFollows(y)
    BY DEF WorkerFollows, SpawnFollows
  <1>5. SettlementFollows(y)
    BY DEF SettlementFollows, SpawnFollows
  <1>6. CleanupFollows(y)
    BY DEF CleanupFollows, StartupComplete, WorkerIsOver, SpawnFollows, WorkerFollows,
      SettlementFollows
  <1>7. FactsFollow(y)
    BY DEF FactsFollow, Reached, SpawnFollows, WorkerFollows
  <1>8. CancelFollows(y)
    BY MessageTaken DEF CancelFollows, SpawnFollows, WorkerFollows, SettlementFollows
  <1>9. Later(x, y)
    BY DEF Later, WorkerFollows
  <1>. QED
    BY <1>1, <1>2, <1>3, <1>4, <1>5, <1>6, <1>7, <1>8, <1>9

\* WorkerReceives a cancel: the turn that runs has heard it.
LEMMA CancelFits ==
  ASSUME NEW x, Fits(x), x.toWorker # << >>, x.worker \in {"idle", "running", "waiting"},
         Head(x.toWorker) = "cancel"
  PROVE  LET y == [[x EXCEPT !.toWorker = Tail(@)] EXCEPT !.heard = @ \/ x.worker = "running",
                    !.toHost = Append(@, "cancel_received")]
         IN  Fits(y) /\ Later(x, y)
  <1> DEFINE y == [[x EXCEPT !.toWorker = Tail(@)] EXCEPT !.heard = @ \/ x.worker = "running",
                    !.toHost = Append(@, "cancel_received")]
  <1>1. x.worker = "running" => y.heard
    BY DEF SpawnFollows, WorkerFollows, SettlementFollows
  <1>2. /\ Shaped(y) /\ Flags(y) /\ SpawnFollows(y) /\ WorkerFollows(y) /\ SettlementFollows(y)
        /\ CleanupFollows(y) /\ FactsFollow(y) /\ CancelFollows(y) /\ Later(x, y)
    BY <1>1, MessageTaken DEF Flags, SpawnFollows, WorkerFollows, SettlementFollows,
      CleanupFollows, StartupComplete, WorkerIsOver, FactsFollow, Reached, CancelFollows, Later
  <1>. QED
    BY <1>2

\* WorkerReceives the acknowledgement of its commit.
LEMMA AckFits ==
  ASSUME NEW x, Fits(x), x.toWorker # << >>, x.worker \in {"idle", "running", "waiting"},
         Head(x.toWorker) = "ack"
  PROVE  LET y == [[x EXCEPT !.toWorker = Tail(@)] EXCEPT !.worker = "idle",
                    !.toHost = Append(@, "turn_settled")]
         IN  Fits(y) /\ Later(x, y)
  BY MessageTaken DEF Flags, SpawnFollows, WorkerFollows, SettlementFollows, CleanupFollows,
    StartupComplete, WorkerIsOver, FactsFollow, Reached, CancelFollows, Later

\* WorkerReceives a close: the run has its terminal.
LEMMA CloseReadFits ==
  ASSUME NEW x, Fits(x), x.toWorker # << >>, x.worker \in {"idle", "running", "waiting"},
         Head(x.toWorker) = "close"
  PROVE  LET y == [[x EXCEPT !.toWorker = Tail(@)] EXCEPT !.worker = "ended",
                    !.toHost = Append(@, "closed")]
         IN  Fits(y) /\ Later(x, y)
  BY MessageTaken DEF Flags, SpawnFollows, WorkerFollows, CancelFollows, SettlementFollows,
    CleanupFollows, StartupComplete, WorkerIsOver, FactsFollow, Reached, Later

\* WorkerFinishes with a proposal or a failure.
LEMMA FinishesFits ==
  ASSUME NEW x, Fits(x), NEW m \in {"proposal", "failure"}, x.worker = "running"
  PROVE  LET y == [x EXCEPT !.worker = "waiting", !.toHost = Append(@, m)]
         IN  Fits(y) /\ Later(x, y)
  BY DEF Flags, SpawnFollows, WorkerFollows, SettlementFollows, CleanupFollows,
    StartupComplete, WorkerIsOver, FactsFollow, Reached, CancelFollows, Later

\* WorkerFinishes with an error.
LEMMA FinishErrsFits ==
  ASSUME NEW x, Fits(x), x.worker = "running"
  PROVE  LET y == [x EXCEPT !.worker = "idle", !.toHost = Append(@, "error")]
         IN  Fits(y) /\ Later(x, y)
  BY DEF Flags, SpawnFollows, WorkerFollows, SettlementFollows, CleanupFollows,
    StartupComplete, WorkerIsOver, FactsFollow, Reached, CancelFollows, Later

\* WorkerErrs: the port is closed, the Worker lives on.
LEMMA ErrsFits ==
  ASSUME NEW x, Fits(x), x.worker \in {"idle", "running", "waiting"}
  PROVE  LET y == [x EXCEPT !.portClosed = TRUE, !.toHost = Append(@, "error")]
         IN  Fits(y) /\ Later(x, y)
  BY DEF Flags, SpawnFollows, WorkerFollows, SettlementFollows, CleanupFollows,
    StartupComplete, WorkerIsOver, FactsFollow, Reached, CancelFollows, Later

\* RouteChildMessage takes a message.
LEMMA RouteFits ==
  ASSUME NEW x, Fits(x), x.toHost # << >>
  PROVE  LET y == [x EXCEPT !.toHost = Tail(@)]
         IN  Fits(y) /\ Later(x, y)
  BY DEF Flags, SpawnFollows, WorkerFollows, SettlementFollows, CleanupFollows,
    StartupComplete, WorkerIsOver, FactsFollow, Reached, CancelFollows, Later

\* Started, before it looks whether the run is to be stopped.
LEMMA StartedFits ==
  ASSUME NEW x, Fits(x)
  PROVE  LET y == [x EXCEPT !.started = TRUE]
         IN  Fits(y) /\ Later(x, y)
  BY DEF Flags, SpawnFollows, WorkerFollows, SettlementFollows, CleanupFollows,
    StartupComplete, WorkerIsOver, FactsFollow, Reached, CancelFollows, Later

\* Started: the boot is answered and the admission begins.
LEMMA StartedGoes ==
  ASSUME NEW x, Fits(x), x.spawn = "booting", x.worker = "idle",
         \A i \in DOMAIN x.toHost : x.toHost[i] \notin Boots
  PROVE  LET y == [x EXCEPT !.started = TRUE, !.spawn = "admitting"]
         IN  Fits(y) /\ Later(x, y)
  BY DEF Flags, SpawnFollows, WorkerFollows, SettlementFollows, CleanupFollows,
    StartupComplete, WorkerIsOver, FactsFollow, Reached, CancelFollows, Later

\* SettleChildMessage: one settlement, of an admitted run.
LEMMA MessageFits ==
  ASSUME NEW x, Fits(x), NEW m \in {"proposal", "failure"}
  PROVE  LET y == SettleChildMessage(x, m)
         IN  Fits(y) /\ Later(x, y)
  <1> DEFINE y == SettleChildMessage(x, m)
  <1> USE DEF SettleChildMessage
  <1>1. /\ Shaped(y) /\ SpawnFollows(y) /\ WorkerFollows(y) /\ SettlementFollows(y)
        /\ CleanupFollows(y) /\ FactsFollow(y) /\ CancelFollows(y) /\ Later(x, y)
    BY DEF SpawnFollows, WorkerFollows, SettlementFollows, CleanupFollows, StartupComplete,
      WorkerIsOver, FactsFollow, Reached, CancelFollows, Later
  <1>2. Flags(y)
    <2>1. /\ y.addressable = x.addressable /\ y.admitted = x.admitted
          /\ y.admissionError = x.admissionError /\ y.forced = x.forced /\ y.started = x.started
      BY DEF SpawnFollows, SettlementFollows
    <2>2. /\ y.portClosed = x.portClosed /\ y.heard = x.heard /\ y.durable = x.durable
          /\ y.cancelRequested = x.cancelRequested /\ y.cancelRecorded = x.cancelRecorded
          /\ y.cancelSent = x.cancelSent
        /\ y.executionRefused = x.executionRefused
      BY DEF SpawnFollows, SettlementFollows
    <2>3. y.attempted = TRUE \/ y.attempted = x.attempted
      BY DEF SpawnFollows, SettlementFollows
    <2>. HIDE DEF y
    <2>. QED
      BY <2>1, <2>2, <2>3 DEF Flags
  <1>. QED
    BY <1>1, <1>2

\* A message is published to whoever waits for it.
LEMMA PublishedFits ==
  ASSUME NEW x, Fits(x), NEW m \in {"turn_settled", "closed", "error"}
  PROVE  LET y == [x EXCEPT !.unread = @ \cup {m}]
         IN  Fits(y) /\ Later(x, y)
  BY DEF Flags, SpawnFollows, WorkerFollows, SettlementFollows, CleanupFollows,
    StartupComplete, WorkerIsOver, FactsFollow, Reached, CancelFollows, Later

\* A published message is consumed.
LEMMA ReadFits ==
  ASSUME NEW x, Fits(x), NEW m
  PROVE  LET y == [x EXCEPT !.unread = @ \ {m}]
         IN  Fits(y) /\ Later(x, y)
  BY DEF Flags, SpawnFollows, WorkerFollows, SettlementFollows, CleanupFollows,
    StartupComplete, WorkerIsOver, FactsFollow, Reached, CancelFollows, Later

\* SettleAcknowledged, before it takes the terminal from Data.
LEMMA ReadDoneFits ==
  ASSUME NEW x, Fits(x), NEW m, x.settle = "acknowledged"
  PROVE  LET y == [x EXCEPT !.unread = @ \ {m}, !.settle = "done"]
         IN  Fits(y) /\ Later(x, y)
  BY DEF Flags, SpawnFollows, WorkerFollows, SettlementFollows, CleanupFollows,
    StartupComplete, WorkerIsOver, FactsFollow, Reached, CancelFollows, Later

\* DataSettles: Data stores the terminal.
LEMMA DataSettlesFits ==
  ASSUME NEW x, Fits(x), NEW t \in Terminals, x.settle \in {"proposal", "failure"},
         x.exec = "admitted"
  PROVE  LET y == [x EXCEPT !.exec = t, !.settle = "answered"]
         IN  Fits(y) /\ Later(x, y)
  BY DEF Flags, SpawnFollows, WorkerFollows, SettlementFollows, CleanupFollows,
    StartupComplete, WorkerIsOver, FactsFollow, Reached, CancelFollows, Later

\* DataSettles: Data refuses the settlement.
LEMMA SettleErrs ==
  ASSUME NEW x, Fits(x), x.settle \in {"proposal", "failure"}
  PROVE  LET y == [x EXCEPT !.settle = "error"]
         IN  Fits(y) /\ Later(x, y)
  BY DEF Flags, SpawnFollows, WorkerFollows, SettlementFollows, CleanupFollows,
    StartupComplete, WorkerIsOver, FactsFollow, Reached, CancelFollows, Later

\* Acknowledge: the settlement waits for the Worker.
LEMMA AckSetFits ==
  ASSUME NEW x, Fits(x), x.settle = "answered"
  PROVE  LET y == [x EXCEPT !.settle = "acknowledged"]
         IN  Fits(y) /\ Later(x, y)
  BY DEF Flags, SpawnFollows, WorkerFollows, SettlementFollows, CleanupFollows,
    StartupComplete, WorkerIsOver, FactsFollow, Reached, CancelFollows, Later

\* SettleFailed, before it interrupts the run.
LEMMA SettleDoneFits ==
  ASSUME NEW x, Fits(x), x.settle # "none"
  PROVE  LET y == [x EXCEPT !.settle = "done"]
         IN  Fits(y) /\ Later(x, y)
  BY DEF Flags, SpawnFollows, WorkerFollows, SettlementFollows, CleanupFollows,
    StartupComplete, WorkerIsOver, FactsFollow, Reached, CancelFollows, Later

\* settlementAttempted, of an admitted run.
LEMMA AttemptFits ==
  ASSUME NEW x, Fits(x), x.admitted
  PROVE  LET y == [x EXCEPT !.attempted = TRUE]
         IN  Fits(y) /\ Later(x, y)
  <1> DEFINE y == [x EXCEPT !.attempted = TRUE]
  <1>1. /\ Shaped(y) /\ Flags(y)
    BY DEF Flags
  <1>2. /\ SpawnFollows(y) /\ SettlementFollows(y) /\ Later(x, y)
    BY DEF SpawnFollows, SettlementFollows, Later, WorkerFollows
  <1>3. /\ WorkerFollows(y) /\ CleanupFollows(y)
    BY DEF WorkerFollows, SpawnFollows, CleanupFollows, StartupComplete, WorkerIsOver,
      SettlementFollows
  <1>4. FactsFollow(y)
    BY DEF FactsFollow, Reached, SpawnFollows, WorkerFollows
  <1>5. CancelFollows(y)
    BY DEF CancelFollows, SpawnFollows, WorkerFollows, SettlementFollows
  <1>. QED
    BY <1>1, <1>2, <1>3, <1>4, <1>5

\* BeginSeal: the seal waits for the Worker to end.
LEMMA SealSetFits ==
  ASSUME NEW x, Fits(x), NEW s \in {"failChild", "finishWithoutData"}, x.admitted, x.attempted
  PROVE  LET y == [x EXCEPT !.seal = "terminating", !.sealer = s]
         IN  Fits(y) /\ Later(x, y)
  <1> DEFINE y == [x EXCEPT !.seal = "terminating", !.sealer = s]
  <1>1. Shaped(y)
    OBVIOUS
  <1>2. Flags(y)
    BY DEF Flags
  <1>3. SpawnFollows(y)
    BY DEF SpawnFollows
  <1>4. WorkerFollows(y)
    BY DEF WorkerFollows, SpawnFollows
  <1>5. SettlementFollows(y)
    BY DEF SettlementFollows, SpawnFollows
  <1>6. CleanupFollows(y)
    BY DEF CleanupFollows, StartupComplete, WorkerIsOver, SpawnFollows, WorkerFollows,
      SettlementFollows
  <1>7. FactsFollow(y)
    BY DEF FactsFollow, Reached, SpawnFollows, WorkerFollows
  <1>8. CancelFollows(y)
    BY DEF CancelFollows, SpawnFollows, WorkerFollows, SettlementFollows
  <1>9. Later(x, y)
    BY DEF Later, WorkerFollows
  <1>. QED
    BY <1>1, <1>2, <1>3, <1>4, <1>5, <1>6, <1>7, <1>8, <1>9

\* Seal goes from one wait to the next.
LEMMA SealToFits ==
  ASSUME NEW x, Fits(x), NEW n \in {"calling", "error", "failed", "done"}, x.seal # "none"
  PROVE  LET y == [x EXCEPT !.seal = n]
         IN  Fits(y) /\ Later(x, y)
  BY DEF Flags, SpawnFollows, WorkerFollows, SettlementFollows, CleanupFollows,
    StartupComplete, WorkerIsOver, FactsFollow, Reached, CancelFollows, Later

\* Seal: Data keeps the terminal it has, or takes the seal for it.
LEMMA SealAnswers ==
  ASSUME NEW x, Fits(x), NEW t \in {"interrupted", "cancelled"}, x.seal = "calling"
  PROVE  LET y == [DataSeals(x, t) EXCEPT !.seal = "answered"]
         IN  Fits(y) /\ Later(x, y)
  BY DEF Flags, SpawnFollows, WorkerFollows, SettlementFollows, CleanupFollows,
    StartupComplete, WorkerIsOver, FactsFollow, Reached, CancelFollows, Later, DataSeals

\* ForceSeal goes from one wait to the next.
LEMMA ForceToFits ==
  ASSUME NEW x, Fits(x), NEW n \in {"calling", "error", "failed", "finalizing", "done"},
         x.force # "none", n = "done" => x.terminal # "none"
  PROVE  LET y == [x EXCEPT !.force = n]
         IN  Fits(y) /\ Later(x, y)
  BY DEF Flags, SpawnFollows, WorkerFollows, SettlementFollows, CleanupFollows,
    StartupComplete, WorkerIsOver, FactsFollow, Reached, CancelFollows, Later

\* ForceSeal: Data keeps the terminal it has, or takes the seal for it.
LEMMA ForceAnswers ==
  ASSUME NEW x, Fits(x), x.force = "calling"
  PROVE  LET y == [DataSeals(x, "interrupted") EXCEPT !.force = "answered"]
         IN  Fits(y) /\ Later(x, y)
  BY DEF Flags, SpawnFollows, WorkerFollows, SettlementFollows, CleanupFollows,
    StartupComplete, WorkerIsOver, FactsFollow, Reached, CancelFollows, Later, DataSeals

\* SettlementDeadline: no other settlement of the run begins.
LEMMA ForceBegins ==
  ASSUME NEW x, Fits(x), x.clean = "settlement", x.admitted
  PROVE  LET y == [x EXCEPT !.forced = TRUE, !.attempted = TRUE]
         IN  Fits(y) /\ Later(x, y)
  <1> DEFINE y == [x EXCEPT !.forced = TRUE, !.attempted = TRUE]
  <1>1. /\ Shaped(y) /\ Flags(y)
    BY DEF Flags
  <1>2. /\ SpawnFollows(y) /\ SettlementFollows(y) /\ Later(x, y)
    BY DEF SpawnFollows, SettlementFollows, Later, WorkerFollows
  <1>3. /\ WorkerFollows(y) /\ CleanupFollows(y)
    BY DEF WorkerFollows, SpawnFollows, CleanupFollows, StartupComplete, WorkerIsOver,
      SettlementFollows
  <1>4. FactsFollow(y)
    BY DEF FactsFollow, Reached, SpawnFollows, WorkerFollows
  <1>5. CancelFollows(y)
    BY DEF CancelFollows, SpawnFollows, WorkerFollows, SettlementFollows
  <1>. QED
    BY <1>1, <1>2, <1>3, <1>4, <1>5

\* SettlementDeadline: the forced seal waits for the Worker to end.
LEMMA ForceSetFits ==
  ASSUME NEW x, Fits(x), x.clean = "settlement", x.admitted, x.attempted
  PROVE  LET y == [x EXCEPT !.force = "terminating", !.clean = "forced"]
         IN  Fits(y) /\ Later(x, y)
  <1> DEFINE y == [x EXCEPT !.force = "terminating", !.clean = "forced"]
  <1>1. Shaped(y)
    OBVIOUS
  <1>2. Flags(y)
    BY DEF Flags
  <1>3. SpawnFollows(y)
    BY DEF SpawnFollows
  <1>4. WorkerFollows(y)
    BY DEF WorkerFollows, SpawnFollows
  <1>5. SettlementFollows(y)
    BY DEF SettlementFollows, SpawnFollows
  <1>6. CleanupFollows(y)
    BY DEF CleanupFollows, StartupComplete, WorkerIsOver, SpawnFollows, WorkerFollows,
      SettlementFollows
  <1>7. FactsFollow(y)
    BY DEF FactsFollow, Reached, SpawnFollows, WorkerFollows
  <1>8. CancelFollows(y)
    BY DEF CancelFollows, SpawnFollows, WorkerFollows, SettlementFollows
  <1>9. Later(x, y)
    BY DEF Later, WorkerFollows
  <1>. QED
    BY <1>1, <1>2, <1>3, <1>4, <1>5, <1>6, <1>7, <1>8, <1>9

\* CloseAnswered: the processes are cleaned up next.
LEMMA PhysicalFits ==
  ASSUME NEW x, Fits(x), NEW p \in {"swallowed", "cleaning"}, x.physical = "closing",
         x.worker = "terminated"
  PROVE  LET y == [x EXCEPT !.physical = p]
         IN  Fits(y) /\ Later(x, y)
  BY DEF Flags, SpawnFollows, WorkerFollows, SettlementFollows, CleanupFollows,
    StartupComplete, WorkerIsOver, FactsFollow, Reached, CancelFollows, Later

\* ProcessesCleaned: the fact of the cleanup takes the last number.
LEMMA CleanedFits ==
  ASSUME NEW x, Fits(x), NEW p \in {"facts", "factsFailed"},
         x.physical \in {"cleaning", "swallowed"}
  PROVE  LET y == [[RecordExecutionControl(x)
                    EXCEPT !.cleanupFact = IF x.admitted THEN x.next ELSE 0] EXCEPT !.physical = p]
         IN  Fits(y) /\ Later(x, y)
  <1> DEFINE y == [[RecordExecutionControl(x)
                    EXCEPT !.cleanupFact = IF x.admitted THEN x.next ELSE 0] EXCEPT !.physical = p]
  <1> USE DEF RecordExecutionControl
  <1>1. /\ Shaped(y) /\ Flags(y) /\ SpawnFollows(y) /\ WorkerFollows(y) /\ SettlementFollows(y)
        /\ CleanupFollows(y) /\ CancelFollows(y) /\ Later(x, y)
    BY DEF Flags, SpawnFollows, WorkerFollows, SettlementFollows, CleanupFollows,
      StartupComplete, WorkerIsOver, CancelFollows, Later
  <1>2. FactsFollow(y)
    <2>1. /\ y.pending = IF x.admitted THEN x.pending ELSE Append(x.pending, x.next)
          /\ y.queued = IF x.admitted THEN Append(x.queued, x.next) ELSE x.queued
          /\ y.written = x.written /\ y.next = x.next + 1 /\ y.admitted = x.admitted
          /\ y.session = x.session /\ y.cleanupFact = (IF x.admitted THEN x.next ELSE 0)
          /\ y.physical \in {"facts", "factsFailed"}
      OBVIOUS
    <2>2. FactsFollow(x) /\ x.admitted \in BOOLEAN
      BY DEF Flags, SpawnFollows
    <2>. HIDE DEF y, Fits, Sound
    <2>. QED
      BY <2>1, <2>2, FactsRecorded DEF FactsFollow, Reached
  <1>. QED
    BY <1>1, <1>2

\* FactsAwaited: the fact of the cleanup is no longer queued.
LEMMA AwaitedFits ==
  ASSUME NEW x, Fits(x), x.physical \in {"facts", "factsFailed"},
         \A i \in DOMAIN x.queued : x.queued[i] # x.cleanupFact
  PROVE  LET y == [x EXCEPT !.physical = IF @ = "facts" THEN "done" ELSE "failed"]
         IN  Fits(y) /\ Later(x, y)
  <1> DEFINE y == [x EXCEPT !.physical = IF @ = "facts" THEN "done" ELSE "failed"]
  <1>1. Shaped(y)
    OBVIOUS
  <1>2. Flags(y)
    BY DEF Flags
  <1>3. SpawnFollows(y)
    BY DEF SpawnFollows
  <1>4. WorkerFollows(y)
    BY DEF WorkerFollows, SpawnFollows
  <1>5. SettlementFollows(y)
    BY DEF SettlementFollows, SpawnFollows
  <1>6. CleanupFollows(y)
    BY DEF CleanupFollows, StartupComplete, WorkerIsOver, SpawnFollows, WorkerFollows,
      SettlementFollows
  <1>7. FactsFollow(y)
    <2>1. /\ y.pending = x.pending /\ y.queued = x.queued /\ y.written = x.written
          /\ y.next = x.next /\ y.admitted = x.admitted /\ y.session = x.session
          /\ y.cleanupFact = x.cleanupFact /\ y.physical \in {"done", "failed"}
      OBVIOUS
    <2>2. FactsFollow(x) /\ x.admitted \in BOOLEAN
      BY DEF Flags, SpawnFollows
    <2>. HIDE DEF y, Fits, Sound
    <2>. QED
      BY <2>1, <2>2, CleanupFactReached DEF FactsFollow
  <1>8. CancelFollows(y)
    BY DEF CancelFollows, SpawnFollows, WorkerFollows, SettlementFollows
  <1>9. Later(x, y)
    BY DEF Later, WorkerFollows
  <1>. QED
    BY <1>1, <1>2, <1>3, <1>4, <1>5, <1>6, <1>7, <1>8, <1>9

\* WriteFact with the Session open.
LEMMA WrittenFits ==
  ASSUME NEW x, Fits(x), x.queued # << >>, x.session = "open"
  PROVE  LET y == [[x EXCEPT !.queued = Tail(@)] EXCEPT !.written = Append(@, Head(x.queued))]
         IN  Fits(y) /\ Later(x, y)
  BY FactWritten DEF Flags, SpawnFollows, WorkerFollows, SettlementFollows, CleanupFollows,
    StartupComplete, WorkerIsOver, FactsFollow, Reached, CancelFollows, Later

\* WriteFact with the Session closed.
LEMMA LostFits ==
  ASSUME NEW x, Fits(x), x.queued # << >>, x.session # "open"
  PROVE  LET y == [x EXCEPT !.queued = Tail(@)]
         IN  Fits(y) /\ Later(x, y)
  BY FactLost DEF Flags, SpawnFollows, WorkerFollows, SettlementFollows, CleanupFollows,
    StartupComplete, WorkerIsOver, FactsFollow, Reached, CancelFollows, Later

\* Finalize: the Worker is over and the Session is closed next.
LEMMA ClosingFits ==
  ASSUME NEW x, Fits(x), x.final = "terminating", WorkerIsOver(x)
  PROVE  LET y == [x EXCEPT !.final = "closing"]
         IN  Fits(y) /\ Later(x, y)
  BY DEF Flags, SpawnFollows, WorkerFollows, SettlementFollows, CleanupFollows,
    StartupComplete, FactsFollow, Reached, CancelFollows, Later, WorkerIsOver

\* Finalize: the process cleanup failed, the terminal is not durable.
LEMMA FinalFailsFits ==
  ASSUME NEW x, Fits(x), x.final = "terminating", x.physical = "failed"
  PROVE  LET y == [x EXCEPT !.final = "done", !.durable = FALSE]
         IN  Fits(y) /\ Later(x, y)
  BY DEF Flags, SpawnFollows, WorkerFollows, SettlementFollows, CleanupFollows,
    StartupComplete, WorkerIsOver, FactsFollow, Reached, CancelFollows, Later

\* Finalize: the Session is closed.
LEMMA FinalizedFits ==
  ASSUME NEW x, Fits(x), x.final = "closing", x.terminal # "none"
  PROVE  LET y == [CloseSession(x) EXCEPT !.final = "done"]
         IN  Fits(y) /\ Later(x, y)
  BY FactsKept DEF Flags, SpawnFollows, WorkerFollows, SettlementFollows, CleanupFollows,
    StartupComplete, WorkerIsOver, FactsFollow, Reached, CancelFollows, Later, CloseSession

\* cleanupRun: the cleanup waits for the admission.
LEMMA CleanBegins ==
  ASSUME NEW x, Fits(x), x.spawn \notin {"idle", "account"}, x.clean = "none", x.cancelRequested
  PROVE  LET y == [x EXCEPT !.clean = "admission"]
         IN  Fits(y) /\ Later(x, y)
  <1> DEFINE y == [x EXCEPT !.clean = "admission"]
  <1>1. /\ Shaped(y) /\ Flags(y)
    <2>1. Shaped(y)
      OBVIOUS
    <2>2. Flags(y)
      BY DEF Flags
    <2>. QED
      BY <2>1, <2>2
  <1>2. /\ SpawnFollows(y) /\ WorkerFollows(y) /\ SettlementFollows(y) /\ CleanupFollows(y)
        /\ Later(x, y)
    BY DEF SpawnFollows, WorkerFollows, SettlementFollows, CleanupFollows, StartupComplete,
      WorkerIsOver, Later
  <1>3. /\ FactsFollow(y) /\ CancelFollows(y)
    BY DEF FactsFollow, Reached, SpawnFollows, WorkerFollows, CancelFollows, SettlementFollows
  <1>. QED
    BY <1>1, <1>2, <1>3

\* CleanAdmission: the open is over and the grace begins.
LEMMA AdmissionFits ==
  ASSUME NEW x, Fits(x), x.clean = "admission", x.spawn # "opening"
  PROVE  LET y == [x EXCEPT !.clean = "grace"]
         IN  Fits(y) /\ Later(x, y)
  BY DEF Flags, SpawnFollows, WorkerFollows, SettlementFollows, CleanupFollows,
    StartupComplete, WorkerIsOver, FactsFollow, Reached, CancelFollows, Later

\* GraceEnds, before the Worker is terminated.
LEMMA StartupFits ==
  ASSUME NEW x, Fits(x), x.clean = "grace"
  PROVE  LET y == [x EXCEPT !.clean = "startup"]
         IN  Fits(y) /\ Later(x, y)
  BY DEF Flags, SpawnFollows, WorkerFollows, SettlementFollows, CleanupFollows,
    StartupComplete, WorkerIsOver, FactsFollow, Reached, CancelFollows, Later

\* The cleanup goes on once the start is complete.
LEMMA CleanToFits ==
  ASSUME NEW x, Fits(x), NEW n \in {"finalizing", "refused", "settlement", "end"},
         x.clean \notin {"none", "done"}, StartupComplete(x),
         n = "settlement" => x.admitted, n = "end" => x.terminal # "none",
         n = "refused" => x.executionRefused
  PROVE  LET y == [x EXCEPT !.clean = n]
         IN  Fits(y) /\ Later(x, y)
  BY DEF Flags, SpawnFollows, WorkerFollows, SettlementFollows, CleanupFollows, WorkerIsOver,
    FactsFollow, Reached, CancelFollows, Later, StartupComplete

\* RefusalSettled: the run is settled, whatever its finalisation left.
LEMMA RefusalFits ==
  ASSUME NEW x, Fits(x), x.clean = "refused", Settled(x)
  PROVE  LET y == [x EXCEPT !.clean = "done"]
         IN  Fits(y) /\ Later(x, y)
  BY DEF Flags, SpawnFollows, WorkerFollows, SettlementFollows, CleanupFollows, Settled,
    StartupComplete, FactsFollow, Reached, CancelFollows, Later, WorkerIsOver

\* CleanEnds: the Worker is over and the Session is closed.
LEMMA CleanEndsFits ==
  ASSUME NEW x, Fits(x), x.clean = "end", x.terminal # "none", WorkerIsOver(x)
  PROVE  LET y == [CloseSession(x) EXCEPT !.clean = "done"]
         IN  Fits(y) /\ Later(x, y)
  BY FactsKept DEF Flags, SpawnFollows, WorkerFollows, SettlementFollows, CleanupFollows,
    StartupComplete, FactsFollow, Reached, CancelFollows, Later, CloseSession, WorkerIsOver

\* CleanFails: a failed process cleanup rejects.
LEMMA CleanFailsFits ==
  ASSUME NEW x, Fits(x), x.clean \in {"startup", "end", "forced"}
  PROVE  LET y == [x EXCEPT !.clean = "failed"]
         IN  Fits(y) /\ Later(x, y)
  BY DEF Flags, SpawnFollows, WorkerFollows, SettlementFollows, CleanupFollows,
    StartupComplete, WorkerIsOver, FactsFollow, Reached, CancelFollows, Later

\* Collect reports the terminal.
LEMMA CollectFits ==
  ASSUME NEW x, Fits(x)
  PROVE  LET y == [x EXCEPT !.collected = x.terminal]
         IN  Fits(y) /\ Later(x, y)
  BY DEF Flags, SpawnFollows, WorkerFollows, SettlementFollows, CleanupFollows,
    StartupComplete, WorkerIsOver, FactsFollow, Reached, CancelFollows, Later

\* CleanupParent: the run cannot be addressed any more.
LEMMA HiddenFits ==
  ASSUME NEW x, Fits(x)
  PROVE  LET y == [x EXCEPT !.addressable = FALSE]
         IN  Fits(y) /\ Later(x, y)
  BY DEF Flags, SpawnFollows, WorkerFollows, SettlementFollows, CleanupFollows,
    StartupComplete, WorkerIsOver, FactsFollow, Reached, CancelFollows, Later

HIDE DEF Fits, Sound, Shaped, Fields, ToWorker, ToHost, Boots, Waits, Terminals, Over, Unopened, Gone

-----------------------------------------------------------------------------
(* What the methods do that call one another.                              *)

\* What fits depends on the fields alone.
LEMMA SameFits ==
  ASSUME NEW a, NEW b, Fits(b), DOMAIN a = Fields, \A f \in Fields : a[f] = b[f]
  PROVE  Fits(a)
  <1>1. /\ a.spawn = b.spawn /\ a.worker = b.worker /\ a.physical = b.physical
        /\ a.settle = b.settle /\ a.seal = b.seal /\ a.force = b.force /\ a.sealer = b.sealer
        /\ a.final = b.final /\ a.clean = b.clean /\ a.terminal = b.terminal
        /\ a.collected = b.collected /\ a.session = b.session /\ a.exec = b.exec
        /\ a.unread = b.unread /\ a.toWorker = b.toWorker /\ a.toHost = b.toHost
        /\ a.pending = b.pending /\ a.queued = b.queued /\ a.written = b.written
        /\ a.next = b.next /\ a.cleanupFact = b.cleanupFact
    BY DEF Fields
  <1>2. /\ a.addressable = b.addressable /\ a.admitted = b.admitted
        /\ a.admissionError = b.admissionError /\ a.attempted = b.attempted
        /\ a.forced = b.forced /\ a.started = b.started /\ a.portClosed = b.portClosed
        /\ a.heard = b.heard /\ a.durable = b.durable
        /\ a.cancelRequested = b.cancelRequested /\ a.cancelRecorded = b.cancelRecorded
        /\ a.cancelSent = b.cancelSent /\ a.executionRefused = b.executionRefused
    BY DEF Fields
  <1>3. Sound(b) /\ CancelFollows(b)
    BY DEF Fits
  <1>4. Shaped(a)
    BY <1>1, <1>3 DEF Sound, Shaped
  <1>5. Flags(a)
    BY <1>2, <1>3 DEF Sound, Flags
  <1>6. SpawnFollows(a)
    BY <1>1, <1>2, <1>3 DEF Sound, SpawnFollows
  <1>7. WorkerFollows(a)
    BY <1>1, <1>2, <1>3 DEF Sound, WorkerFollows
  <1>8. SettlementFollows(a)
    BY <1>1, <1>2, <1>3 DEF Sound, SettlementFollows
  <1>9. CleanupFollows(a)
    BY <1>1, <1>2, <1>3 DEF Sound, CleanupFollows, StartupComplete, WorkerIsOver, Gone
  <1>10. FactsFollow(a)
    BY <1>1, <1>2, <1>3 DEF Sound, FactsFollow
  <1>11. CancelFollows(a)
    BY <1>1, <1>2, <1>3 DEF CancelFollows
  <1>. QED
    BY <1>4, <1>5, <1>6, <1>7, <1>8, <1>9, <1>10, <1>11 DEF Fits, Sound

\* requestCancellation does not look at the spawn.
LEMMA RequestCommutes ==
  ASSUME NEW x, DOMAIN x = Fields, NEW s
  PROVE  LET a == [RequestCancellation(x) EXCEPT !.spawn = s]
             b == RequestCancellation([x EXCEPT !.spawn = s])
         IN  /\ DOMAIN a = Fields
             /\ \A f \in Fields : a[f] = b[f]
  BY DEF RequestCancellation, RecordExecutionControl, Send, Fields

\* What no step takes back over one step, none takes back over two.
LEMMA LaterStill ==
  ASSUME NEW x, NEW y, NEW z, Later(x, y), Later(y, z)
  PROVE  Later(x, z)
  BY DEF Later

\* RecordExecutionControl, at any point of a run.
LEMMA RecordKeeps ==
  ASSUME NEW x, Fits(x)
  PROVE  LET y == RecordExecutionControl(x)
         IN  /\ Fits(y) /\ Later(x, y)
             /\ y.settle = x.settle /\ y.worker = x.worker
  <1> DEFINE y == RecordExecutionControl(x)
  <1>1. Sound(y) /\ Later(x, y)
    BY RecordFits DEF Fits
  <1>2. /\ y.toWorker = x.toWorker /\ y.worker = x.worker /\ y.spawn = x.spawn
        /\ y.admitted = x.admitted /\ y.terminal = x.terminal /\ y.cancelSent = x.cancelSent
        /\ y.executionRefused = x.executionRefused
        /\ y.cancelRequested = x.cancelRequested /\ y.heard = x.heard /\ y.settle = x.settle
    BY DEF RecordExecutionControl, Fits, Sound, Shaped, Fields
  <1>3. CancelFollows(x)
    BY DEF Fits
  <1>. HIDE DEF y
  <1>4. CancelFollows(y)
    BY <1>2, <1>3 DEF CancelFollows
  <1>. QED
    BY <1>1, <1>2, <1>4 DEF Fits, y

\* The acknowledgement of a commit does not come between a turn and its cancel.
LEMMA AckSent ==
  ASSUME NEW x, Fits(x), x.worker # "none"
  PROVE  LET y == Send(x, "ack")
         IN  Fits(y) /\ Later(x, y) /\ y.settle = x.settle
  <1> DEFINE y == Send(x, "ack")
  <1>1. Sound(y) /\ Later(x, y)
    BY SendFits DEF Fits
  <1>2. /\ y.worker = x.worker /\ y.spawn = x.spawn
        /\ y.admitted = x.admitted /\ y.terminal = x.terminal /\ y.cancelSent = x.cancelSent
        /\ y.executionRefused = x.executionRefused
        /\ y.cancelRequested = x.cancelRequested /\ y.heard = x.heard /\ y.settle = x.settle
        /\ y.toWorker = x.toWorker \/ y.toWorker = Append(x.toWorker, "ack")
    BY DEF Send, Fits, Sound, Shaped, Fields
  <1>3. CancelFollows(x) /\ x.toWorker \in Seq(ToWorker) /\ "ack" \in ToWorker
    BY DEF Fits, Sound, Shaped, ToWorker
  <1>. HIDE DEF y
  <1>4. /\ Has(y.toWorker, "turn") <=> Has(x.toWorker, "turn")
        /\ Has(y.toWorker, "close") <=> Has(x.toWorker, "close")
        /\ Has(y.toWorker, "cancel") <=> Has(x.toWorker, "cancel")
        /\ Overtaken(x.toWorker) => Overtaken(y.toWorker)
    <2>1. CASE y.toWorker = x.toWorker
      BY <2>1
    <2>2. CASE y.toWorker = Append(x.toWorker, "ack")
      <3>1. \A m : Has(Append(x.toWorker, "ack"), m) <=> Has(x.toWorker, m) \/ "ack" = m
        BY <1>3, MessageSent
      <3>2. Overtaken(x.toWorker) => Overtaken(Append(x.toWorker, "ack"))
        BY <1>3, MessageSent
      <3>. QED
        BY <2>2, <3>1, <3>2
    <2>. QED
      BY <1>2, <2>1, <2>2
  <1>5. CancelFollows(y)
    BY <1>2, <1>3, <1>4 DEF CancelFollows
  <1>. QED
    BY <1>1, <1>2, <1>5 DEF Fits, y

\* A graceless termination leaves what the settlement of the run depends on.
LEMMA TerminateKeeps ==
  ASSUME NEW x, Fits(x)
  PROVE  LET y == TerminateWorker(x, FALSE)
         IN  /\ y.admitted = x.admitted /\ y.attempted = x.attempted /\ y.terminal = x.terminal
             /\ y.clean = x.clean
  BY DEF TerminateWorker, Terminated, Fits, Sound, Shaped, Fields

\* failChild and finishWithoutData seal a run that is admitted.
LEMMA SealBegins ==
  ASSUME NEW x, Fits(x), x.admitted, NEW s \in {"failChild", "finishWithoutData"}
  PROVE  LET y == BeginSeal(x, s)
         IN  Fits(y) /\ Later(x, y)
  <1> DEFINE a == [x EXCEPT !.attempted = TRUE]
             z == TerminateWorker(a, FALSE)
  <1>1. Fits(a) /\ Later(x, a)
    BY AttemptFits
  <1>2. a.attempted /\ a.admitted
    BY DEF Fits, Sound, Shaped, Fields
  <1>. HIDE DEF a
  <1>3. Fits(z) /\ Later(a, z) /\ z.admitted = a.admitted /\ z.attempted = a.attempted
    BY <1>1, TerminateFits, TerminateKeeps
  <1>. HIDE DEF z
  <1>4. LET y == [z EXCEPT !.seal = "terminating", !.sealer = s]
        IN  Fits(y) /\ Later(z, y)
    BY <1>2, <1>3, SealSetFits
  <1>. QED
    BY <1>1, <1>3, <1>4, LaterStill DEF BeginSeal, a, z

\* FailChild: a child that is admitted and lost.
LEMMA FailFits ==
  ASSUME NEW x, Fits(x), x.admitted
  PROVE  LET y == FailChild(x)
         IN  Fits(y) /\ Later(x, y)
  BY SealBegins DEF FailChild, Later

\* completeFromData, once Data has answered with a terminal.
LEMMA FromDataFits ==
  ASSUME NEW x, Fits(x), x.admitted, x.exec \in Terminals
  PROVE  LET y == CompleteFromData(x)
         IN  Fits(y) /\ Later(x, y)
  <1>1. x.spawn \in Over
    BY DEF Fits, Sound, SpawnFollows, Over
  <1>2. LET y == CompleteLocal(x, x.exec, TRUE, TRUE)
        IN  Fits(y) /\ Later(x, y)
    BY <1>1, CompleteFits
  <1>. QED
    BY <1>2 DEF CompleteFromData, Later

\* What requestCancellation of a run that has no terminal leaves and sends.
LEMMA RequestFields ==
  ASSUME NEW x, DOMAIN x = Fields, x.terminal = "none"
  PROVE  LET y == RequestCancellation(x)
         IN  /\ y.terminal = x.terminal /\ y.worker = x.worker /\ y.spawn = x.spawn
             /\ y.admitted = x.admitted /\ y.attempted = x.attempted /\ y.heard = x.heard
             /\ y.cancelRequested /\ y.clean = x.clean
             /\ y.toWorker = IF x.cancelSent \/ x.worker \in {"none", "ended", "terminated"}
                             THEN x.toWorker ELSE Append(x.toWorker, "cancel")
  BY DEF RequestCancellation, RecordExecutionControl, Send, Fields

\* The steps of requestCancellation, one after the other.
LEMMA RequestSound ==
  ASSUME NEW x, Sound(x)
  PROVE  LET y == RequestCancellation(x)
         IN  Sound(y) /\ Later(x, y)
  <1> DEFINE a == [x EXCEPT !.cancelRequested = TRUE, !.cancelRecorded = TRUE]
             b == IF x.cancelRecorded THEN a ELSE RecordExecutionControl(a)
             c == [b EXCEPT !.cancelSent = TRUE]
             d == Send(c, "cancel")
             e == RecordExecutionControl(d)
             y == RequestCancellation(x)
  <1>1. y = IF x.terminal # "none" THEN x ELSE IF b.cancelSent \/ b.worker = "none" THEN b ELSE e
    BY DEF RequestCancellation
  <1>2. Sound(a) /\ Later(x, a)
    BY RecordedSound
  <1>. HIDE DEF a, y
  <1>3. Sound(b) /\ Later(x, b)
    BY <1>2, RecordFits, LaterStill
  <1>. HIDE DEF b
  <1>4. CASE b.worker # "none"
    <2>1. Sound(c) /\ Later(b, c)
      BY <1>3, SentSound
    <2>2. c.worker # "none"
      BY <1>3, <1>4 DEF Sound, Shaped, Fields
    <2>. HIDE DEF c
    <2>3. Sound(d) /\ Later(c, d)
      BY <2>1, <2>2, SendFits
    <2>. HIDE DEF d
    <2>4. Sound(e) /\ Later(d, e)
      BY <2>3, RecordFits
    <2>. HIDE DEF e
    <2>5. Later(x, x) /\ Later(x, e)
      BY <1>3, <2>1, <2>3, <2>4 DEF Later
    <2>6. Sound(y) /\ Later(x, y)
      BY <1>1, <1>3, <2>4, <2>5
    <2>. QED
      BY <2>6 DEF y
  <1>5. CASE b.worker = "none"
    <2>1. Later(x, x) /\ (y = x \/ y = b)
      BY <1>1, <1>5 DEF Later
    <2>2. Sound(y) /\ Later(x, y)
      BY <1>3, <2>1
    <2>. QED
      BY <2>2 DEF y
  <1>. QED
    BY <1>4, <1>5

\* cleanupRun asks for the cancellation: it reaches the turn that runs or is under way.
LEMMA RequestFits ==
  ASSUME NEW x, Fits(x)
  PROVE  LET y == RequestCancellation([x EXCEPT !.cancelRequested = TRUE])
         IN  /\ Fits(y) /\ Later(x, y)
             /\ y.spawn = x.spawn /\ y.clean = x.clean /\ y.cancelRequested
             /\ x.terminal = "none" => /\ y.terminal = "none" /\ y.admitted = x.admitted
                                       /\ y.attempted = x.attempted
  <1> DEFINE a == [x EXCEPT !.cancelRequested = TRUE]
             y == RequestCancellation(a)
  <1>1. Sound(a) /\ Later(x, a)
    BY AskedSound DEF Fits
  <1>2. /\ a.terminal = x.terminal /\ a.worker = x.worker /\ a.spawn = x.spawn
        /\ a.admitted = x.admitted /\ a.attempted = x.attempted /\ a.heard = x.heard
        /\ a.cancelRequested /\ a.clean = x.clean /\ a.toWorker = x.toWorker
        /\ a.cancelSent = x.cancelSent /\ DOMAIN a = Fields
    BY DEF Fits, Sound, Shaped, Fields
  <1>3. /\ CancelFollows(x) /\ x.toWorker \in Seq(ToWorker)
        /\ x.worker = "ended" => x.terminal # "none" \/ x.spawn = "booting"
        /\ x.worker \in {"none", "terminated"} => x.toWorker = << >>
    BY DEF Fits, Sound, Shaped, WorkerFollows
  <1>. HIDE DEF a
  <1>4. Sound(y) /\ Later(x, y)
    BY <1>1, RequestSound, LaterStill
  <1>5. CASE x.terminal # "none"
    <2>1. y = a
      BY <1>2, <1>5 DEF RequestCancellation
    <2>. HIDE DEF y
    <2>2. CancelFollows(y)
      BY <1>2, <1>3, <1>5, <2>1 DEF CancelFollows
    <2>3. Fits(y) /\ Later(x, y) /\ y.spawn = x.spawn /\ y.clean = x.clean /\ y.cancelRequested
      BY <1>2, <1>4, <2>1, <2>2 DEF Fits
    <2>. QED
      BY <1>5, <2>3 DEF y, a
  <1>6. CASE x.terminal = "none"
    <2>1. /\ y.terminal = x.terminal /\ y.worker = x.worker /\ y.spawn = x.spawn
          /\ y.admitted = x.admitted /\ y.attempted = x.attempted /\ y.heard = x.heard
          /\ y.cancelRequested /\ y.clean = x.clean
          /\ y.toWorker = IF x.cancelSent \/ x.worker \in {"none", "ended", "terminated"}
                          THEN x.toWorker ELSE Append(x.toWorker, "cancel")
      BY <1>2, <1>6, RequestFields
    <2>. HIDE DEF y
    <2>2. ASSUME x.cancelSent
         PROVE  CancelFollows(y)
      <3>1. x.cancelRequested /\ y.toWorker = x.toWorker
        BY <1>3, <2>1, <2>2 DEF CancelFollows
      <3>2. CancelFollows(y)
        BY <1>3, <2>1, <3>1 DEF CancelFollows
      <3>. QED
        BY <3>2
    <2>3. ASSUME ~x.cancelSent /\ x.worker \in {"none", "ended", "terminated"}
         PROVE  CancelFollows(y)
      <3>1. y.toWorker = x.toWorker
        BY <2>1, <2>3
      <3>2. ~Has(x.toWorker, "turn") => Overtaken(x.toWorker)
        BY DEF Has, Overtaken
      <3>3. Has(x.toWorker, "turn") => FALSE
        <4>1. x.worker = "ended" => x.spawn = "booting"
          BY <1>3, <1>6
        <4>2. Has(x.toWorker, "turn") => x.spawn = "ok"
          BY <1>3 DEF CancelFollows
        <4>3. x.worker # "ended" => x.toWorker = << >>
          BY <1>3, <2>3
        <4>. QED
          BY <4>1, <4>2, <4>3, NoMessages
      <3>4. CancelFollows(y)
        BY <1>3, <2>1, <2>3, <3>1, <3>2, <3>3 DEF CancelFollows
      <3>. QED
        BY <3>4
    <2>4. ASSUME ~x.cancelSent /\ x.worker \notin {"none", "ended", "terminated"}
         PROVE  CancelFollows(y)
      <3>1. y.toWorker = Append(x.toWorker, "cancel") /\ "cancel" \in ToWorker
        BY <2>1, <2>4 DEF ToWorker
      <3>2. \A m : Has(Append(x.toWorker, "cancel"), m) <=> Has(x.toWorker, m) \/ "cancel" = m
        BY <1>3, <3>1, MessageSent
      <3>3. Overtaken(y.toWorker)
        BY <1>3, <3>1, MessageSent
      <3>4. /\ Has(y.toWorker, "turn") <=> Has(x.toWorker, "turn")
            /\ Has(y.toWorker, "close") <=> Has(x.toWorker, "close")
            /\ Has(y.toWorker, "cancel")
        BY <3>1, <3>2
      <3>5. CancelFollows(y)
        BY <1>3, <2>1, <3>3, <3>4 DEF CancelFollows
      <3>. QED
        BY <3>5
    <2>5. CancelFollows(y)
      BY <2>2, <2>3, <2>4
    <2>6. Fits(y) /\ Later(x, y)
      BY <1>4, <2>5 DEF Fits
    <2>. QED
      BY <1>2, <2>1, <2>6 DEF y, a
  <1>. QED
    BY <1>5, <1>6

\* cleanupRun, of a run that is registered.
LEMMA CleanupRunFits ==
  ASSUME NEW x, Fits(x), x.spawn \notin {"idle", "account"}
  PROVE  LET y == CleanupRun(x)
         IN  Fits(y) /\ Later(x, y) /\ y.clean # "none"
  <1> DEFINE a == RequestCancellation([x EXCEPT !.cancelRequested = TRUE])
             b == [a EXCEPT !.clean = "admission"]
  <1>1. /\ Fits(a) /\ Later(x, a)
        /\ a.spawn = x.spawn /\ a.clean = x.clean /\ a.cancelRequested
    BY RequestFits
  <1>. HIDE DEF a
  <1>2. CASE x.clean = "none"
    <2>1. Fits(b) /\ Later(a, b)
      BY <1>1, <1>2, CleanBegins
    <2>2. b.clean = "admission"
      BY <1>1 DEF Fits, Sound, Shaped, Fields
    <2>. HIDE DEF b
    <2>3. Later(x, b)
      BY <1>1, <2>1, LaterStill
    <2>. QED
      BY <1>2, <2>1, <2>2, <2>3 DEF CleanupRun, a, b
  <1>3. CASE x.clean # "none"
    BY <1>3 DEF CleanupRun, Later
  <1>. QED
    BY <1>2, <1>3

\* requestCancellation sets the flag of a run that has no terminal itself.
LEMMA RequestAsks ==
  ASSUME NEW x, DOMAIN x = Fields, x.terminal = "none"
  PROVE  LET a == RequestCancellation(x)
             b == RequestCancellation([x EXCEPT !.cancelRequested = TRUE])
         IN  DOMAIN a = Fields /\ \A f \in Fields : a[f] = b[f]
  <1> DEFINE z == [x EXCEPT !.cancelRequested = TRUE]
             a == RequestCancellation(x)
             b == RequestCancellation(z)
  <1>1. DOMAIN a = Fields
    BY DEF RequestCancellation, RecordExecutionControl, Send, Fields
  <1>2. /\ z.cancelRecorded = x.cancelRecorded /\ z.terminal = x.terminal
        /\ z.cancelSent = x.cancelSent /\ z.worker = x.worker
    BY DEF Fields
  <1>3. [x EXCEPT !.cancelRequested = TRUE, !.cancelRecorded = TRUE]
          = [z EXCEPT !.cancelRequested = TRUE, !.cancelRecorded = TRUE]
    BY DEF Fields
  <1>4. a = b
    <2>. HIDE DEF z
    <2>. QED
      BY <1>2, <1>3 DEF RequestCancellation
  <1>. QED
    BY <1>1, <1>4

\* The seal does not look at the spawn of a run that is past its boot.
LEMMA SealCommutes ==
  ASSUME NEW u, NEW v, DOMAIN u = Fields, DOMAIN v = Fields, NEW s, s # "booting",
         u.spawn # "booting", v.spawn = s,
         \A f \in Fields \ {"spawn"} : u[f] = v[f]
  PROVE  LET a == [BeginSeal(u, "finishWithoutData") EXCEPT !.spawn = s]
             b == BeginSeal(v, "finishWithoutData")
         IN  DOMAIN a = Fields /\ \A f \in Fields : a[f] = b[f]
  <1>1. /\ u.physical = v.physical /\ u.worker = v.worker /\ u.settle = v.settle
        /\ u.attempted = v.attempted
    BY DEF Fields
  <1>. QED
    BY <1>1 DEF BeginSeal, TerminateWorker, Terminated, Fields

\* The run was cancelled, or its parent cleaned up, while Data admitted it.
LEMMA AdmittedStops ==
  ASSUME NEW x, Fits(x), x.spawn = "answered"
  PROVE  LET y == [FinishWithoutData(RequestCancellation(FlushPendingExecutionControls(x)),
                                     "cancelled") EXCEPT !.spawn = "refused"]
         IN  Fits(y) /\ Later(x, y)
  <1> DEFINE w == FlushPendingExecutionControls(x)
             c == [w EXCEPT !.spawn = "refused"]
             d == RequestCancellation([c EXCEPT !.cancelRequested = TRUE])
             e == RequestCancellation(c)
             u == RequestCancellation(w)
             y == [BeginSeal(u, "finishWithoutData") EXCEPT !.spawn = "refused"]
             z == BeginSeal(e, "finishWithoutData")
  <1>1. Fits(c) /\ Later(x, c)
    BY AdmittedFits
  <1>2. /\ DOMAIN w = Fields /\ DOMAIN c = Fields /\ c.spawn = "refused" /\ w.spawn = "answered"
        /\ c.admitted /\ c.terminal = "none" /\ ~c.attempted
        /\ w.admitted /\ w.terminal = "none" /\ ~w.attempted
    BY DEF Fits, Sound, Shaped, SpawnFollows, Over, Fields, FlushPendingExecutionControls
  <1>. HIDE DEF c
  <1>3. /\ Fits(d) /\ Later(c, d) /\ d.spawn = "refused" /\ d.terminal = "none" /\ d.admitted
        /\ ~d.attempted
    BY <1>1, <1>2, RequestFits
  <1>4. DOMAIN e = Fields /\ \A f \in Fields : e[f] = d[f]
    BY <1>2, RequestAsks
  <1>. HIDE DEF d
  <1>5. /\ Fits(e) /\ e.spawn = "refused" /\ e.terminal = "none" /\ e.admitted /\ ~e.attempted
        /\ e.clean = d.clean /\ e.worker = d.worker
    BY <1>3, <1>4, SameFits DEF Fields
  <1>6. Later(x, e)
    BY <1>1, <1>3, <1>5 DEF Later
  <1>. HIDE DEF w
  <1>7. LET a == [u EXCEPT !.spawn = "refused"]
        IN  DOMAIN a = Fields /\ \A f \in Fields : a[f] = e[f]
    BY <1>2, RequestCommutes DEF c
  <1>8. u.spawn = "answered" /\ u.terminal = "none" /\ u.admitted /\ ~u.attempted
    BY <1>2, RequestFields
  <1>. HIDE DEF e, u
  <1>9. DOMAIN u = Fields /\ \A f \in Fields \ {"spawn"} : u[f] = e[f]
    BY <1>7
  <1>10. DOMAIN y = Fields /\ \A f \in Fields : y[f] = z[f]
    BY <1>4, <1>5, <1>8, <1>9, SealCommutes
  <1>11. Fits(z) /\ Later(e, z)
    BY <1>5, SealBegins
  <1>. HIDE DEF z
  <1>12. y = [FinishWithoutData(u, "cancelled") EXCEPT !.spawn = "refused"]
    BY <1>8 DEF FinishWithoutData
  <1>. HIDE DEF y
  <1>13. Fits(y) /\ y.clean = z.clean /\ y.worker = z.worker
    BY <1>10, <1>11, SameFits DEF Fields
  <1>14. Later(x, y)
    BY <1>6, <1>11, <1>13 DEF Later
  <1>. QED
    BY <1>12, <1>13, <1>14 DEF u, w

-----------------------------------------------------------------------------
(* Every action advances its run.                                          *)

\* A record that fits and comes later is what the step needs.
LEMMA StepAdvances ==
  ASSUME NEW r, NEW y, Becomes(r, y), Fits(y), Later(run[r], y)
  PROVE  Advances(r)
  BY DEF Advances

\* Spawn.
LEMMA SpawnAdvances ==
  ASSUME NEW r, Fits(run[r]), Spawn(r)
  PROVE  Advances(r)
  <1>1. PICK n \in {"account", "opening"} : Becomes(r, [run[r] EXCEPT !.spawn = n])
    BY DEF Spawn
  <1>2. run[r].spawn = "idle"
    BY DEF Spawn
  <1>. QED
    BY <1>1, <1>2, SpawnFits, StepAdvances

\* AccountKnown.
LEMMA AccountAdvances ==
  ASSUME NEW r, Fits(run[r]), AccountKnown(r)
  PROVE  Advances(r)
  BY AccountFits, StepAdvances DEF AccountKnown

\* SessionOpened, the one step that gives a run its Worker: the parent is active then.
LEMMA OpenedAdvances ==
  ASSUME NEW r, Fits(run[r]), SessionOpened(r)
  PROVE  Advances(r)
  <1> DEFINE x == [run[r] EXCEPT !.session = "open"]
             stopped == [SettleUnstartedTerminal(x, "cancelled") EXCEPT !.spawn = "local"]
             booting == [x EXCEPT !.worker = "booting", !.spawn = "capacity"]
  <1>1. run[r].spawn = "opening" /\ Becomes(r, IF ToStop(x) THEN stopped ELSE booting)
    BY DEF SessionOpened
  <1>2. CASE ToStop(x)
    <2>1. Fits(stopped) /\ Later(run[r], stopped)
      BY <1>1, OpenStopsFits
    <2>. QED
      BY <1>1, <1>2, <2>1, StepAdvances
  <1>3. CASE ~ToStop(x)
    <2>1. Fits(booting)
      <3>1. booting = [run[r] EXCEPT !.session = "open", !.worker = "booting",
                                     !.spawn = "capacity"]
        OBVIOUS
      <3>. QED
        BY <1>1, <3>1, OpenedFits
    <2>2. booting.clean = run[r].clean
      BY DEF Fits, Sound, Shaped, Fields
    <2>3. parent.active
      BY <1>3 DEF ToStop
    <2>. QED
      BY <1>1, <1>3, <2>1, <2>2, <2>3 DEF Advances
  <1>. QED
    BY <1>2, <1>3

\* OpenRefused.
LEMMA RefusedAdvances ==
  ASSUME NEW r, Fits(run[r]), OpenRefused(r)
  PROVE  Advances(r)
  BY RefusedFits, StepAdvances DEF OpenRefused

\* CapacityKnown.
LEMMA CapacityAdvances ==
  ASSUME NEW r, Fits(run[r]), CapacityKnown(r)
  PROVE  Advances(r)
  BY CapacityFits, StepAdvances DEF CapacityKnown

\* A start that fails leaves a terminal, whatever the reason.
LEMMA StartFailedFits ==
  ASSUME NEW x, Fits(x), NEW why \in {"config", "filter", "boot", "terminated"},
         x.spawn = "booting" \/ (x.spawn = "thrown" /\ why = "terminated")
  PROVE  LET y == StartFailed(x, why)
         IN  Fits(y) /\ Later(x, y)
  <1> DEFINE t == IF x.cancelRequested THEN "cancelled" ELSE "interrupted"
             y == StartFailed(x, why)
  <1>1. t \in Terminals
    BY DEF Terminals
  <1>2. CASE why = "config"
    <2>1. y = [CompleteLocal(x, "failed", TRUE, FALSE) EXCEPT !.spawn = "local"]
      BY <1>2 DEF StartFailed
    <2>. QED
      BY <1>2, <2>1, ConfigFits
  <1>3. CASE why = "filter"
    <2>1. y = [FinishWithoutData(x, "failed") EXCEPT !.spawn = "ok"]
      BY <1>3 DEF StartFailed
    <2>. QED
      BY <1>3, <2>1, FilterFits
  <1>4. CASE why \in {"boot", "terminated"}
    <2>1. y = [SettleUnstartedTerminal(x, t) EXCEPT !.spawn = "local"]
      BY <1>4 DEF StartFailed
    <2>. QED
      BY <1>1, <2>1, UnstartedFits
  <1>. QED
    BY <1>2, <1>3, <1>4

\* StartThrown.
LEMMA ThrownAdvances ==
  ASSUME NEW r, Fits(run[r]), StartThrown(r)
  PROVE  Advances(r)
  BY StartFailedFits, StepAdvances DEF StartThrown

\* DataAdmits, or refuses.
LEMMA DataAdmitsAdvances ==
  ASSUME NEW r, Fits(run[r]), DataAdmits(r)
  PROVE  Advances(r)
  BY AdmitsFits, RejectsFits, StepAdvances DEF DataAdmits

\* Admitted: the run looks again whether it is to be stopped.
LEMMA AdmittedAdvances ==
  ASSUME NEW r, Fits(run[r]), Admitted(r)
  PROVE  Advances(r)
  <1> DEFINE x == FlushPendingExecutionControls(run[r])
             stopped == [FinishWithoutData(RequestCancellation(x), "cancelled")
                           EXCEPT !.spawn = "refused"]
             going == [Send(x, "turn") EXCEPT !.spawn = "ok"]
  <1>1. run[r].spawn = "answered" /\ Becomes(r, IF ToStop(x) THEN stopped ELSE going)
    BY DEF Admitted
  <1>2. CASE ToStop(x)
    <2>1. Fits(stopped) /\ Later(run[r], stopped)
      BY <1>1, AdmittedStops
    <2>. QED
      BY <1>1, <1>2, <2>1, StepAdvances
  <1>3. CASE ~ToStop(x)
    <2>1. ~run[r].cancelRequested
      BY <1>3 DEF ToStop, FlushPendingExecutionControls, Fits, Sound, Shaped, Fields
    <2>2. Fits(going) /\ Later(run[r], going)
      BY <1>1, <2>1, AdmittedGoes
    <2>. QED
      BY <1>1, <1>3, <2>2, StepAdvances
  <1>. QED
    BY <1>2, <1>3

\* AdmissionRejected.
LEMMA RejectedAdvances ==
  ASSUME NEW r, Fits(run[r]), AdmissionRejected(r)
  PROVE  Advances(r)
  BY RejectedFits, StepAdvances DEF AdmissionRejected

\* LocalSettled.
LEMMA LocalAdvances ==
  ASSUME NEW r, Fits(run[r]), LocalSettled(r)
  PROVE  Advances(r)
  BY LocalFits, StepAdvances DEF LocalSettled

\* WorkerBoots, or reports why not.
LEMMA BootsAdvances ==
  ASSUME NEW r, Fits(run[r]), WorkerBoots(r)
  PROVE  Advances(r)
  <1>1. run[r].worker = "booting" /\ run[r].spawn = "booting"
    BY DEF WorkerBoots
  <1>2. CASE Becomes(r, [run[r] EXCEPT !.worker = "idle", !.toHost = Append(@, "ready")])
    BY <1>1, <1>2, ReadyFits, StepAdvances
  <1>3. ASSUME NEW why \in {"config", "filter", "boot"},
               Becomes(r, [run[r] EXCEPT !.worker = "ended", !.toHost = Append(@, why)])
        PROVE  Advances(r)
    BY <1>1, <1>3, BootFailsFits, StepAdvances
  <1>. QED
    BY <1>2, <1>3 DEF WorkerBoots

\* WorkerReceives, whichever message is first.
LEMMA ReceivesAdvances ==
  ASSUME NEW r, Fits(run[r]), WorkerReceives(r)
  PROVE  Advances(r)
  <1> DEFINE q == run[r].toWorker
             x == [run[r] EXCEPT !.toWorker = Tail(@)]
             turn == [x EXCEPT !.worker = "running"]
             late == [x EXCEPT !.toHost = Append(@, "error")]
             cancel == [x EXCEPT !.heard = @ \/ x.worker = "running",
                                 !.toHost = Append(@, "cancel_received")]
             ack == [x EXCEPT !.worker = "idle", !.toHost = Append(@, "turn_settled")]
             close == [x EXCEPT !.worker = "ended", !.toHost = Append(@, "closed")]
  <1>1. q # << >> /\ run[r].worker \in {"idle", "running", "waiting"}
    BY DEF WorkerReceives
  <1>2. q \in Seq(ToWorker)
    BY DEF Fits, Sound, Shaped
  <1>3. Head(q) \in {"turn", "cancel", "ack", "close"}
    BY <1>1, <1>2 DEF ToWorker
  <1>4. x.portClosed = run[r].portClosed /\ x.worker = run[r].worker
    BY DEF Fits, Sound, Shaped, Fields
  <1>5. Becomes(r, CASE Head(q) = "turn" /\ ~x.portClosed -> turn
                     [] Head(q) = "turn" /\ x.portClosed -> late
                     [] Head(q) = "cancel" -> cancel
                     [] Head(q) = "ack" -> ack
                     [] Head(q) = "close" -> close)
    BY DEF WorkerReceives
  <1>6. CASE Head(q) = "turn" /\ ~x.portClosed
    <2>1. Becomes(r, turn)
      BY <1>5, <1>6
    <2>. QED
      BY <1>1, <1>4, <1>6, <2>1, TurnFits, StepAdvances
  <1>7. CASE Head(q) = "turn" /\ x.portClosed
    <2>1. Becomes(r, late)
      BY <1>5, <1>7
    <2>. QED
      BY <1>1, <1>4, <1>7, <2>1, TurnErrsFits, StepAdvances
  <1>8. CASE Head(q) = "cancel"
    <2>1. Becomes(r, cancel)
      BY <1>5, <1>8
    <2>2. cancel = [x EXCEPT !.heard = @ \/ run[r].worker = "running",
                             !.toHost = Append(@, "cancel_received")]
      BY <1>4
    <2>. QED
      BY <1>1, <1>8, <2>1, <2>2, CancelFits, StepAdvances
  <1>9. CASE Head(q) = "ack"
    <2>1. Becomes(r, ack)
      BY <1>5, <1>9
    <2>. QED
      BY <1>1, <1>9, <2>1, AckFits, StepAdvances
  <1>10. CASE Head(q) = "close"
    <2>1. Becomes(r, close)
      BY <1>5, <1>10
    <2>. QED
      BY <1>1, <1>10, <2>1, CloseReadFits, StepAdvances
  <1>. QED
    BY <1>3, <1>6, <1>7, <1>8, <1>9, <1>10

\* WorkerFinishes.
LEMMA FinishesAdvances ==
  ASSUME NEW r, Fits(run[r]), WorkerFinishes(r)
  PROVE  Advances(r)
  <1>1. run[r].worker = "running"
    BY DEF WorkerFinishes
  <1>2. ASSUME NEW m \in {"proposal", "failure"},
               Becomes(r, [run[r] EXCEPT !.worker = "waiting", !.toHost = Append(@, m)])
        PROVE  Advances(r)
    BY <1>1, <1>2, FinishesFits, StepAdvances
  <1>3. CASE Becomes(r, [run[r] EXCEPT !.worker = "idle", !.toHost = Append(@, "error")])
    BY <1>1, <1>3, FinishErrsFits, StepAdvances
  <1>. QED
    BY <1>2, <1>3 DEF WorkerFinishes

\* WorkerErrs.
LEMMA ErrsAdvances ==
  ASSUME NEW r, Fits(run[r]), WorkerErrs(r)
  PROVE  Advances(r)
  BY ErrsFits, StepAdvances DEF WorkerErrs

\* The child's Worker is up.
LEMMA StartedAdvances ==
  ASSUME NEW r, NEW x, Fits(x), Later(run[r], x), x.spawn = "booting", x.worker = "idle",
         \A i \in DOMAIN x.toHost : x.toHost[i] \notin Boots, Becomes(r, Started(x))
  PROVE  Advances(r)
  <1> DEFINE y == [x EXCEPT !.started = TRUE]
             stopped == [SettleUnstartedTerminal(y, "cancelled") EXCEPT !.spawn = "local"]
             going == [y EXCEPT !.spawn = "admitting"]
  <1>1. CASE ToStop(y)
    <2>1. Fits(y) /\ Later(x, y)
      BY StartedFits
    <2>2. y.spawn = "booting" /\ "cancelled" \in Terminals
      BY DEF Fits, Sound, Shaped, Fields, Terminals
    <2>3. Becomes(r, stopped)
      BY <1>1 DEF Started
    <2>. HIDE DEF y
    <2>4. Fits(stopped) /\ Later(y, stopped)
      BY <2>1, <2>2, UnstartedFits
    <2>5. Later(run[r], stopped)
      BY <2>1, <2>4, LaterStill
    <2>. QED
      BY <2>3, <2>4, <2>5, StepAdvances
  <1>2. CASE ~ToStop(y)
    <2>1. Becomes(r, going)
      BY <1>2 DEF Started
    <2>2. Fits(going) /\ Later(x, going)
      BY StartedGoes
    <2>. QED
      BY <2>1, <2>2, LaterStill, StepAdvances
  <1>. QED
    BY <1>1, <1>2

\* A message that comes first in the queue leaves a run whose Worker has not sent another boot.
LEMMA RouteTakes ==
  ASSUME NEW z, Fits(z), z.toHost # << >>
  PROVE  LET x == [z EXCEPT !.toHost = Tail(@)]
             m == Head(z.toHost)
         IN  /\ Fits(x) /\ Later(z, x) /\ m \in ToHost
             /\ m \in Boots => x.spawn = "booting"
             /\ m = "ready" => x.worker = "idle"
             /\ \A i \in DOMAIN x.toHost : x.toHost[i] \notin Boots
             /\ x.admitted = z.admitted
  <1> DEFINE x == [z EXCEPT !.toHost = Tail(@)]
             m == Head(z.toHost)
  <1>1. Fits(x) /\ Later(z, x)
    BY RouteFits
  <1>2. /\ x.spawn = z.spawn /\ x.worker = z.worker /\ x.admitted = z.admitted
        /\ x.toHost = Tail(z.toHost) /\ z.toHost \in Seq(ToHost)
    BY DEF Fits, Sound, Shaped, Fields
  <1>3. m = z.toHost[1] /\ 1 \in DOMAIN z.toHost /\ m \in ToHost
    BY <1>2
  <1>4. \A i \in DOMAIN z.toHost : z.toHost[i] \in Boots =>
          i = 1 /\ z.spawn = "booting" /\ (z.toHost[i] = "ready" => z.worker = "idle")
    BY DEF Fits, Sound, WorkerFollows
  <1>5. ASSUME NEW i \in DOMAIN x.toHost PROVE x.toHost[i] \notin Boots
    <2>1. i + 1 \in DOMAIN z.toHost /\ x.toHost[i] = z.toHost[i + 1] /\ i + 1 # 1
      BY <1>2
    <2>. QED
      BY <1>4, <2>1
  <1>6. "ready" \in Boots
    BY DEF Boots
  <1>. HIDE DEF x, m
  <1>7. /\ m \in Boots => x.spawn = "booting"
        /\ m = "ready" => x.worker = "idle"
    BY <1>2, <1>3, <1>4, <1>6
  <1>. QED
    BY <1>1, <1>2, <1>3, <1>5, <1>7 DEF x, m

\* RouteChildMessage, whichever message is first.
LEMMA RouteAdvances ==
  ASSUME NEW r, Fits(run[r]), RouteChildMessage(r)
  PROVE  Advances(r)
  <1> DEFINE z == run[r]
             x == [z EXCEPT !.toHost = Tail(@)]
             m == Head(z.toHost)
             published == [x EXCEPT !.unread = @ \cup {m}]
  <1>1. z.toHost # << >>
    BY DEF RouteChildMessage
  <1>2. /\ Fits(x) /\ Later(z, x) /\ m \in ToHost
        /\ m \in Boots => x.spawn = "booting"
        /\ m = "ready" => x.worker = "idle"
        /\ \A i \in DOMAIN x.toHost : x.toHost[i] \notin Boots
    BY <1>1, RouteTakes
  <1>3. Becomes(r, CASE m = "ready" -> Started(x)
                     [] m \in {"config", "filter", "boot"} -> StartFailed(x, m)
                     [] m = "cancel_received" -> RecordExecutionControl(x)
                     [] m \in {"proposal", "failure"} -> SettleChildMessage(x, m)
                     [] m \in {"turn_settled", "closed"} -> published
                     [] m = "error" /\ x.admitted -> FailChild(published)
                     [] m = "error" /\ ~x.admitted -> published)
    BY DEF RouteChildMessage
  <1>. HIDE DEF x, m
  <1>4. CASE m = "ready"
    <2>1. Becomes(r, Started(x))
      BY <1>3, <1>4
    <2>2. x.spawn = "booting"
      BY <1>2, <1>4 DEF Boots
    <2>. QED
      BY <1>2, <1>4, <2>1, <2>2, StartedAdvances
  <1>5. CASE m \in {"config", "filter", "boot"}
    <2>1. Becomes(r, StartFailed(x, m))
      BY <1>3, <1>5
    <2>2. x.spawn = "booting"
      BY <1>2, <1>5 DEF Boots
    <2>3. Fits(StartFailed(x, m)) /\ Later(x, StartFailed(x, m))
      BY <1>2, <1>5, <2>2, StartFailedFits
    <2>. QED
      BY <1>2, <2>1, <2>3, LaterStill, StepAdvances
  <1>6. CASE m = "cancel_received"
    <2>1. Becomes(r, RecordExecutionControl(x))
      BY <1>3, <1>6
    <2>2. Fits(RecordExecutionControl(x)) /\ Later(x, RecordExecutionControl(x))
      BY <1>2, RecordKeeps
    <2>. QED
      BY <1>2, <2>1, <2>2, LaterStill, StepAdvances
  <1>7. CASE m \in {"proposal", "failure"}
    <2>1. Becomes(r, SettleChildMessage(x, m))
      BY <1>3, <1>7
    <2>2. Fits(SettleChildMessage(x, m)) /\ Later(x, SettleChildMessage(x, m))
      BY <1>2, <1>7, MessageFits
    <2>. QED
      BY <1>2, <2>1, <2>2, LaterStill, StepAdvances
  <1>8. CASE m \in {"turn_settled", "closed", "error"}
    <2>1. Fits(published) /\ Later(x, published) /\ published.admitted = x.admitted
      <3>1. Fits(published) /\ Later(x, published)
        BY <1>2, <1>8, PublishedFits
      <3>2. published.admitted = x.admitted
        BY <1>2 DEF Fits, Sound, Shaped, Fields
      <3>. QED
        BY <3>1, <3>2
    <2>2. CASE Becomes(r, published)
      BY <1>2, <2>1, <2>2, LaterStill, StepAdvances
    <2>3. CASE m = "error" /\ x.admitted /\ Becomes(r, FailChild(published))
      <3>. HIDE DEF published
      <3>1. Fits(FailChild(published)) /\ Later(published, FailChild(published))
        BY <2>1, <2>3, FailFits
      <3>. QED
        BY <1>2, <2>1, <2>3, <3>1, LaterStill, StepAdvances
    <2>4. Becomes(r, published) \/ (m = "error" /\ x.admitted /\ Becomes(r, FailChild(published)))
      BY <1>3, <1>8
    <2>. QED
      BY <2>2, <2>3, <2>4
  <1>. QED
    BY <1>2, <1>4, <1>5, <1>6, <1>7, <1>8 DEF ToHost, Boots

\* DataSettles, or refuses.
LEMMA DataSettlesAdvances ==
  ASSUME NEW r, Fits(run[r]), DataSettles(r)
  PROVE  Advances(r)
  <1>1. run[r].settle \in {"proposal", "failure"}
    BY DEF DataSettles
  <1>2. CASE run[r].exec = "admitted"
             /\ \E t \in IF run[r].settle = "proposal" THEN {"completed"}
                         ELSE {"failed", "cancelled"} :
                  Becomes(r, [run[r] EXCEPT !.exec = t, !.settle = "answered"])
    <2>1. PICK t \in Terminals : Becomes(r, [run[r] EXCEPT !.exec = t, !.settle = "answered"])
      BY <1>2 DEF Terminals
    <2>. QED
      BY <1>1, <1>2, <2>1, DataSettlesFits, StepAdvances
  <1>3. CASE Becomes(r, [run[r] EXCEPT !.settle = "error"])
    BY <1>1, <1>3, SettleErrs, StepAdvances
  <1>. QED
    BY <1>2, <1>3 DEF DataSettles

\* Acknowledge: two facts and the message.
LEMMA AcknowledgeAdvances ==
  ASSUME NEW r, Fits(run[r]), Acknowledge(r)
  PROVE  Advances(r)
  <1> DEFINE x == run[r]
             a == RecordExecutionControl(x)
             b == RecordExecutionControl(a)
             c == Send(b, "ack")
             d == [c EXCEPT !.settle = "acknowledged"]
  <1>1. x.settle = "answered" /\ Becomes(r, d)
    BY DEF Acknowledge
  <1>2. x.worker # "none"
    BY <1>1 DEF Fits, Sound, SpawnFollows, SettlementFollows
  <1>3. Fits(a) /\ Later(x, a) /\ a.settle = x.settle /\ a.worker = x.worker
    BY RecordKeeps
  <1>. HIDE DEF a
  <1>4. Fits(b) /\ Later(a, b) /\ b.settle = x.settle /\ b.worker = x.worker
    BY <1>3, RecordKeeps
  <1>. HIDE DEF b
  <1>5. Fits(c) /\ Later(b, c) /\ c.settle = x.settle
    BY <1>2, <1>4, AckSent
  <1>. HIDE DEF c
  <1>6. Fits(d) /\ Later(c, d)
    BY <1>1, <1>5, AckSetFits
  <1>7. Later(x, d)
    BY <1>3, <1>4, <1>5, <1>6, LaterStill
  <1>. QED
    BY <1>1, <1>6, <1>7, StepAdvances

\* SettleAcknowledged: the terminal is the one Data has stored.
LEMMA AcknowledgedAdvances ==
  ASSUME NEW r, Fits(run[r]), SettleAcknowledged(r)
  PROVE  Advances(r)
  <1> DEFINE x == run[r]
  <1>1. PICK m \in x.unread \cap {"turn_settled", "error"} :
          Becomes(r, CompleteFromData([x EXCEPT !.unread = @ \ {m}, !.settle = "done"]))
    BY DEF SettleAcknowledged
  <1>2. x.settle = "acknowledged"
    BY DEF SettleAcknowledged
  <1> DEFINE a == [x EXCEPT !.unread = @ \ {m}, !.settle = "done"]
  <1>3. Fits(a) /\ Later(x, a)
    BY <1>2, ReadDoneFits
  <1>4. a.admitted /\ a.exec \in Terminals
    BY <1>2 DEF Fits, Sound, Shaped, Fields, SettlementFollows
  <1>. HIDE DEF a
  <1>5. Fits(CompleteFromData(a)) /\ Later(a, CompleteFromData(a))
    BY <1>3, <1>4, FromDataFits
  <1>. QED
    BY <1>1, <1>3, <1>5, LaterStill, StepAdvances DEF a

\* A run whose settlement failed is interrupted without a durable terminal.
LEMMA InterruptFits ==
  ASSUME NEW x, Fits(x), x.spawn \in Over
  PROVE  LET y == CompleteLocal(x, "interrupted", FALSE, FALSE)
         IN  Fits(y) /\ Later(x, y)
  <1>1. "interrupted" \in Terminals
    BY DEF Terminals
  <1>. QED
    BY <1>1, CompleteFits

\* SettleFailed: unless the forced seal has taken over.
LEMMA SettleFailedAdvances ==
  ASSUME NEW r, Fits(run[r]), SettleFailed(r)
  PROVE  Advances(r)
  <1> DEFINE x == [run[r] EXCEPT !.settle = "done"]
             y == CompleteLocal(x, "interrupted", FALSE, FALSE)
  <1>1. run[r].settle = "error" /\ Becomes(r, IF x.forced THEN x ELSE y)
    BY DEF SettleFailed
  <1>2. Fits(x) /\ Later(run[r], x)
    BY <1>1, SettleDoneFits
  <1>3. x.spawn \in Over
    BY <1>1 DEF Fits, Sound, Shaped, Fields, SettlementFollows, SpawnFollows, Over
  <1>. HIDE DEF x
  <1>4. Fits(y) /\ Later(x, y)
    BY <1>2, <1>3, InterruptFits
  <1>. HIDE DEF y
  <1>5. Becomes(r, x) \/ Becomes(r, y)
    BY <1>1
  <1>. QED
    BY <1>2, <1>4, <1>5, LaterStill, StepAdvances

\* Seal, at each of its waits.
LEMMA SealAdvances ==
  ASSUME NEW r, Fits(run[r]), Seal(r)
  PROVE  Advances(r)
  <1> DEFINE x == run[r]
             kind == IF x.sealer = "failChild" THEN "interrupted" ELSE "cancelled"
             done == [x EXCEPT !.seal = "done"]
  <1>1. x.seal # "none"
    BY DEF Seal
  <1>2. x.admitted /\ x.spawn \in Over
    BY <1>1 DEF Fits, Sound, SettlementFollows, SpawnFollows, Over
  <1>3. /\ Fits(done) /\ Later(x, done) /\ done.admitted /\ done.spawn \in Over
        /\ done.exec = x.exec
    <2>1. Fits(done) /\ Later(x, done)
      BY <1>1, SealToFits
    <2>2. done.admitted = x.admitted /\ done.spawn = x.spawn /\ done.exec = x.exec
      BY DEF Fits, Sound, Shaped, Fields
    <2>. QED
      BY <1>2, <2>1, <2>2
  <1>4. CASE /\ x.seal = "terminating"
             /\ Becomes(r, [x EXCEPT !.seal = IF x.physical = "done" THEN "calling" ELSE "failed"])
    <2>1. PICK n \in {"calling", "failed"} : Becomes(r, [x EXCEPT !.seal = n])
      BY <1>4
    <2>. QED
      BY <1>1, <2>1, SealToFits, StepAdvances
  <1>5. CASE x.seal = "calling" /\ Becomes(r, [DataSeals(x, kind) EXCEPT !.seal = "answered"])
    <2>1. kind \in {"interrupted", "cancelled"}
      OBVIOUS
    <2>. HIDE DEF kind
    <2>. QED
      BY <1>5, <2>1, SealAnswers, StepAdvances
  <1>6. CASE x.seal = "calling" /\ Becomes(r, [x EXCEPT !.seal = "error"])
    BY <1>1, <1>6, SealToFits, StepAdvances
  <1>7. CASE x.seal = "answered" /\ Becomes(r, CompleteFromData(done))
    <2>1. done.exec \in Terminals
      BY <1>3, <1>7 DEF Fits, Sound, SettlementFollows
    <2>. HIDE DEF done
    <2>2. Fits(CompleteFromData(done)) /\ Later(done, CompleteFromData(done))
      BY <1>3, <2>1, FromDataFits
    <2>. QED
      BY <1>3, <1>7, <2>2, LaterStill, StepAdvances
  <1>8. CASE Becomes(r, done)
    BY <1>3, <1>8, StepAdvances
  <1>9. CASE Becomes(r, CompleteLocal(done, "interrupted", FALSE, FALSE))
    <2> DEFINE y == CompleteLocal(done, "interrupted", FALSE, FALSE)
    <2>. HIDE DEF done
    <2>1. Fits(y) /\ Later(done, y)
      BY <1>3, InterruptFits
    <2>. QED
      BY <1>3, <1>9, <2>1, LaterStill, StepAdvances
  <1>. QED
    BY <1>4, <1>5, <1>6, <1>7, <1>8, <1>9 DEF Seal

\* ForceSeal, at each of its waits.
LEMMA ForceAdvances ==
  ASSUME NEW r, Fits(run[r]), ForceSeal(r)
  PROVE  Advances(r)
  <1> DEFINE x == run[r]
             over == [x EXCEPT !.force = "finalizing"]
  <1>1. x.force # "none"
    BY DEF ForceSeal
  <1>2. x.admitted /\ x.spawn \in Over
    BY <1>1 DEF Fits, Sound, SettlementFollows, SpawnFollows, Over
  <1>3. /\ Fits(over) /\ Later(x, over) /\ over.admitted /\ over.spawn \in Over
        /\ over.exec = x.exec
    <2>1. Fits(over) /\ Later(x, over)
      BY <1>1, ForceToFits
    <2>2. over.admitted = x.admitted /\ over.spawn = x.spawn /\ over.exec = x.exec
      BY DEF Fits, Sound, Shaped, Fields
    <2>. QED
      BY <1>2, <2>1, <2>2
  <1>4. CASE Becomes(r, [x EXCEPT !.force = IF x.terminal = "none" THEN "calling" ELSE "done"])
    <2>1. PICK n \in {"calling", "done"} :
            Becomes(r, [x EXCEPT !.force = n]) /\ (n = "done" => x.terminal # "none")
      BY <1>4
    <2>. QED
      BY <1>1, <2>1, ForceToFits, StepAdvances
  <1>5. CASE Becomes(r, [x EXCEPT !.force = "failed"])
    BY <1>1, <1>5, ForceToFits, StepAdvances
  <1>6. CASE /\ x.force = "calling"
             /\ Becomes(r, [DataSeals(x, "interrupted") EXCEPT !.force = "answered"])
    BY <1>6, ForceAnswers, StepAdvances
  <1>7. CASE Becomes(r, [x EXCEPT !.force = "error"])
    BY <1>1, <1>7, ForceToFits, StepAdvances
  <1>8. CASE x.force = "answered" /\ Becomes(r, CompleteFromData(over))
    <2>1. over.exec \in Terminals
      BY <1>3, <1>8 DEF Fits, Sound, SettlementFollows
    <2>. HIDE DEF over
    <2>2. Fits(CompleteFromData(over)) /\ Later(over, CompleteFromData(over))
      BY <1>3, <2>1, FromDataFits
    <2>. QED
      BY <1>3, <1>8, <2>2, LaterStill, StepAdvances
  <1>9. CASE Becomes(r, CompleteLocal(over, "interrupted", FALSE, FALSE))
    <2> DEFINE y == CompleteLocal(over, "interrupted", FALSE, FALSE)
    <2>. HIDE DEF over
    <2>1. Fits(y) /\ Later(over, y)
      BY <1>3, InterruptFits
    <2>. QED
      BY <1>3, <1>9, <2>1, LaterStill, StepAdvances
  <1>10. CASE x.force = "finalizing" /\ Settled(x) /\ Becomes(r, [x EXCEPT !.force = "done"])
    <2>1. x.terminal # "none"
      BY <1>10 DEF Settled, Fits, Sound, SettlementFollows
    <2>. QED
      BY <1>1, <1>10, <2>1, ForceToFits, StepAdvances
  <1>. QED
    BY <1>4, <1>5, <1>6, <1>7, <1>8, <1>9, <1>10 DEF ForceSeal

\* CloseAnswered.
LEMMA CloseAdvances ==
  ASSUME NEW r, Fits(run[r]), CloseAnswered(r)
  PROVE  Advances(r)
  <1> DEFINE x == run[r]
  <1>1. PICK m \in x.unread \cap {"closed", "error"} :
          Becomes(r, [Terminated([x EXCEPT !.unread = @ \ {m}])
                        EXCEPT !.physical = IF m = "error" THEN "swallowed" ELSE "cleaning"])
    BY DEF CloseAnswered
  <1> DEFINE a == [x EXCEPT !.unread = @ \ {m}]
             b == Terminated(a)
             p == IF m = "error" THEN "swallowed" ELSE "cleaning"
             c == [b EXCEPT !.physical = p]
  <1>2. x.physical = "closing"
    BY DEF CloseAnswered
  <1>3. Fits(a) /\ Later(x, a)
    BY ReadFits
  <1>4. a.physical = "closing" /\ a.worker # "none"
    BY <1>2 DEF Fits, Sound, Shaped, Fields, WorkerFollows
  <1>5. p \in {"swallowed", "cleaning"}
    OBVIOUS
  <1>. HIDE DEF a, p
  <1>6. Fits(b) /\ Later(a, b) /\ b.physical = "closing" /\ b.worker = "terminated"
    <2>1. Fits(b) /\ Later(a, b)
      BY <1>3, <1>4, TerminatedFits
    <2>2. b.physical = a.physical /\ b.worker = "terminated"
      BY <1>3 DEF Terminated, Fits, Sound, Shaped, Fields
    <2>. QED
      BY <1>4, <2>1, <2>2
  <1>. HIDE DEF b
  <1>7. Fits(c) /\ Later(b, c)
    BY <1>5, <1>6, PhysicalFits
  <1>8. Becomes(r, c)
    BY <1>1 DEF a, b, p
  <1>. QED
    BY <1>3, <1>6, <1>7, <1>8, LaterStill, StepAdvances

\* ProcessesCleaned, or not.
LEMMA CleanedAdvances ==
  ASSUME NEW r, Fits(run[r]), ProcessesCleaned(r)
  PROVE  Advances(r)
  <1>1. run[r].physical \in {"cleaning", "swallowed"}
    BY DEF ProcessesCleaned
  <1>2. PICK p \in {"facts", "factsFailed"} :
          Becomes(r, [[RecordExecutionControl(run[r])
                         EXCEPT !.cleanupFact = IF run[r].admitted THEN run[r].next ELSE 0]
                        EXCEPT !.physical = p])
    BY DEF ProcessesCleaned
  <1>. QED
    BY <1>1, <1>2, CleanedFits, StepAdvances

\* A number that a queue does not contain is at none of its places.
LEMMA NotContained ==
  ASSUME NEW q \in Seq(Nat), NEW f, ~Contains(q, f)
  PROVE  \A i \in DOMAIN q : q[i] # f
  BY DEF Contains

\* FactsAwaited.
LEMMA AwaitedAdvances ==
  ASSUME NEW r, Fits(run[r]), FactsAwaited(r)
  PROVE  Advances(r)
  <1> DEFINE x == run[r]
  <1>1. /\ x.physical \in {"facts", "factsFailed"} /\ ~Contains(x.queued, x.cleanupFact)
        /\ Becomes(r, [x EXCEPT !.physical = IF @ = "facts" THEN "done" ELSE "failed"])
    BY DEF FactsAwaited
  <1>2. x.queued \in Seq(Nat)
    BY DEF Fits, Sound, FactsFollow, Counted
  <1>3. \A i \in DOMAIN x.queued : x.queued[i] # x.cleanupFact
    BY <1>1, <1>2, NotContained
  <1>. QED
    BY <1>1, <1>3, AwaitedFits, StepAdvances

\* WriteFact, or its loss.
LEMMA WriteAdvances ==
  ASSUME NEW r, Fits(run[r]), WriteFact(r)
  PROVE  Advances(r)
  <1> DEFINE x == [run[r] EXCEPT !.queued = Tail(@)]
             y == [x EXCEPT !.written = Append(@, Head(run[r].queued))]
  <1>1. run[r].queued # << >> /\ Becomes(r, IF x.session = "open" THEN y ELSE x)
    BY DEF WriteFact
  <1>2. x.session = run[r].session
    BY DEF Fits, Sound, Shaped, Fields
  <1>3. CASE run[r].session = "open"
    BY <1>1, <1>2, <1>3, WrittenFits, StepAdvances
  <1>4. CASE run[r].session # "open"
    BY <1>1, <1>2, <1>4, LostFits, StepAdvances
  <1>. QED
    BY <1>3, <1>4

\* Finalize, at each of its waits.
LEMMA FinalizeAdvances ==
  ASSUME NEW r, Fits(run[r]), Finalize(r)
  PROVE  Advances(r)
  <1> DEFINE x == run[r]
  <1>1. x.final # "none" => x.terminal # "none"
    BY DEF Fits, Sound, SettlementFollows
  <1>2. CASE /\ x.final = "terminating" /\ WorkerIsOver(x)
             /\ Becomes(r, [x EXCEPT !.final = "closing"])
    BY <1>2, ClosingFits, StepAdvances
  <1>3. CASE /\ x.final = "terminating" /\ x.physical = "failed"
             /\ Becomes(r, [x EXCEPT !.final = "done", !.durable = FALSE])
    BY <1>3, FinalFailsFits, StepAdvances
  <1>4. CASE x.final = "closing" /\ Becomes(r, [CloseSession(x) EXCEPT !.final = "done"])
    BY <1>1, <1>4, FinalizedFits, StepAdvances
  <1>. QED
    BY <1>2, <1>3, <1>4 DEF Finalize

\* Collect.
LEMMA CollectAdvances ==
  ASSUME NEW r, Fits(run[r]), Collect(r)
  PROVE  Advances(r)
  BY CollectFits, StepAdvances DEF Collect

\* CancelChild.
LEMMA CancelAdvances ==
  ASSUME NEW r, Fits(run[r]), CancelChild(r)
  PROVE  Advances(r)
  BY CleanupRunFits, StepAdvances DEF CancelChild

\* CleanAdmission.
LEMMA AdmissionAdvances ==
  ASSUME NEW r, Fits(run[r]), CleanAdmission(r)
  PROVE  Advances(r)
  BY AdmissionFits, StepAdvances DEF CleanAdmission

\* GraceEnds: a start that takes too long is terminated.
LEMMA GraceAdvances ==
  ASSUME NEW r, Fits(run[r]), GraceEnds(r)
  PROVE  Advances(r)
  <1> DEFINE x == [run[r] EXCEPT !.clean = "startup"]
             y == TerminateWorker(x, FALSE)
  <1>1. run[r].clean = "grace" /\ Becomes(r, IF x.terminal = "none" THEN y ELSE x)
    BY DEF GraceEnds
  <1>2. Fits(x) /\ Later(run[r], x)
    BY <1>1, StartupFits
  <1>. HIDE DEF x
  <1>3. Fits(y) /\ Later(x, y)
    BY <1>2, TerminateFits
  <1>. HIDE DEF y
  <1>4. Becomes(r, y) \/ Becomes(r, x)
    BY <1>1
  <1>. QED
    BY <1>2, <1>3, <1>4, LaterStill, StepAdvances

\* CleanStarted, by what became of the start.
LEMMA StartedCleanAdvances ==
  ASSUME NEW r, Fits(run[r]), CleanStarted(r)
  PROVE  Advances(r)
  <1> DEFINE x == run[r]
             a == [x EXCEPT !.clean = "finalizing"]
             i == CompleteLocal(a, "interrupted", FALSE, FALSE)
             c == CompleteLocal(a, "cancelled", TRUE, FALSE)
             b == [x EXCEPT !.clean = "refused"]
             n == CompleteLocal(b, "interrupted", FALSE, FALSE)
  <1>1. StartupComplete(x) /\ x.clean \in {"grace", "startup"}
    BY DEF CleanStarted
  <1>2. Becomes(r, CASE x.admissionError -> i
                     [] ~x.admissionError /\ x.executionRefused /\ ~x.admitted -> n
                     [] ~x.admissionError /\ ~x.executionRefused /\ ~x.admitted -> c
                     [] x.admitted /\ x.terminal = "none" -> [x EXCEPT !.clean = "settlement"]
                     [] x.admitted /\ x.terminal # "none" -> [x EXCEPT !.clean = "end"])
    BY DEF CleanStarted
  <1>3. /\ x.admissionError => ~x.admitted
        /\ ~x.admitted => x.exec = "none"
        /\ x.admitted \in BOOLEAN /\ x.admissionError \in BOOLEAN
        /\ x.executionRefused \in BOOLEAN
    BY <1>1 DEF Fits, Sound, SpawnFollows, Flags, StartupComplete
  <1>4. Fits(a) /\ Later(x, a)
    BY <1>1, CleanToFits
  <1>5. a.spawn \in Over /\ a.exec = x.exec
    BY <1>1 DEF Fits, Sound, Shaped, Fields, StartupComplete, Over
  <1>6. x.executionRefused => Fits(b) /\ Later(x, b) /\ b.spawn \in Over
    <2>1. x.executionRefused => Fits(b) /\ Later(x, b)
      BY <1>1, CleanToFits
    <2>2. b.spawn \in Over
      BY <1>1 DEF Fits, Sound, Shaped, Fields, StartupComplete, Over
    <2>. QED
      BY <2>1, <2>2
  <1>. HIDE DEF a, b
  <1>7. Fits(i) /\ Later(a, i)
    BY <1>4, <1>5, InterruptFits
  <1>8. CASE ~x.admissionError /\ x.executionRefused /\ ~x.admitted
    <2>1. Fits(n) /\ Later(b, n)
      BY <1>6, <1>8, InterruptFits
    <2>. HIDE DEF n, i, c
    <2>2. Becomes(r, n)
      BY <1>2, <1>3, <1>8
    <2>. QED
      BY <1>6, <1>8, <2>1, <2>2, LaterStill, StepAdvances
  <1>9. CASE x.admissionError
    <2>. HIDE DEF i, c, n
    <2>1. Becomes(r, i)
      BY <1>2, <1>3, <1>9
    <2>. QED
      BY <1>4, <1>7, <2>1, LaterStill, StepAdvances
  <1>10. CASE ~x.admissionError /\ ~x.executionRefused /\ ~x.admitted
    <2>1. Fits(c) /\ Later(a, c)
      <3>1. "cancelled" \in Terminals /\ TRUE \in BOOLEAN /\ FALSE \in BOOLEAN
        BY DEF Terminals
      <3>2. a.exec = "none"
        BY <1>3, <1>5, <1>10
      <3>. QED
        BY <1>4, <1>5, <3>1, <3>2, CompleteFits
    <2>. HIDE DEF i, c, n
    <2>2. Becomes(r, c)
      BY <1>2, <1>3, <1>10
    <2>. QED
      BY <1>4, <2>1, <2>2, LaterStill, StepAdvances
  <1>11. CASE x.admitted /\ x.terminal = "none"
    <2>. HIDE DEF i, c, n
    <2>1. Becomes(r, [x EXCEPT !.clean = "settlement"])
      BY <1>2, <1>3, <1>11
    <2>. QED
      BY <1>1, <1>11, <2>1, CleanToFits, StepAdvances
  <1>12. CASE x.admitted /\ x.terminal # "none"
    <2>. HIDE DEF i, c, n
    <2>1. Becomes(r, [x EXCEPT !.clean = "end"])
      BY <1>2, <1>3, <1>12
    <2>. QED
      BY <1>1, <1>12, <2>1, CleanToFits, StepAdvances
  <1>. QED
    BY <1>3, <1>9, <1>10, <1>11, <1>12, <1>8

\* SettlementSeen.
LEMMA SeenAdvances ==
  ASSUME NEW r, Fits(run[r]), SettlementSeen(r)
  PROVE  Advances(r)
  <1>1. Becomes(r, [run[r] EXCEPT !.clean = "end"])
    BY DEF SettlementSeen
  <1>2. run[r].clean \in {"settlement", "finalizing", "forced"}
    BY DEF SettlementSeen
  <1>3. run[r].terminal # "none"
    BY DEF SettlementSeen, Settled, Fits, Sound, SettlementFollows
  <1>4. StartupComplete(run[r])
    BY <1>2 DEF Fits, Sound, CleanupFollows
  <1>. QED
    BY <1>1, <1>2, <1>3, <1>4, CleanToFits, StepAdvances

\* RefusalSettled.
LEMMA RefusalAdvances ==
  ASSUME NEW r, Fits(run[r]), RefusalSettled(r)
  PROVE  Advances(r)
  BY RefusalFits, StepAdvances DEF RefusalSettled

\* SettlementDeadline: the seal is forced unless the run has its terminal.
LEMMA DeadlineAdvances ==
  ASSUME NEW r, Fits(run[r]), SettlementDeadline(r)
  PROVE  Advances(r)
  <1> DEFINE x == run[r]
             a == [x EXCEPT !.forced = TRUE, !.attempted = TRUE]
             b == TerminateWorker(a, FALSE)
             c == [b EXCEPT !.force = "terminating", !.clean = "forced"]
  <1>1. /\ x.clean = "settlement"
        /\ Becomes(r, IF x.terminal # "none" THEN [x EXCEPT !.clean = "end"] ELSE c)
    BY DEF SettlementDeadline
  <1>2. StartupComplete(x) /\ x.admitted
    BY <1>1 DEF Fits, Sound, CleanupFollows
  <1>3. CASE x.terminal # "none"
    BY <1>1, <1>2, <1>3, CleanToFits, StepAdvances
  <1>4. CASE x.terminal = "none"
    <2>1. Fits(a) /\ Later(x, a)
      BY <1>1, <1>2, ForceBegins
    <2>2. a.clean = "settlement" /\ a.admitted /\ a.attempted
      BY <1>1, <1>2 DEF Fits, Sound, Shaped, Fields
    <2>. HIDE DEF a
    <2>3. /\ Fits(b) /\ Later(a, b)
          /\ b.clean = "settlement" /\ b.admitted /\ b.attempted
      BY <2>1, <2>2, TerminateFits, TerminateKeeps
    <2>. HIDE DEF b
    <2>4. Fits(c) /\ Later(b, c)
      BY <2>3, ForceSetFits
    <2>. QED
      BY <1>1, <1>4, <2>1, <2>3, <2>4, LaterStill, StepAdvances
  <1>. QED
    BY <1>3, <1>4

\* CleanEnds.
LEMMA EndsAdvances ==
  ASSUME NEW r, Fits(run[r]), CleanEnds(r)
  PROVE  Advances(r)
  <1>1. run[r].clean = "end" => run[r].terminal # "none"
    BY DEF Fits, Sound, CleanupFollows
  <1>. QED
    BY <1>1, CleanEndsFits, StepAdvances DEF CleanEnds

\* CleanFails.
LEMMA FailsAdvances ==
  ASSUME NEW r, Fits(run[r]), CleanFails(r)
  PROVE  Advances(r)
  BY CleanFailsFits, StepAdvances DEF CleanFails

-----------------------------------------------------------------------------
(* The registry.                                                           *)

\* A step of one run leaves the others and the parent as they are.
LEMMA RunKeeps ==
  ASSUME RegistryInduct, NEW r \in Runs, Advances(r)
  PROVE  RegistryInduct'
  <1>1. PICK y : /\ Fits(y) /\ Becomes(r, y)
                 /\ Later(run[r], y) \/ (parent.active /\ y.clean = run[r].clean)
    BY DEF Advances
  <1>2. run' = [run EXCEPT ![r] = y] /\ parent' = parent
    BY <1>1 DEF Becomes
  <1>3. /\ run' = [q \in Runs |-> run'[q]]
        /\ run'[r] = y /\ \A q \in Runs \ {r} : run'[q] = run[q]
    BY <1>2 DEF RegistryInduct
  <1>4. ASSUME NEW q \in Runs PROVE Fits(run'[q])
    BY <1>1, <1>3 DEF RegistryInduct
  <1>5. ASSUME NEW q \in Runs
        PROVE  /\ run[q].clean # "none" => run'[q].clean # "none"
               /\ run[q].clean = "done" => run'[q].clean = "done"
               /\ ~parent.active /\ run[q].worker = "none" => run'[q].worker = "none"
    <2>1. CASE q = r
      BY <1>1, <1>3, <2>1 DEF Later
    <2>2. CASE q # r
      BY <1>3, <2>2
    <2>. QED
      BY <2>1, <2>2
  <1>6. ParentFollows /\ parent.awaits \subseteq Runs
    BY DEF RegistryInduct, ParentFollows
  <1>7. ParentFollows'
    BY <1>2, <1>5, <1>6 DEF ParentFollows
  <1>. QED
    BY <1>3, <1>4, <1>7 DEF RegistryInduct

\* CleanupParent lists the runs that are registered; none of the others has a Worker.
LEMMA CleanupParentKeeps ==
  ASSUME RegistryInduct, CleanupParent
  PROVE  RegistryInduct'
  <1> DEFINE runs == {r \in Runs : Registered(run[r])}
             hidden(r) == [run[r] EXCEPT !.addressable = FALSE]
  <1>1. /\ parent' = [active |-> FALSE, cleanup |-> "waiting", awaits |-> runs]
        /\ run' = [r \in Runs |-> IF r \in runs THEN CleanupRun(hidden(r)) ELSE run[r]]
    BY DEF CleanupParent
  <1>2. ASSUME NEW r \in runs
        PROVE  Fits(CleanupRun(hidden(r))) /\ CleanupRun(hidden(r)).clean # "none"
    <2>1. Fits(run[r]) /\ run[r].spawn \notin {"idle", "account"}
      BY DEF RegistryInduct, Registered
    <2>2. Fits(hidden(r))
      BY <2>1, HiddenFits
    <2>3. hidden(r).spawn \notin {"idle", "account"}
      BY <2>1 DEF Fits, Sound, Shaped, Fields
    <2>. HIDE DEF hidden
    <2>. QED
      BY <2>2, <2>3, CleanupRunFits
  <1>3. ASSUME NEW r \in Runs \ runs
        PROVE  Fits(run[r]) /\ run[r].worker = "none"
    BY DEF RegistryInduct, Registered, Fits, Sound, SpawnFollows, Unopened
  <1>. HIDE DEF hidden
  <1>4. /\ run' = [r \in Runs |-> run'[r]]
        /\ \A r \in Runs : run'[r] = IF r \in runs THEN CleanupRun(hidden(r)) ELSE run[r]
    BY <1>1
  <1>5. \A r \in Runs : Fits(run'[r])
    BY <1>2, <1>3, <1>4
  <1>6. /\ parent'.active = FALSE /\ parent'.cleanup = "waiting" /\ parent'.awaits = runs
        /\ parent' \in [active : BOOLEAN, cleanup : {"none", "waiting", "done", "failed"},
                        awaits : SUBSET Runs]
    BY <1>1
  <1>7. /\ \A r \in Runs \ runs : run'[r].worker = "none"
        /\ \A r \in runs : run'[r].clean # "none"
    BY <1>2, <1>3, <1>4
  <1>. HIDE DEF runs
  <1>8. ParentFollows'
    BY <1>6, <1>7 DEF ParentFollows
  <1>. QED
    BY <1>4, <1>5, <1>8 DEF RegistryInduct

\* ParentCleaned answers once each of the runs it awaits is cleaned up, or one has failed.
LEMMA ParentCleanedKeeps ==
  ASSUME RegistryInduct, ParentCleaned
  PROVE  RegistryInduct'
  <1>1. ParentFollows /\ run' = run /\ parent.cleanup = "waiting"
    BY DEF RegistryInduct, ParentCleaned
  <1>2. PICK c \in {"done", "failed"} :
          /\ parent' = [parent EXCEPT !.cleanup = c]
          /\ c = "done" => \A r \in parent.awaits : run[r].clean = "done"
    BY DEF ParentCleaned
  <1>3. /\ parent'.active = parent.active /\ parent'.awaits = parent.awaits /\ parent'.cleanup = c
        /\ parent' \in [active : BOOLEAN, cleanup : {"none", "waiting", "done", "failed"},
                        awaits : SUBSET Runs]
    BY <1>1, <1>2 DEF ParentFollows
  <1>4. ParentFollows'
    BY <1>1, <1>2, <1>3 DEF ParentFollows
  <1>. QED
    BY <1>1, <1>4 DEF RegistryInduct

\* A step that changes nothing keeps the invariant.
LEMMA StutterKeeps ==
  ASSUME RegistryInduct, UNCHANGED vars
  PROVE  RegistryInduct'
  <1>1. run' = run /\ parent' = parent
    BY DEF vars
  <1>. QED
    BY <1>1 DEF RegistryInduct, ParentFollows

\* No run has begun and the parent is active.
LEMMA InductAtStart == Init => RegistryInduct
  <1> SUFFICES ASSUME Init PROVE RegistryInduct
    OBVIOUS
  <1>1. /\ parent = [active |-> TRUE, cleanup |-> "none", awaits |-> {}]
        /\ run = [r \in Runs |-> run[r]]
    BY DEF Init
  <1>2. ASSUME NEW r \in Runs PROVE Fits(run[r])
    <2> DEFINE x == run[r]
    <2>1. /\ DOMAIN x = Fields
          /\ x.spawn = "idle" /\ x.terminal = "none" /\ x.settle = "none" /\ x.seal = "none"
          /\ x.sealer = "none" /\ x.force = "none" /\ x.final = "none" /\ x.clean = "none"
          /\ x.physical = "none" /\ x.worker = "none" /\ x.session = "none" /\ x.exec = "none"
          /\ x.collected = "none" /\ x.unread = {} /\ x.toWorker = << >> /\ x.toHost = << >>
          /\ x.next = 1 /\ x.pending = << >> /\ x.queued = << >> /\ x.written = << >>
          /\ x.cleanupFact = 0
      BY DEF Init, Fields
    <2>2. /\ x.addressable = TRUE /\ x.admitted = FALSE /\ x.admissionError = FALSE
          /\ x.attempted = FALSE /\ x.forced = FALSE /\ x.started = FALSE
          /\ x.portClosed = FALSE /\ x.heard = FALSE /\ x.durable = FALSE
          /\ x.cancelRequested = FALSE /\ x.cancelRecorded = FALSE /\ x.cancelSent = FALSE
          /\ x.executionRefused = FALSE
      BY DEF Init
    <2>. HIDE DEF x
    <2>3. Shaped(x)
      BY <2>1, NoMessages DEF Shaped, Waits
    <2>4. Flags(x)
      BY <2>2 DEF Flags
    <2>5. SpawnFollows(x) /\ WorkerFollows(x) /\ SettlementFollows(x) /\ CleanupFollows(x)
      BY <2>1, <2>2 DEF SpawnFollows, WorkerFollows, SettlementFollows, CleanupFollows, Unopened,
        Over, StartupComplete, WorkerIsOver, Gone
    <2>6. CancelFollows(x)
      BY <2>1, <2>2, NoMessages DEF CancelFollows
    <2>7. FactsFollow(x)
      <3>1. Counted(<< >>, << >>, << >>, 1, FALSE, "none")
        BY NoNumbers DEF Counted
      <3>2. Reached(0, << >>, 1, FALSE, "none")
        BY DEF Reached
      <3>. QED
        BY <2>1, <2>2, <3>1, <3>2 DEF FactsFollow
    <2>. QED
      BY <2>3, <2>4, <2>5, <2>6, <2>7 DEF Fits, Sound, x
  <1>3. ParentFollows
    BY <1>1 DEF ParentFollows
  <1>. QED
    BY <1>1, <1>2, <1>3 DEF RegistryInduct

\* Every step keeps the invariant, whichever run takes it.
LEMMA InductKept == RegistryInduct /\ [Next]_vars => RegistryInduct'
  <1> SUFFICES ASSUME RegistryInduct, [Next]_vars PROVE RegistryInduct'
    OBVIOUS
  <1>1. ASSUME NEW r \in Runs,
               \/ Spawn(r) \/ Collect(r) \/ CancelChild(r)
               \/ WorkerBoots(r) \/ WorkerReceives(r) \/ WorkerFinishes(r) \/ WorkerErrs(r)
        PROVE  RegistryInduct'
    <2>1. Fits(run[r])
      BY DEF RegistryInduct
    <2>2. Advances(r)
      BY <1>1, <2>1, SpawnAdvances, CollectAdvances, CancelAdvances, BootsAdvances,
        ReceivesAdvances, FinishesAdvances, ErrsAdvances
    <2>. QED
      BY <2>2, RunKeeps
  <1>2. ASSUME NEW r \in Runs, HostStep(r)
        PROVE  RegistryInduct'
    <2>1. Fits(run[r])
      BY DEF RegistryInduct
    <2>2. Advances(r)
      BY <1>2, <2>1, AccountAdvances, OpenedAdvances, RefusedAdvances, CapacityAdvances,
        ThrownAdvances, DataAdmitsAdvances, AdmittedAdvances, RejectedAdvances, LocalAdvances,
        RouteAdvances, DataSettlesAdvances, AcknowledgeAdvances, AcknowledgedAdvances,
        SettleFailedAdvances, SealAdvances, ForceAdvances, CloseAdvances, CleanedAdvances,
        AwaitedAdvances, WriteAdvances, FinalizeAdvances DEF HostStep
    <2>. QED
      BY <2>2, RunKeeps
  <1>3. ASSUME NEW r \in Runs, CleanupStep(r)
        PROVE  RegistryInduct'
    <2>1. Fits(run[r])
      BY DEF RegistryInduct
    <2>2. Advances(r)
      BY <1>3, <2>1, AdmissionAdvances, GraceAdvances, StartedCleanAdvances, SeenAdvances,
        RefusalAdvances, DeadlineAdvances, EndsAdvances, FailsAdvances DEF CleanupStep
    <2>. QED
      BY <2>2, RunKeeps
  <1>4. CASE CleanupParent
    BY <1>4, CleanupParentKeeps
  <1>5. CASE ParentCleaned
    BY <1>5, ParentCleanedKeeps
  <1>6. CASE UNCHANGED vars
    BY <1>6, StutterKeeps
  <1>. QED
    BY <1>1, <1>2, <1>3, <1>4, <1>5, <1>6 DEF Next

-----------------------------------------------------------------------------
(* What follows from the invariant.                                        *)

\* A sequence whose elements are in a set is a sequence over it.
LEMMA SequenceOver ==
  ASSUME NEW q \in Seq(Nat), NEW S, \A i \in DOMAIN q : q[i] \in S
  PROVE  q \in Seq(S)
  <1>1. Len(q) \in Nat /\ DOMAIN q = 1 .. Len(q)
    OBVIOUS
  <1>2. q = [i \in 1 .. Len(q) |-> q[i]]
    OBVIOUS
  <1>. QED
    BY <1>1, <1>2

\* The facts that are held back, queued and written have numbers below the next one.
LEMMA FactsBelow ==
  ASSUME NEW p, NEW q, NEW w, NEW n, NEW a, NEW s, Counted(p, q, w, n, a, s)
  PROVE  p \in Seq(1 .. n - 1) /\ q \in Seq(1 .. n - 1) /\ w \in Seq(1 .. n - 1)
  <1>1. /\ p \in Seq(Nat) /\ q \in Seq(Nat) /\ w \in Seq(Nat) /\ n \in Nat \ {0}
        /\ Numbered(p, 0) /\ Numbered(w, 0) /\ Below(q, n) /\ Len(w) < n
        /\ p = << >> \/ Len(p) = n - 1
    BY DEF Counted
  <1>2. Len(p) \in Nat /\ Len(w) \in Nat /\ Len(p) <= n - 1 /\ Len(w) <= n - 1
    BY <1>1, NoNumbers
  <1>3. \A i \in DOMAIN p : p[i] \in 1 .. n - 1
    BY <1>1, <1>2 DEF Numbered
  <1>4. \A i \in DOMAIN w : w[i] \in 1 .. n - 1
    BY <1>1, <1>2 DEF Numbered
  <1>5. \A i \in DOMAIN q : q[i] \in 1 .. n - 1
    BY <1>1 DEF Below
  <1>. QED
    BY <1>1, <1>3, <1>4, <1>5, SequenceOver

\* The records are well formed.
LEMMA TypesFollow == RegistryInduct => TypeOK
  <1> SUFFICES ASSUME RegistryInduct PROVE TypeOK
    OBVIOUS
  <1>1. ASSUME NEW r \in Runs
        PROVE  LET x == run[r] IN {x.pending, x.queued, x.written} \subseteq Seq(1 .. x.next - 1)
    <2> DEFINE x == run[r]
    <2>1. Counted(x.pending, x.queued, x.written, x.next, x.admitted, x.session)
      BY DEF RegistryInduct, Fits, Sound, FactsFollow
    <2>. HIDE DEF x
    <2>2. /\ x.pending \in Seq(1 .. x.next - 1) /\ x.queued \in Seq(1 .. x.next - 1)
          /\ x.written \in Seq(1 .. x.next - 1)
      BY <2>1, FactsBelow
    <2>. QED
      BY <2>2 DEF x
  <1>2. \A r \in Runs : Shaped(run[r]) /\ Flags(run[r])
    BY DEF RegistryInduct, Fits, Sound
  <1>3. parent \in [active : BOOLEAN, cleanup : {"none", "waiting", "done", "failed"},
                    awaits : SUBSET Runs]
    BY DEF RegistryInduct, ParentFollows
  <1>. QED
    BY <1>1, <1>2, <1>3 DEF TypeOK, Shaped, Flags, Waits

\* What is reported is what Data stores.
LEMMA DurableFollows == RegistryInduct => DurableIsStored
  BY DEF RegistryInduct, Fits, Sound, Shaped, SettlementFollows, DurableIsStored

\* The facts are stored in their order, the cleanup fact before the Session is closed.
LEMMA FactsInOrderFollows == RegistryInduct => FactsInOrder
  <1> SUFFICES ASSUME RegistryInduct, NEW r \in Runs
               PROVE  LET x == run[r] IN
                      /\ x.written = [i \in 1 .. Len(x.written) |-> i]
                      /\ x.session = "closed" /\ x.cleanupFact # 0 =>
                           Contains(x.written, x.cleanupFact)
    BY DEF FactsInOrder
  <1> DEFINE x == run[r]
             w == x.written
             f == x.cleanupFact
  <1>1. Fits(x)
    BY DEF RegistryInduct
  <1>2. w \in Seq(Nat) /\ Numbered(w, 0) /\ Reached(f, w, x.next, x.admitted, x.physical)
    BY <1>1 DEF Fits, Sound, FactsFollow, Counted
  <1>3. x.session = "closed" => x.physical = "done" \/ x.worker = "none"
    BY <1>1 DEF Fits, Sound, CleanupFollows, WorkerIsOver
  <1>4. x.worker = "none" => x.physical = "none"
    BY <1>1 DEF Fits, Sound, WorkerFollows
  <1>. HIDE DEF x
  <1>5. x.session = "closed" /\ f # 0 => f \in Nat /\ f <= Len(w)
    BY <1>2, <1>3, <1>4 DEF Reached
  <1>. HIDE DEF w, f
  <1>6. \A i \in DOMAIN w : w[i] = i
    BY <1>2 DEF Numbered
  <1>7. w = [i \in 1 .. Len(w) |-> i]
    BY <1>2, <1>6
  <1>8. x.session = "closed" /\ f # 0 => Contains(w, f)
    <2>1. SUFFICES ASSUME x.session = "closed", f # 0 PROVE Contains(w, f)
      OBVIOUS
    <2>2. f \in DOMAIN w
      BY <1>2, <1>5, <2>1
    <2>. QED
      BY <1>6, <2>2 DEF Contains
  <1>. QED
    BY <1>7, <1>8 DEF x, w, f

\* The parent's cleanup leaves no Worker and no open execution, and which Sessions are closed.
LEMMA CleanupFollowsParent == RegistryInduct => CleanupIsComplete
  <1> SUFFICES ASSUME RegistryInduct, parent.cleanup = "done" PROVE
        /\ \A r \in Runs : run[r].worker \in {"none", "terminated"}
        /\ \A r \in parent.awaits : LET x == run[r] IN
             /\ StartupComplete(x) /\ x.terminal # "none"
             /\ x.session # "open" \/ (x.executionRefused /\ x.physical = "failed")
             /\ x.exec # "admitted" \/ ~x.durable
    BY DEF CleanupIsComplete
  <1>1. /\ parent.awaits \subseteq Runs /\ ~parent.active
        /\ \A r \in Runs \ parent.awaits : run[r].worker = "none"
        /\ \A r \in parent.awaits : run[r].clean = "done"
    BY DEF RegistryInduct, ParentFollows
  <1>2. ASSUME NEW r \in parent.awaits
        PROVE  /\ run[r].worker \in {"none", "terminated"}
               /\ StartupComplete(run[r]) /\ run[r].terminal # "none"
               /\ \/ run[r].session # "open"
                  \/ run[r].executionRefused /\ run[r].physical = "failed"
               /\ run[r].exec # "admitted" \/ ~run[r].durable
    <2>1. Fits(run[r]) /\ run[r].clean = "done"
      BY <1>1 DEF RegistryInduct
    <2>2. /\ StartupComplete(run[r]) /\ run[r].terminal # "none"
          /\ \/ WorkerIsOver(run[r]) /\ run[r].session # "open"
             \/ run[r].executionRefused /\ run[r].physical = "failed"
      BY <2>1 DEF Fits, Sound, CleanupFollows, Gone
    <2>3. run[r].worker \in {"none", "terminated"}
      BY <2>1, <2>2 DEF Fits, Sound, WorkerFollows, WorkerIsOver
    <2>4. run[r].exec # "admitted" \/ ~run[r].durable
      BY <2>1, <2>2 DEF Fits, Sound, Shaped, SettlementFollows, Terminals
    <2>. QED
      BY <2>2, <2>3, <2>4
  <1>. QED
    BY <1>1, <1>2

\* A cancel that was asked for reaches the turn.
LEMMA CancelFollowsTurn == RegistryInduct => CancelReachesTurn
  <1> SUFFICES ASSUME RegistryInduct, NEW r \in Runs, run[r].cancelRequested,
                      run[r].terminal = "none", run[r].worker = "running"
               PROVE  run[r].heard \/ Contains(run[r].toWorker, "cancel")
    BY DEF CancelReachesTurn
  <1>1. CancelFollows(run[r])
    BY DEF RegistryInduct, Fits
  <1>. QED
    BY <1>1 DEF CancelFollows, Has, Contains

\* The strengthening holds in every state, for any number of runs and any faults: at which points
\* of its start-up, settlement and cleanup a run has a Worker, a Session, an execution and a
\* terminal (ChildRunRegistry).
THEOREM InvariantHolds == Spec => []RegistryInduct
  BY InductAtStart, InductKept, PTL DEF Spec

\* RegistryInvariant: the terminal that a run reports as durable is the one Data retains, however
\* the Worker's own settlement, the seal and the forced seal race (completeFromData); what has been
\* collected is never replaced; the control facts are stored in order, without a gap, and the fact
\* of the process cleanup before the Data Session is closed.
THEOREM RegistryCorrect == Spec => []RegistryInvariant
  <1>1. RegistryInduct => RegistryInvariant
    BY TypesFollow, DurableFollows, FactsInOrderFollows DEF RegistryInvariant
  <1>. QED
    BY <1>1, InvariantHolds, PTL

\* CleanupHolds: once cleanupParent has answered, no child of the parent has a Worker, an execution
\* that is left open in Data, or a Session, but for one whose execution was refused and whose
\* processes could not be cleaned up, and no turn escapes the cancellation of its run, at
\* whatever await of the spawn it arrived.
THEOREM CleanupCorrect == Spec => []CleanupHolds
  <1>1. RegistryInduct => CleanupHolds
    BY CleanupFollowsParent, CancelFollowsTurn DEF CleanupHolds
  <1>. QED
    BY <1>1, InvariantHolds, PTL

=============================================================================
