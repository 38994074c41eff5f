-------------------------- MODULE CoreService_proofs --------------------------
(***************************************************************************)
(* Proofs about CoreService, the Core composed of its commands             *)
(* (CoreCommands), its lazy Sessions (LazySession), the slot and the       *)
(* services, for any clients, commands, services and faults.               *)
(***************************************************************************)
EXTENDS CoreService, TLAPS, FiniteSetTheorems

-----------------------------------------------------------------------------
(* The inductive invariant: the commands.                                  *)

CommandStages == {"none", "preflight", "work", "save", "lost"}
Sigs == Signatures \cup {"none"}
Values == Results \cup {"none"}

Commands == [at : CommandStages, sig : Sigs, value : Values]
Entries == [id : Ids, sig : Signatures, result : Results]
Given == [id : Ids, sig : Signatures, answer : Results \cup {"conflict", "error", "unavailable"}]

CommandShapes ==
  /\ command \in [Ids -> Commands]
  /\ receipt \in [Ids -> [sig : Sigs, result : Values]]
  /\ preflight \in Seq(Ids)
  /\ cache \in Seq(Entries) /\ Len(cache) <= CacheLimit
  /\ waiting \in [Ids -> Nat] /\ calls \in [Ids -> Nat] /\ ran \in [Ids -> Nat]
  /\ closed \in BOOLEAN /\ faults \in Nat /\ misread \subseteq Ids
  /\ answers \subseteq Given

\* What a sequence holds, and that it holds nothing twice.
Held(q) == {q[i] : i \in DOMAIN q}
Distinct(q) == \A i, j \in DOMAIN q : q[i] = q[j] => i = j

\* A command waits in the queue at most once, and is of a signature while it is registered.
QueuedOnce ==
  /\ Distinct(preflight)
  /\ \A c \in Ids : command[c].at = "preflight" <=> c \in Held(preflight)
  /\ \A c \in Ids : command[c].at # "none" => command[c].sig \in Signatures
  /\ \A c \in Ids : command[c].at = "save" => command[c].value \in Results

\* A command whose work was run has a receipt or holds its id.
RanOnce ==
  \A c \in Ids :
    /\ ran[c] <= 1
    /\ ran[c] = 1 => receipt[c] # NoReceipt \/ command[c].at \in {"work", "save", "lost"}
    /\ waiting[c] > 0 => command[c].at \in {"preflight", "work", "save"}

\* The receipt of a command says the same, unless it could not be read once.
Vouched(c, sig, result) ==
  /\ receipt[c].sig = sig
  /\ receipt[c].result = result \/ (receipt[c].result \in Results /\ c \in misread)

\* A receipt is only there for a command that is under way if it could not be read.
ReceiptsStand ==
  \A c \in Ids :
    /\ receipt[c] # NoReceipt => receipt[c].sig \in Signatures /\ receipt[c].result \in Results
    /\ command[c].at = "work" => receipt[c] = NoReceipt
    /\ command[c].at = "save" => receipt[c] = NoReceipt \/ c \in misread

\* What is cached or was answered is what the receipt says.
AnswersVouched ==
  /\ \A x \in Held(cache) : Vouched(x.id, x.sig, x.result)
  /\ \A a \in answers : a.answer \in Results => Vouched(a.id, a.sig, a.answer)

CommandInduct == CommandShapes /\ QueuedOnce /\ RanOnce /\ ReceiptsStand /\ AnswersVouched

-----------------------------------------------------------------------------
(* The inductive invariant: the slot and its services.                     *)

HoldingStages == {"make", "watch", "closePrevious", "control", "alter"}
WorkStages == HoldingStages \cup {"none", "admit"}
Works == [at : WorkStages, service : Services \cup {None}]

SlotShapes ==
  /\ host \in [Services -> {"none", "starting", "failed", "up", "closed"}]
  /\ pending \in [Services -> {"none", "start", "record", "seal", "host", "accepted", "rejected"}]
  /\ close \in [Services -> {"open", "start", "host", "data", "done", "failed"}]
  /\ prepared \in [Services -> BOOLEAN] /\ aborted \in [Services -> BOOLEAN]
  /\ cancelled \in [Services -> BOOLEAN] /\ told \in [Services -> BOOLEAN]
  /\ watchdog \in [Services -> BOOLEAN] /\ turn \in [Services -> BOOLEAN]
  /\ slot \in Services \cup {None} /\ openingSlot \in BOOLEAN
  /\ made \in [Services -> {"unused", "watch", "ready", "leaked"}]
  /\ DOMAIN session = Services
  /\ work \in [Ids -> Works]
  /\ outcome \in [Ids -> Values]
  /\ credential \in {"unused", "save", "done"}
  /\ coreClose \in {"open", "commands", "service", "data", "done"}

\* A command at work is in one of its works or has its outcome, and no other is.
WorksAreOfCommands ==
  \A c \in Ids :
    /\ work[c].at # "none" => command[c].at = "work" /\ outcome[c] = "none"
    /\ work[c].at = "none" => work[c].service = None
    /\ outcome[c] # "none" => command[c].at = "work"

\* The slot is reserved by one work, by the registration of a credential, or not at all.
SlotHasOneHolder ==
  /\ openingSlot <=> credential = "save" \/ \E c \in Ids : work[c].at \in HoldingStages
  /\ credential = "save" => \A c \in Ids : work[c].at \notin HoldingStages
  /\ \A c, d \in Ids : work[c].at \in HoldingStages /\ work[d].at \in HoldingStages => c = d
  /\ openingSlot /\ SlotBusy => \E c \in Ids : work[c].at = "control"

\* What a work that awaits has in its hands.
WorksHoldServices ==
  \A c \in Ids : LET s == work[c].service IN
    /\ work[c].at = "watch" => s \in Services /\ made[s] = "watch"
    /\ work[c].at = "closePrevious" =>
         s \in Services /\ made[s] = "ready" /\ s # slot /\ close[s] # "open"
    /\ work[c].at = "alter" => s = slot /\ s # None
    /\ work[c].at = "admit" => s = slot /\ s # None /\ Admitting(s)

\* What runs in a service: an admission is that of a work, a start is awaited.
ServicesRun ==
  \A s \in Services :
    /\ Admitting(s) => \E c \in Ids : work[c].at = "admit" /\ work[c].service = s
    /\ host[s] = "starting" =>
         pending[s] = "start" \/ \E c \in Ids : work[c].at = "alter" /\ work[c].service = s
    /\ pending[s] = "start" => host[s] = "starting"
    /\ pending[s] = "host" => host[s] = "up"
    /\ turn[s] => host[s] = "up" /\ pending[s] = "accepted"

\* A service that never had the slot has done nothing; one that has lost it is closed or
\* its close is awaited; the one that has it is open until the Core closes.
ServicesClose ==
  /\ slot # None =>
       made[slot] = "ready" /\ (close[slot] = "open" \/ coreClose \in {"service", "data", "done"})
  /\ \A s \in Services :
       /\ made[s] # "ready" =>
            host[s] = "none" /\ pending[s] = "none" /\ ~turn[s] /\ close[s] = "open"
       /\ made[s] = "ready" /\ s # slot =>
            \/ close[s] \in {"done", "failed"}
            \/ \E c \in Ids : work[c].at = "closePrevious" /\ work[c].service = s
       /\ host[s] = "closed" => close[s] # "open"
       /\ close[s] = "host" => host[s] = "up"
       /\ close[s] \in {"data", "done", "failed"} => host[s] \notin {"starting", "up"}

\* The close of the Core begins when no command is left.
CoreClosesLast ==
  /\ coreClose # "open" => closed
  /\ coreClose \in {"service", "data", "done"} => Settled /\ credential # "save"
  /\ coreClose = "service" => slot # None /\ close[slot] # "open"
  /\ coreClose \in {"data", "done"} /\ slot # None => close[slot] = "failed"

ServiceInduct ==
  /\ SlotShapes /\ WorksAreOfCommands /\ SlotHasOneHolder /\ WorksHoldServices
  /\ ServicesRun /\ ServicesClose /\ ClosedWhenIdle /\ CancelIsKept /\ CoreClosesLast

CoreInduct == CommandInduct /\ ServiceInduct

-----------------------------------------------------------------------------
(* The commands.                                                           *)

\* A queue grows by a command that is not in it.
LEMMA QueueGrows ==
  ASSUME NEW q \in Seq(Ids), Distinct(q), NEW c \in Ids, c \notin Held(q)
  PROVE  /\ Append(q, c) \in Seq(Ids) /\ Distinct(Append(q, c))
         /\ Held(Append(q, c)) = Held(q) \cup {c}
  <1> DEFINE a == Append(q, c)
  <1>1. /\ a \in Seq(Ids) /\ DOMAIN a = 1 .. Len(q) + 1 /\ DOMAIN q = 1 .. Len(q)
        /\ Len(q) \in Nat /\ a[Len(q) + 1] = c /\ \A i \in 1 .. Len(q) : a[i] = q[i]
    OBVIOUS
  <1> HIDE DEF a
  <1>2. Distinct(a)
    BY <1>1 DEF Held, Distinct
  <1>3. Held(a) = Held(q) \cup {c}
    BY <1>1 DEF Held
  <1>4. QED
    BY <1>1, <1>2, <1>3 DEF a

\* It shrinks by its first.
LEMMA QueueShrinks ==
  ASSUME NEW q \in Seq(Ids), Distinct(q), q # << >>
  PROVE  /\ Tail(q) \in Seq(Ids) /\ Distinct(Tail(q))
         /\ Head(q) \in Held(q) /\ Held(Tail(q)) = Held(q) \ {Head(q)}
  <1> DEFINE t == Tail(q)
  <1>1. /\ t \in Seq(Ids) /\ DOMAIN t = 1 .. Len(q) - 1 /\ DOMAIN q = 1 .. Len(q)
        /\ Len(q) \in Nat \ {0} /\ q[1] = Head(q) /\ \A i \in 1 .. Len(q) - 1 : t[i] = q[i + 1]
    OBVIOUS
  <1> HIDE DEF t
  <1>2. Distinct(t)
    <2>1. \A i \in DOMAIN t : i + 1 \in DOMAIN q
      BY <1>1
    <2>2. QED
      BY <1>1, <2>1 DEF Distinct
  <1>3. ASSUME NEW x \in Held(t)
        PROVE  x \in Held(q) /\ x # Head(q)
    <2>1. PICK i \in DOMAIN t : t[i] = x
      BY DEF Held
    <2>2. i + 1 \in DOMAIN q /\ q[i + 1] = x /\ 1 \in DOMAIN q /\ i + 1 # 1
      BY <1>1, <2>1
    <2>3. QED
      BY <1>1, <2>2 DEF Held, Distinct
  <1>4. ASSUME NEW x \in Held(q), x # Head(q)
        PROVE  x \in Held(t)
    <2>1. PICK i \in DOMAIN q : q[i] = x
      BY DEF Held
    <2>2. i - 1 \in DOMAIN t /\ t[i - 1] = x
      BY <1>1, <1>4, <2>1
    <2>3. QED
      BY <2>2 DEF Held
  <1>5. Head(q) \in Held(q)
    BY <1>1 DEF Held
  <1>6. QED
    BY <1>1, <1>2, <1>3, <1>4, <1>5 DEF t

\* The cache keeps within its limit, and holds what it held or the new entry.
LEMMA CacheSteps ==
  ASSUME cache \in Seq(Entries), Len(cache) <= CacheLimit,
         NEW c, NEW r, NEW e \in Entries, e = [id |-> c, sig |-> r.sig, result |-> r.result],
         cache' = CacheReceipt(c, r)
  PROVE  /\ cache' \in Seq(Entries) /\ Len(cache') <= CacheLimit
         /\ Held(cache') \subseteq Held(cache) \cup {e}
  <1> DEFINE kept == IF Len(cache) >= CacheLimit THEN Tail(cache) ELSE cache
  <1>1. CacheLimit \in Nat \ {0}
    BY BoundsAssumption
  <1>2. /\ kept \in Seq(Entries) /\ Len(kept) < CacheLimit
        /\ \A i \in DOMAIN kept : kept[i] \in Held(cache)
    <2>1. CASE Len(cache) >= CacheLimit
      <3>1. cache # << >>
        BY <1>1, <2>1
      <3>2. /\ Tail(cache) \in Seq(Entries) /\ Len(Tail(cache)) = Len(cache) - 1
            /\ \A i \in DOMAIN Tail(cache) : i + 1 \in DOMAIN cache /\ Tail(cache)[i] = cache[i + 1]
        BY <1>1, <3>1
      <3>3. QED
        BY <1>1, <2>1, <3>2 DEF Held
    <2>2. CASE ~(Len(cache) >= CacheLimit)
      BY <1>1, <2>2 DEF Held
    <2>3. QED
      BY <2>1, <2>2
  <1> HIDE DEF kept
  <1>3. /\ Append(kept, e) \in Seq(Entries) /\ Len(Append(kept, e)) = Len(kept) + 1
        /\ \A i \in DOMAIN Append(kept, e) :
             Append(kept, e)[i] = e \/ (i \in DOMAIN kept /\ Append(kept, e)[i] = kept[i])
    BY <1>2
  <1>4. cache' = Append(kept, e)
    BY DEF CacheReceipt, kept
  <1>5. Len(Append(kept, e)) <= CacheLimit
    BY <1>1, <1>2, <1>3
  <1>6. Held(Append(kept, e)) \subseteq Held(cache) \cup {e}
    BY <1>2, <1>3 DEF Held
  <1>7. QED
    BY <1>3, <1>4, <1>5, <1>6

\* The entries of the cache are what their type says.
LEMMA CacheTyped ==
  ASSUME CommandShapes
  PROVE  \A x \in Held(cache) : x \in Entries
  <1>1. cache \in Seq(Entries)
    BY DEF CommandShapes
  <1>2. QED
    BY <1>1 DEF Held

\* What was vouched for stays so: a receipt is never replaced.
LEMMA VouchedStays ==
  ASSUME CommandShapes, CommandShapes', AnswersVouched, misread \subseteq misread',
         \A d \in Ids : receipt'[d] = receipt[d] \/ receipt[d] = NoReceipt,
         \A x \in Held(cache') : x \in Held(cache) \/ Vouched(x.id, x.sig, x.result)',
         \A a \in answers' : \/ a \in answers \/ a.answer \notin Results
                             \/ Vouched(a.id, a.sig, a.answer)'
  PROVE  AnswersVouched'
  <1>1. ASSUME NEW c \in Ids, NEW sig, NEW result \in Results, Vouched(c, sig, result)
        PROVE  Vouched(c, sig, result)'
    BY <1>1 DEF Vouched, NoReceipt, Results
  <1>2. \A x \in Held(cache) : x.id \in Ids /\ x.result \in Results
    BY CacheTyped DEF Entries
  <1>3. ASSUME NEW x \in Held(cache')
        PROVE  Vouched(x.id, x.sig, x.result)'
    <2>1. x \in Held(cache) => Vouched(x.id, x.sig, x.result)
      BY DEF AnswersVouched
    <2>2. QED
      BY <1>1, <1>2, <1>3, <2>1
  <1>4. ASSUME NEW a \in answers', a.answer \in Results
        PROVE  Vouched(a.id, a.sig, a.answer)'
    <2>1. a \in answers => a.id \in Ids /\ Vouched(a.id, a.sig, a.answer)
      BY <1>4 DEF CommandShapes, Given, AnswersVouched
    <2>2. QED
      BY <1>1, <1>4, <2>1
  <1>5. QED
    BY <1>3, <1>4 DEF AnswersVouched

\* A command goes to another stage.
LEMMA StageChanges ==
  ASSUME command \in [Ids -> Commands], NEW c \in Ids, NEW at \in CommandStages,
         command' = [command EXCEPT ![c].at = at]
  PROVE  /\ command' \in [Ids -> Commands] /\ \A d \in Ids \ {c} : command'[d] = command[d]
         /\ command'[c].at = at /\ command'[c].sig = command[c].sig
         /\ command'[c].value = command[c].value
  BY DEF Commands

\* It gets the value to be saved.
LEMMA ValueChanges ==
  ASSUME command \in [Ids -> Commands], NEW c \in Ids, NEW at \in CommandStages,
         NEW v \in Values, command' = [command EXCEPT ![c].at = at, ![c].value = v]
  PROVE  /\ command' \in [Ids -> Commands] /\ \A d \in Ids \ {c} : command'[d] = command[d]
         /\ command'[c].at = at /\ command'[c].sig = command[c].sig
         /\ command'[c].value = v
  BY DEF Commands

\* It is registered or forgotten.
LEMMA CommandChanges ==
  ASSUME command \in [Ids -> Commands], NEW c \in Ids, NEW r \in Commands,
         command' = [command EXCEPT ![c] = r]
  PROVE  /\ command' \in [Ids -> Commands] /\ \A d \in Ids \ {c} : command'[d] = command[d]
         /\ command'[c] = r
  OBVIOUS

\* The calls of a command get their answer.
LEMMA Resolved ==
  ASSUME CommandShapes, NEW c \in Ids, NEW a, Resolve(c, a)
  PROVE  /\ waiting' \in [Ids -> Nat] /\ \A d \in Ids \ {c} : waiting'[d] = waiting[d]
         /\ waiting'[c] = 0
         /\ answers' = answers \cup {[id |-> c, sig |-> command[c].sig, answer |-> a]}
  BY DEF CommandShapes, Resolve, Answer

\* A call is registered, joins the one under way, or is answered.
LEMMA CallKeepsCommands ==
  ASSUME CommandInduct, NEW c \in Ids, NEW sig \in Signatures, Call(c, sig)
  PROVE  CommandInduct'
  <1> USE DEF CommandInduct
  <1>1. /\ calls' \in [Ids -> Nat] /\ UNCHANGED <<cache, receipt, faults, ran, misread>>
    BY DEF Call, CommandShapes
  <1>2. CASE UNCHANGED <<command, preflight, closed>>
    <2>1. /\ waiting' \in [Ids -> Nat]
          /\ \A d \in Ids : waiting'[d] > 0 =>
               waiting[d] > 0 \/ command[d].at \in {"preflight", "work", "save"}
      <3>1. CASE UNCHANGED waiting
        BY <3>1 DEF CommandShapes
      <3>2. CASE /\ command[c].at \notin {"none", "lost"}
                 /\ waiting' = [waiting EXCEPT ![c] = @ + 1]
        BY <3>2 DEF CommandShapes, Commands, CommandStages
      <3>3. QED
        BY <1>2, <3>1, <3>2 DEF Call
    <2>2. \/ UNCHANGED answers
          \/ \E a \in {"conflict", "error", "unavailable"} :
               answers' = answers \cup {[id |-> c, sig |-> sig, answer |-> a]}
          \/ \E x \in Held(cache) :
               /\ x.id = c /\ x.sig = sig
               /\ answers' = answers \cup {[id |-> c, sig |-> sig, answer |-> x.result]}
      BY <1>2 DEF Call, Answer, Cached, Held
    <2>3. /\ answers' \subseteq Given
          /\ \A a \in answers' : a \in answers \/ a.answer \notin Results
                                 \/ Vouched(a.id, a.sig, a.answer)
      <3>1. CASE UNCHANGED answers
        BY <3>1 DEF CommandShapes
      <3>2. ASSUME NEW a \in {"conflict", "error", "unavailable"},
                   answers' = answers \cup {[id |-> c, sig |-> sig, answer |-> a]}
            PROVE  <2>3!:
        BY <3>2 DEF CommandShapes, Given, Results
      <3>3. ASSUME NEW x \in Held(cache), x.id = c, x.sig = sig,
                   answers' = answers \cup {[id |-> c, sig |-> sig, answer |-> x.result]}
            PROVE  <2>3!:
        <4>1. Vouched(c, sig, x.result)
          BY <3>3 DEF AnswersVouched
        <4>2. x.result \in Results
          BY CacheTyped DEF Entries
        <4>3. QED
          BY <3>3, <4>1, <4>2 DEF CommandShapes, Given
      <3>4. QED
        BY <2>2, <3>1, <3>2, <3>3
    <2>4. CommandShapes'
      BY <1>1, <1>2, <2>1, <2>3 DEF CommandShapes
    <2>5. QueuedOnce' /\ ReceiptsStand'
      BY <1>1, <1>2 DEF QueuedOnce, ReceiptsStand
    <2>6. RanOnce'
      BY <1>1, <1>2, <2>1 DEF RanOnce
    <2>7. AnswersVouched'
      <3>1. \A a \in answers' : a \in answers \/ a.answer \notin Results
                                \/ Vouched(a.id, a.sig, a.answer)'
        BY <1>1, <2>3 DEF Vouched
      <3>2. QED
        BY <1>1, <2>4, <3>1, VouchedStays
    <2>8. QED
      BY <2>4, <2>5, <2>6, <2>7
  <1>3. CASE /\ command[c].at = "none" /\ closed' = (sig = Shutdown)
             /\ command' = [command EXCEPT
                              ![c] = [at |-> "preflight", sig |-> sig, value |-> "none"]]
             /\ preflight' = Append(preflight, c)
             /\ waiting' = [waiting EXCEPT ![c] = 1] /\ UNCHANGED answers
    <2>1. /\ command' \in [Ids -> Commands] /\ \A d \in Ids \ {c} : command'[d] = command[d]
          /\ command'[c] = [at |-> "preflight", sig |-> sig, value |-> "none"]
      <3>1. [at |-> "preflight", sig |-> sig, value |-> "none"] \in Commands
        BY DEF Commands, CommandStages, Sigs, Values
      <3>2. QED
        BY <1>3, <3>1, CommandChanges DEF CommandShapes
    <2>2. /\ preflight' \in Seq(Ids) /\ Distinct(preflight')
          /\ Held(preflight') = Held(preflight) \cup {c}
      <3>1. c \notin Held(preflight)
        BY <1>3 DEF QueuedOnce
      <3>2. preflight \in Seq(Ids) /\ Distinct(preflight)
        BY DEF CommandShapes, QueuedOnce
      <3>3. QED
        BY <1>3, <3>1, <3>2, QueueGrows
    <2>3. /\ waiting' \in [Ids -> Nat] /\ \A d \in Ids \ {c} : waiting'[d] = waiting[d]
          /\ closed' \in BOOLEAN
      BY <1>3 DEF CommandShapes
    <2>4. CommandShapes'
      BY <1>1, <1>3, <2>1, <2>2, <2>3 DEF CommandShapes
    <2>5. QueuedOnce'
      BY <2>1, <2>2 DEF QueuedOnce
    <2>6. RanOnce' /\ ReceiptsStand'
      BY <1>1, <1>3, <2>1, <2>3 DEF RanOnce, ReceiptsStand
    <2>7. AnswersVouched'
      BY <1>1, <1>3, <2>4, VouchedStays
    <2>8. QED
      BY <2>4, <2>5, <2>6, <2>7
  <1>4. QED
    BY <1>2, <1>3 DEF Call

\* A receipt answers the calls, or the work starts.
LEMMA ReceiptReadKeepsCommands ==
  ASSUME CommandInduct, NEW c \in Ids, ReceiptRead(c)
  PROVE  CommandInduct'
  <1> USE DEF CommandInduct
  <1>1. UNCHANGED <<receipt, calls, closed, faults, misread>>
    BY DEF ReceiptRead
  <1>2. /\ preflight' \in Seq(Ids) /\ Distinct(preflight')
        /\ command[c].at = "preflight" /\ Held(preflight') = Held(preflight) \ {c}
    <2>1. preflight # << >> /\ Head(preflight) = c /\ preflight' = Tail(preflight)
      BY DEF ReceiptRead
    <2>2. preflight \in Seq(Ids) /\ Distinct(preflight)
      BY DEF CommandShapes, QueuedOnce
    <2>3. /\ Tail(preflight) \in Seq(Ids) /\ Distinct(Tail(preflight))
          /\ c \in Held(preflight) /\ Held(Tail(preflight)) = Held(preflight) \ {c}
      BY <2>1, <2>2, QueueShrinks
    <2>4. QED
      BY <2>1, <2>3 DEF QueuedOnce
  <1>3. CASE receipt[c] # NoReceipt
    <2>1. command' = [command EXCEPT ![c] = NoCommand] /\ UNCHANGED ran
      BY <1>3 DEF ReceiptRead
    <2>2. /\ command' \in [Ids -> Commands] /\ \A d \in Ids \ {c} : command'[d] = command[d]
          /\ command'[c] = NoCommand
      <3>1. NoCommand \in Commands
        BY DEF NoCommand, Commands, CommandStages, Sigs, Values
      <3>2. QED
        BY <2>1, <3>1, CommandChanges DEF CommandShapes
    <2>3. /\ waiting' \in [Ids -> Nat] /\ \A d \in Ids \ {c} : waiting'[d] = waiting[d]
          /\ waiting'[c] = 0
      BY <1>3, Resolved DEF ReceiptRead
    <2>4. command[c].sig \in Signatures
      BY <1>2 DEF QueuedOnce
    <2>5. receipt[c].sig \in Signatures /\ receipt[c].result \in Results
      BY <1>3 DEF ReceiptsStand
    <2>6. /\ answers' \subseteq Given
          /\ cache' \in Seq(Entries) /\ Len(cache') <= CacheLimit
          /\ \A x \in Held(cache') : x \in Held(cache) \/ Vouched(x.id, x.sig, x.result)
          /\ \A a \in answers' : \/ a \in answers \/ a.answer \notin Results
                                  \/ Vouched(a.id, a.sig, a.answer)
      <3>1. CASE receipt[c].sig # command[c].sig
        <4>1. /\ answers' = answers \cup {[id |-> c, sig |-> command[c].sig, answer |-> "conflict"]}
              /\ UNCHANGED cache
          BY <1>3, <3>1 DEF ReceiptRead, Resolve, Answer
        <4>2. QED
          BY <2>4, <4>1 DEF CommandShapes, Given, Results
      <3>2. CASE receipt[c].sig = command[c].sig
        <4>1. /\ answers' = answers \cup {[id |-> c, sig |-> command[c].sig,
                                           answer |-> receipt[c].result]}
              /\ cache' = CacheReceipt(c, receipt[c])
          BY <1>3, <3>2 DEF ReceiptRead, Resolve, Answer
        <4>2. Vouched(c, receipt[c].sig, receipt[c].result)
          BY DEF Vouched
        <4>3. answers' \subseteq Given
          BY <2>4, <2>5, <4>1 DEF CommandShapes, Given
        <4>4. \A a \in answers' : a \in answers \/ Vouched(a.id, a.sig, a.answer)
          BY <3>2, <4>1, <4>2
        <4>5. /\ cache' \in Seq(Entries) /\ Len(cache') <= CacheLimit
              /\ Held(cache') \subseteq
                   Held(cache) \cup {[id |-> c, sig |-> receipt[c].sig,
                                      result |-> receipt[c].result]}
          <5>1. [id |-> c, sig |-> receipt[c].sig, result |-> receipt[c].result] \in Entries
            BY <2>5 DEF Entries
          <5>2. QED
            BY <4>1, <5>1, CacheSteps DEF CommandShapes
        <4>6. QED
          BY <4>2, <4>3, <4>4, <4>5
      <3>3. QED
        BY <3>1, <3>2
    <2>7. CommandShapes'
      BY <1>1, <1>2, <2>1, <2>2, <2>3, <2>6 DEF CommandShapes
    <2>8. QueuedOnce'
      BY <1>2, <2>2 DEF QueuedOnce, NoCommand
    <2>9. RanOnce'
      BY <1>1, <1>3, <2>1, <2>2, <2>3 DEF RanOnce
    <2>10. ReceiptsStand'
      BY <1>1, <2>2 DEF ReceiptsStand, NoCommand
    <2>11. AnswersVouched'
      <3>1. /\ \A x \in Held(cache') : x \in Held(cache) \/ Vouched(x.id, x.sig, x.result)'
            /\ \A a \in answers' : \/ a \in answers \/ a.answer \notin Results
                                    \/ Vouched(a.id, a.sig, a.answer)'
        BY <1>1, <2>6 DEF Vouched
      <3>2. QED
        BY <1>1, <2>7, <3>1, VouchedStays
    <2>12. QED
      BY <2>7, <2>8, <2>9, <2>10, <2>11
  <1>4. CASE receipt[c] = NoReceipt
    <2>1. /\ command' = [command EXCEPT ![c].at = "work"] /\ ran' = [ran EXCEPT ![c] = @ + 1]
          /\ UNCHANGED <<cache, waiting, answers>>
      BY <1>4 DEF ReceiptRead
    <2>2. /\ command' \in [Ids -> Commands] /\ \A d \in Ids \ {c} : command'[d] = command[d]
          /\ command'[c].at = "work" /\ command'[c].sig = command[c].sig
      BY <2>1, StageChanges DEF CommandShapes, CommandStages
    <2>3. /\ ran' \in [Ids -> Nat] /\ \A d \in Ids \ {c} : ran'[d] = ran[d]
          /\ ran[c] = 0 /\ ran'[c] = 1
      <3>1. ran \in [Ids -> Nat] /\ ran[c] <= 1
        BY DEF CommandShapes, RanOnce
      <3>2. ran[c] # 1
        BY <1>2, <1>4 DEF RanOnce
      <3>3. ran[c] = 0
        BY <3>1, <3>2
      <3>4. QED
        BY <2>1, <3>1, <3>3
    <2>4. CommandShapes'
      BY <1>1, <1>2, <2>1, <2>2, <2>3 DEF CommandShapes
    <2>5. QueuedOnce'
      BY <1>2, <2>2 DEF QueuedOnce
    <2>6. RanOnce'
      BY <1>1, <2>1, <2>2, <2>3 DEF RanOnce
    <2>7. ReceiptsStand'
      BY <1>1, <1>4, <2>2 DEF ReceiptsStand
    <2>8. AnswersVouched'
      BY <1>1, <2>1, <2>4, VouchedStays
    <2>9. QED
      BY <2>4, <2>5, <2>6, <2>7, <2>8
  <1>5. QED
    BY <1>3, <1>4

\* A receipt that is not read fails the command.
LEMMA ReceiptReadFailsKeepsCommands ==
  ASSUME CommandInduct, NEW c \in Ids, ReceiptReadFails(c)
  PROVE  CommandInduct'
  <1> USE DEF CommandInduct
  <1>1. /\ UNCHANGED <<cache, receipt, waiting, calls, closed, ran, answers>>
        /\ misread' = misread \cup {c} /\ faults' = faults + 1
    BY DEF ReceiptReadFails
  <1>2. /\ preflight' \in Seq(Ids) /\ Distinct(preflight')
        /\ command[c].at = "preflight" /\ Held(preflight') = Held(preflight) \ {c}
    <2>1. preflight # << >> /\ Head(preflight) = c /\ preflight' = Tail(preflight)
      BY DEF ReceiptReadFails
    <2>2. preflight \in Seq(Ids) /\ Distinct(preflight)
      BY DEF CommandShapes, QueuedOnce
    <2>3. /\ Tail(preflight) \in Seq(Ids) /\ Distinct(Tail(preflight))
          /\ c \in Held(preflight) /\ Held(Tail(preflight)) = Held(preflight) \ {c}
      BY <2>1, <2>2, QueueShrinks
    <2>4. QED
      BY <2>1, <2>3 DEF QueuedOnce
  <1>3. /\ command' \in [Ids -> Commands] /\ \A d \in Ids \ {c} : command'[d] = command[d]
        /\ command'[c].at = "save" /\ command'[c].sig = command[c].sig
        /\ command'[c].value = "failed"
    <2>1. command' = [command EXCEPT ![c].at = "save", ![c].value = "failed"]
      BY DEF ReceiptReadFails
    <2>2. QED
      BY <2>1, ValueChanges DEF CommandShapes, CommandStages, Values, Results
  <1>4. CommandShapes'
    BY <1>1, <1>2, <1>3 DEF CommandShapes
  <1>5. QueuedOnce'
    BY <1>2, <1>3 DEF QueuedOnce, Results
  <1>6. RanOnce' /\ ReceiptsStand'
    BY <1>1, <1>2, <1>3 DEF RanOnce, ReceiptsStand
  <1>7. AnswersVouched'
    BY <1>1, <1>4, VouchedStays
  <1>8. QED
    BY <1>4, <1>5, <1>6, <1>7

\* The result of a work is to be saved.
LEMMA WorkEndsKeepsCommands ==
  ASSUME CommandInduct, NEW c \in Ids, WorkEnds(c)
  PROVE  CommandInduct'
  <1> USE DEF CommandInduct
  <1>1. UNCHANGED <<preflight, cache, receipt, waiting, calls, closed, faults, ran, answers,
                    misread>>
    BY DEF WorkEnds
  <1>2. /\ command' \in [Ids -> Commands] /\ \A d \in Ids \ {c} : command'[d] = command[d]
        /\ command[c].at = "work" /\ command'[c].at = "save"
        /\ command'[c].sig = command[c].sig /\ command'[c].value \in Results
    <2>1. PICK v \in Results : command' = [command EXCEPT ![c].at = "save", ![c].value = v]
      BY DEF WorkEnds
    <2>2. "save" \in CommandStages /\ v \in Values /\ command \in [Ids -> Commands]
      BY DEF CommandStages, Values, CommandShapes
    <2>3. /\ command' \in [Ids -> Commands] /\ \A d \in Ids \ {c} : command'[d] = command[d]
          /\ command'[c].at = "save" /\ command'[c].sig = command[c].sig
          /\ command'[c].value = v
      BY <2>1, <2>2 DEF Commands
    <2>4. QED
      BY <2>3 DEF WorkEnds
  <1>3. CommandShapes'
    BY <1>1, <1>2 DEF CommandShapes
  <1>4. QueuedOnce'
    BY <1>1, <1>2 DEF QueuedOnce
  <1>5. RanOnce' /\ ReceiptsStand'
    BY <1>1, <1>2 DEF RanOnce, ReceiptsStand
  <1>6. AnswersVouched'
    BY <1>1, <1>3, VouchedStays
  <1>7. QED
    BY <1>3, <1>4, <1>5, <1>6

\* The receipt is durable, and answers the calls.
LEMMA ReceiptSavedKeepsCommands ==
  ASSUME CommandInduct, NEW c \in Ids, ReceiptSaved(c)
  PROVE  CommandInduct'
  <1> USE DEF CommandInduct
  <1>0. command[c].sig \in Signatures /\ command[c].value \in Results
    BY DEF ReceiptSaved, QueuedOnce
  <1>a. PICK sig \in Signatures, value \in Results :
          sig = command[c].sig /\ value = command[c].value
    BY <1>0
  <1>1. /\ UNCHANGED <<preflight, calls, closed, faults, ran, misread>>
        /\ command[c].at = "save"
    BY DEF ReceiptSaved
  <1>2. /\ command' \in [Ids -> Commands] /\ \A d \in Ids \ {c} : command'[d] = command[d]
        /\ command'[c] = NoCommand
    <2>1. NoCommand \in Commands
      BY DEF NoCommand, Commands, CommandStages, Sigs, Values
    <2>2. QED
      BY <2>1, CommandChanges DEF ReceiptSaved, CommandShapes
  <1>3. /\ waiting' \in [Ids -> Nat] /\ \A d \in Ids \ {c} : waiting'[d] = waiting[d]
        /\ waiting'[c] = 0
    BY Resolved DEF ReceiptSaved
  <1>4. /\ receipt' \in [Ids -> [sig : Sigs, result : Values]]
        /\ \A d \in Ids \ {c} : receipt'[d] = receipt[d]
        /\ receipt'[c] = IF receipt[c] # NoReceipt THEN receipt[c]
                         ELSE [sig |-> sig, result |-> value]
    BY <1>a DEF ReceiptSaved, Written, CommandShapes, Sigs, Values
  <1>5. receipt'[c].sig = sig /\ receipt'[c].result \in Results /\ Vouched(c, sig, value)'
    <2>1. CASE receipt[c] # NoReceipt
      <3>1. receipt[c].sig = sig /\ receipt[c].result \in Results /\ c \in misread
        BY <1>1, <1>a, <2>1 DEF ReceiptSaved, ReceiptsStand
      <3>2. QED
        BY <1>1, <1>4, <2>1, <3>1 DEF Vouched
    <2>2. CASE receipt[c] = NoReceipt
      BY <1>1, <1>4, <2>2 DEF Vouched
    <2>3. QED
      BY <2>1, <2>2
  <1>6. answers' = answers \cup {[id |-> c, sig |-> sig, answer |-> value]}
    BY <1>a, Resolved DEF ReceiptSaved
  <1>7. /\ cache' \in Seq(Entries) /\ Len(cache') <= CacheLimit
        /\ Held(cache') \subseteq Held(cache) \cup {[id |-> c, sig |-> sig, result |-> value]}
    <2>1. cache' = CacheReceipt(c, [sig |-> sig, result |-> value])
      BY <1>a DEF ReceiptSaved
    <2>2. [id |-> c, sig |-> sig, result |-> value] \in Entries
      BY DEF Entries
    <2>3. cache \in Seq(Entries) /\ Len(cache) <= CacheLimit
      BY DEF CommandShapes
    <2>4. \A r, e : /\ e \in Entries /\ e = [id |-> c, sig |-> r.sig, result |-> r.result]
                   /\ cache' = CacheReceipt(c, r)
                   => /\ cache' \in Seq(Entries) /\ Len(cache') <= CacheLimit
                      /\ Held(cache') \subseteq Held(cache) \cup {e}
      BY <2>3, CacheSteps
    <2>5. QED
      BY <2>1, <2>2, <2>4
  <1>8. CommandShapes'
    <2>1. answers' \subseteq Given
      BY <1>1, <1>6 DEF CommandShapes, Given
    <2>2. QED
      BY <1>1, <1>2, <1>3, <1>4, <1>7, <2>1 DEF CommandShapes
  <1>9. QueuedOnce'
    BY <1>1, <1>2 DEF QueuedOnce, NoCommand
  <1>10. receipt'[c] # NoReceipt
    BY <1>5 DEF NoReceipt, Results
  <1>11. RanOnce'
    BY <1>1, <1>2, <1>3, <1>4, <1>10 DEF RanOnce
  <1>12. ReceiptsStand'
    BY <1>1, <1>2, <1>4, <1>5 DEF ReceiptsStand, NoCommand
  <1>13. AnswersVouched'
    <2>1. /\ \A x \in Held(cache') : x \in Held(cache) \/ Vouched(x.id, x.sig, x.result)'
          /\ \A a \in answers' : a \in answers \/ Vouched(a.id, a.sig, a.answer)'
      BY <1>5, <1>6, <1>7
    <2>2. \A d \in Ids : receipt'[d] = receipt[d] \/ receipt[d] = NoReceipt
      BY <1>4
    <2>3. QED
      BY <1>1, <1>8, <2>1, <2>2, VouchedStays
  <1>14. QED
    BY <1>8, <1>9, <1>11, <1>12, <1>13

\* Without a receipt the id stays taken.
LEMMA ReceiptLostKeepsCommands ==
  ASSUME CommandInduct, NEW c \in Ids, ReceiptLost(c)
  PROVE  CommandInduct'
  <1> USE DEF CommandInduct
  <1>1. /\ UNCHANGED <<preflight, cache, receipt, calls, closed, ran, misread>>
        /\ command[c].at = "save" /\ command[c].sig \in Signatures
        /\ faults' \in {faults, faults + 1}
    BY DEF ReceiptLost, QueuedOnce
  <1>2. /\ command' \in [Ids -> Commands] /\ \A d \in Ids \ {c} : command'[d] = command[d]
        /\ command'[c].at = "lost" /\ command'[c].sig = command[c].sig
    <2>1. command' = [command EXCEPT ![c].at = "lost"]
      BY DEF ReceiptLost
    <2>2. QED
      BY <2>1, StageChanges DEF CommandShapes, CommandStages
  <1>3. /\ waiting' \in [Ids -> Nat] /\ \A d \in Ids \ {c} : waiting'[d] = waiting[d]
        /\ waiting'[c] = 0
    BY Resolved DEF ReceiptLost
  <1>4. answers' = answers \cup {[id |-> c, sig |-> command[c].sig, answer |-> "error"]}
    BY DEF ReceiptLost, Resolve, Answer
  <1>5. CommandShapes'
    <2>1. answers' \subseteq Given
      BY <1>1, <1>4 DEF CommandShapes, Given
    <2>2. QED
      BY <1>1, <1>2, <1>3, <2>1 DEF CommandShapes
  <1>6. QueuedOnce'
    BY <1>1, <1>2 DEF QueuedOnce
  <1>7. RanOnce' /\ ReceiptsStand'
    BY <1>1, <1>2, <1>3 DEF RanOnce, ReceiptsStand
  <1>8. AnswersVouched'
    <2>1. \A a \in answers' : a \in answers \/ a.answer \notin Results
      BY <1>4 DEF Results
    <2>2. QED
      BY <1>1, <1>5, <2>1, VouchedStays
  <1>9. QED
    BY <1>5, <1>6, <1>7, <1>8

\* Admission is closed.
LEMMA BeginShutdownKeepsCommands ==
  ASSUME CommandInduct, BeginShutdown
  PROVE  CommandInduct'
  <1> USE DEF CommandInduct
  <1>1. CommandShapes'
    BY DEF BeginShutdown, CommandShapes, CommandStages, Sigs, Values, Results, NoCommand
  <1>2. QueuedOnce'
    BY DEF BeginShutdown, QueuedOnce, CommandShapes, CommandStages, Sigs, Values
  <1>3. RanOnce'
    BY DEF BeginShutdown, RanOnce, QueuedOnce, CommandShapes, CommandStages, Sigs, Values
  <1>4. ReceiptsStand'
    BY DEF BeginShutdown, ReceiptsStand, QueuedOnce, CommandShapes, CommandStages, Sigs, Values
  <1>5. AnswersVouched'
    BY <1>1, VouchedStays DEF BeginShutdown
  <1>6. QED
    BY <1>1, <1>2, <1>3, <1>4, <1>5

\* A step of the services leaves the commands alone.
LEMMA CommandsUnchangedKeepsCommands ==
  ASSUME CommandInduct, NEW failed, CommandsUnchanged(failed)
  PROVE  CommandInduct'
  <1> USE DEF CommandInduct
  <1>1. CommandShapes'
    BY DEF CommandsUnchanged, Fault, CommandShapes, CommandStages, Sigs, Values, Results,
       NoCommand
  <1>2. QueuedOnce'
    BY DEF CommandsUnchanged, Fault, QueuedOnce, CommandShapes, CommandStages, Sigs, Values
  <1>3. RanOnce'
    BY DEF CommandsUnchanged, Fault, RanOnce, QueuedOnce, CommandShapes, CommandStages, Sigs,
       Values
  <1>4. ReceiptsStand'
    BY DEF CommandsUnchanged, Fault, ReceiptsStand, QueuedOnce, CommandShapes, CommandStages,
       Sigs, Values
  <1>5. AnswersVouched'
    BY <1>1, VouchedStays DEF CommandsUnchanged
  <1>6. QED
    BY <1>1, <1>2, <1>3, <1>4, <1>5

\* Nothing happens.
LEMMA StutterKeepsCommands ==
  ASSUME CommandInduct, UNCHANGED vars
  PROVE  CommandInduct'
  <1> USE DEF CommandInduct
  <1>1. CommandShapes'
    BY DEF vars, CommandShapes, CommandStages, Sigs, Values, Results, NoCommand
  <1>2. QueuedOnce'
    BY DEF vars, QueuedOnce, CommandShapes, CommandStages, Sigs, Values
  <1>3. RanOnce'
    BY DEF vars, RanOnce, QueuedOnce, CommandShapes, CommandStages, Sigs, Values
  <1>4. ReceiptsStand'
    BY DEF vars, ReceiptsStand, QueuedOnce, CommandShapes, CommandStages, Sigs, Values
  <1>5. AnswersVouched'
    BY <1>1, VouchedStays DEF vars
  <1>6. QED
    BY <1>1, <1>2, <1>3, <1>4, <1>5

-----------------------------------------------------------------------------
(* The works.                                                              *)

\* A work goes on to its next await.
LEMMA WorkGoes ==
  ASSUME work \in [Ids -> Works], NEW c \in Ids, NEW at \in WorkStages,
         NEW s \in Services \cup {None}, Goes(c, at, s)
  PROVE  /\ work' \in [Ids -> Works] /\ \A d \in Ids \ {c} : work'[d] = work[d]
         /\ work'[c].at = at /\ work'[c].service = s
  BY DEF Goes, Works

\* A work ends with a result.
LEMMA WorkDone ==
  ASSUME work \in [Ids -> Works], outcome \in [Ids -> Values], NEW c \in Ids,
         NEW result \in Results, Ends(c, result)
  PROVE  /\ work' \in [Ids -> Works] /\ \A d \in Ids \ {c} : work'[d] = work[d]
         /\ work'[c].at = "none" /\ work'[c].service = None
         /\ outcome' \in [Ids -> Values] /\ \A d \in Ids \ {c} : outcome'[d] = outcome[d]
         /\ outcome'[c] = result /\ result # "none"
  BY DEF Ends, NoWork, Works, WorkStages, Values, Results

\* A step that no work is begun or ended by.
CommandsQuiet ==
  /\ \A c \in Ids : command[c].at = "work" <=> command'[c].at = "work"
  /\ closed => closed'
  /\ closed /\ Settled => Settled'

\* The work of a command begins.
CommandStarts(c) ==
  /\ command[c].at = "preflight" /\ command'[c].at = "work"
  /\ \A d \in Ids \ {c} : command'[d] = command[d]
  /\ closed' = closed

\* A step of a service leaves the commands and the slot alone, and ends the works whose
\* admission ends with it.
LEMMA ServesSteps ==
  ASSUME work \in [Ids -> Works], outcome \in [Ids -> Values], NEW s \in Services, NEW failed,
         Serves(s, failed)
  PROVE  /\ UNCHANGED <<command, closed, slot, openingSlot, made, session, credential, coreClose>>
         /\ work' \in [Ids -> Works] /\ outcome' \in [Ids -> Values]
         /\ \A c \in Ids :
              \/ work'[c] = work[c] /\ outcome'[c] = outcome[c]
                 /\ (work[c].at = "admit" /\ work[c].service = s =>
                       pending'[s] \notin {"accepted", "rejected"})
              \/ /\ work[c].at = "admit" /\ work[c].service = s
                 /\ pending'[s] \in {"accepted", "rejected"}
                 /\ work'[c].at = "none" /\ work'[c].service = None /\ outcome'[c] # "none"
  <1> DEFINE answered == {c \in Ids : /\ work[c] = [at |-> "admit", service |-> s]
                                      /\ pending'[s] \in {"accepted", "rejected"}}
  <1>1. /\ work' = [c \in Ids |-> IF c \in answered THEN NoWork ELSE work[c]]
        /\ outcome' = [c \in Ids |-> IF c \in answered THEN pending'[s] ELSE outcome[c]]
        /\ UNCHANGED <<command, closed, slot, openingSlot, made, session, credential, coreClose>>
    BY DEF Serves, CommandsUnchanged
  <1>2. \A c \in Ids : work[c] = [at |-> work[c].at, service |-> work[c].service]
    BY DEF Works
  <1>3. NoWork \in Works /\ NoWork.at = "none" /\ NoWork.service = None
    BY DEF NoWork, Works, WorkStages
  <1>4. \A c \in answered : pending'[s] \in Values /\ pending'[s] # "none"
    BY DEF Values, Results
  <1>5. \A c \in Ids : c \in answered <=> /\ work[c].at = "admit" /\ work[c].service = s
                                         /\ pending'[s] \in {"accepted", "rejected"}
    BY <1>2
  <1> HIDE DEF answered
  <1>6. QED
    BY <1>1, <1>3, <1>4, <1>5

\* A cancellation reaches the coordinator at once if the Worker is up.
LEMMA CancelSteps ==
  ASSUME SlotShapes, NEW s \in Services, CancelActiveTurn(s)
  PROVE  /\ cancelled' \in [Services -> BOOLEAN] /\ told' \in [Services -> BOOLEAN]
         /\ watchdog' \in [Services -> BOOLEAN] /\ UNCHANGED <<StartVars, pending, turn, close>>
         /\ told'[s] <=> host[s] = "up"
         /\ \A r \in Services \ {s} : cancelled'[r] = cancelled[r] /\ told'[r] = told[r]
  <1>1. (host[s] = "up") \in BOOLEAN /\ (pending[s] = "start") \in BOOLEAN
    OBVIOUS
  <1>2. /\ cancelled' \in [Services -> BOOLEAN] /\ told' \in [Services -> BOOLEAN]
        /\ watchdog' \in [Services -> BOOLEAN]
    BY <1>1 DEF SlotShapes, CancelActiveTurn
  <1>3. told'[s] = (host[s] = "up")
    BY DEF SlotShapes, CancelActiveTurn
  <1>4. \A r \in Services \ {s} : cancelled'[r] = cancelled[r] /\ told'[r] = told[r]
    BY DEF CancelActiveTurn
  <1>5. QED
    BY <1>2, <1>3, <1>4 DEF CancelActiveTurn

\* The slot keeps its holder while the works that hold it do.
LEMMA HolderStays ==
  ASSUME SlotHasOneHolder, UNCHANGED <<openingSlot, credential>>, SlotBusy' => SlotBusy,
         \A d \in Ids : work'[d].at \in HoldingStages <=> work[d].at \in HoldingStages,
         \A d \in Ids : work'[d].at = "control" <=> work[d].at = "control"
  PROVE  SlotHasOneHolder'
  <1>1. openingSlot' <=> credential' = "save" \/ (\E c \in Ids : work'[c].at \in HoldingStages)
    BY DEF SlotHasOneHolder
  <1>2. credential' = "save" => \A c \in Ids : work'[c].at \notin HoldingStages
    BY DEF SlotHasOneHolder
  <1>3. ASSUME NEW c \in Ids, NEW d \in Ids,
               work'[c].at \in HoldingStages /\ work'[d].at \in HoldingStages
        PROVE  c = d
    BY <1>3 DEF SlotHasOneHolder
  <1>4. openingSlot' /\ SlotBusy' => \E c \in Ids : work'[c].at = "control"
    BY DEF SlotHasOneHolder
  <1>5. QED
    BY <1>1, <1>2, <1>3, <1>4 DEF SlotHasOneHolder

\* It is free again when the one that holds it ends.
LEMMA HolderLeaves ==
  ASSUME SlotHasOneHolder, NEW c \in Ids, work[c].at \in HoldingStages,
         work'[c].at \notin HoldingStages, \A d \in Ids \ {c} : work'[d] = work[d],
         openingSlot' = FALSE, UNCHANGED credential
  PROVE  SlotHasOneHolder'
  <1>1. credential # "save" /\ \A d \in Ids \ {c} : work[d].at \notin HoldingStages
    BY DEF SlotHasOneHolder
  <1>2. \A d \in Ids : work'[d].at \notin HoldingStages
    BY <1>1
  <1>3. QED
    BY <1>1, <1>2 DEF SlotHasOneHolder

\* The one that holds it goes on; a task is only active at its last await.
LEMMA HolderGoesOn ==
  ASSUME SlotHasOneHolder, NEW c \in Ids, work[c].at \in HoldingStages,
         work'[c].at \in HoldingStages, \A d \in Ids \ {c} : work'[d] = work[d],
         UNCHANGED <<openingSlot, credential>>, openingSlot = TRUE,
         SlotBusy' => work'[c].at = "control"
  PROVE  SlotHasOneHolder'
  <1>1. credential # "save" /\ \A d \in Ids \ {c} : work[d].at \notin HoldingStages
    BY DEF SlotHasOneHolder
  <1>2. \A d \in Ids \ {c} : work'[d].at \notin HoldingStages
    BY <1>1
  <1>3. QED
    BY <1>1, <1>2 DEF SlotHasOneHolder
\* No work is touched, whether the active task is cancelled or not.
LEMMA QuietKeepsServices ==
  ASSUME ServiceInduct,
         CommandsQuiet, UNCHANGED coreVars, UNCHANGED sessionVars \/ CancelSlot
  PROVE  ServiceInduct'
  <1> USE ServicesAssumption DEF ServiceInduct, StartVars, AdmissionVars, sessionVars, coreVars
  <1>1. SlotShapes'
    <2>1. CASE UNCHANGED sessionVars
      BY <2>1 DEF SlotShapes
    <2>2. CASE CancelSlot
      <3>1. CASE CancelActiveTurn(slot) /\ slot \in Services
        BY <3>1, CancelSteps DEF SlotShapes
      <3>2. QED
        BY <2>1, <2>2, <3>1 DEF CancelSlot, SlotBusy, SlotShapes
    <2>3. QED
      BY <2>1, <2>2
  <1>2. WorksAreOfCommands'
    BY DEF CommandsQuiet, CancelSlot, CancelActiveTurn, WorksAreOfCommands
  <1>3. SlotHasOneHolder'
    BY DEF CommandsQuiet, CancelSlot, CancelActiveTurn, SlotHasOneHolder, SlotShapes,
       HoldingStages, SlotBusy, Busy, Admitting
  <1>4. WorksHoldServices'
    BY DEF CommandsQuiet, CancelSlot, CancelActiveTurn, WorksHoldServices, SlotShapes,
       SlotHasOneHolder, HoldingStages, Admitting
  <1>5. ServicesRun'
    BY DEF CommandsQuiet, CancelSlot, CancelActiveTurn, ServicesRun, Admitting
  <1>6. ServicesClose'
    BY DEF CommandsQuiet, CancelSlot, CancelActiveTurn, ServicesClose, SlotShapes, ServicesRun,
       WorksHoldServices, ClosedWhenIdle
  <1>7. ClosedWhenIdle'
    BY DEF CommandsQuiet, CancelSlot, CancelActiveTurn, ClosedWhenIdle, SlotShapes, Admitting,
       ServicesRun, ServicesClose, WorksHoldServices, WorksAreOfCommands, Settled,
       SlotHasOneHolder
  <1>8. CancelIsKept'
    <2>1. CASE UNCHANGED sessionVars
      BY <2>1 DEF CancelIsKept
    <2>2. CASE CancelSlot
      <3>1. CASE CancelActiveTurn(slot) /\ slot \in Services
        BY <3>1, CancelSteps DEF CancelIsKept, ServicesRun
      <3>2. QED
        BY <2>1, <2>2, <3>1 DEF CancelSlot, SlotBusy, SlotShapes
    <2>3. QED
      BY <2>1, <2>2
  <1>9. CoreClosesLast'
    BY DEF CommandsQuiet, CancelSlot, CancelActiveTurn, CoreClosesLast
  <1>10. QED
    BY <1>1, <1>2, <1>3, <1>4, <1>5, <1>6, <1>7, <1>8, <1>9

\* A work that is refused, or has nothing to do, ends at once.
LEMMA StartRefusedKeepsServices ==
  ASSUME ServiceInduct, NEW c \in Ids, NEW result \in Results,
         CommandStarts(c), Ends(c, result),
         UNCHANGED <<slot, openingSlot, made, session, credential, coreClose, sessionVars>>
  PROVE  ServiceInduct'
  <1> USE ServicesAssumption DEF ServiceInduct, StartVars, AdmissionVars, sessionVars, coreVars
  <1>0. /\ work' \in [Ids -> Works] /\ \A d \in Ids \ {c} : work'[d] = work[d]
        /\ work'[c].at = "none" /\ work'[c].service = None
        /\ outcome' \in [Ids -> Values] /\ \A d \in Ids \ {c} : outcome'[d] = outcome[d]
        /\ outcome'[c] # "none"
    BY WorkDone DEF SlotShapes
  <1>1. SlotShapes'
    BY <1>0 DEF CommandStarts, SlotShapes, Works, WorkStages
  <1>2. WorksAreOfCommands'
    BY <1>0 DEF CommandStarts, WorksAreOfCommands
  <1>3. SlotHasOneHolder'
    <2>0. work[c].at = "none"
      BY DEF WorksAreOfCommands, CommandStarts
    <2>1. /\ \A d \in Ids : work'[d].at \in HoldingStages <=> work[d].at \in HoldingStages
          /\ \A d \in Ids : work'[d].at = "control" <=> work[d].at = "control"
      BY <1>0, <2>0
    <2>2. SlotBusy' => SlotBusy
      BY <1>0 DEF SlotBusy, Busy, Admitting
    <2>3. QED
      BY <1>0, <2>1, <2>2, HolderStays
  <1>4. WorksHoldServices'
    BY <1>0 DEF CommandStarts, WorksHoldServices, SlotShapes, SlotHasOneHolder, HoldingStages,
       Admitting
  <1>5. ServicesRun'
    <2>1. \A d \in Ids : work[d].at \in {"admit", "alter"} => work'[d] = work[d]
      BY <1>0 DEF WorksAreOfCommands, CommandStarts
    <2>2. QED
      BY <1>0, <2>1 DEF ServicesRun, Admitting
  <1>6. ServicesClose'
    <2>1. \A d \in Ids : work[d].at \in {"closePrevious"} => work'[d] = work[d]
      BY <1>0 DEF WorksAreOfCommands, CommandStarts
    <2>2. QED
      BY <1>0, <2>1 DEF ServicesClose
  <1>7. ClosedWhenIdle'
    BY <1>0 DEF CommandStarts, ClosedWhenIdle, SlotShapes, Admitting, ServicesRun, ServicesClose,
       WorksHoldServices, WorksAreOfCommands, Settled, SlotHasOneHolder
  <1>8. CancelIsKept'
    BY <1>0 DEF CommandStarts, CancelIsKept
  <1>9. CoreClosesLast'
    BY <1>0 DEF CommandStarts, CoreClosesLast, Settled
  <1>10. QED
    BY <1>1, <1>2, <1>3, <1>4, <1>5, <1>6, <1>7, <1>8, <1>9

\* The slot is reserved for another Session.
LEMMA OpenStartsKeepsServices ==
  ASSUME ServiceInduct, NEW c \in Ids, NEW at \in {"control", "make"},
         CommandStarts(c), ~openingSlot, at = "control" \/ ~SlotBusy, openingSlot' = TRUE,
         Goes(c, at, None), UNCHANGED <<outcome, slot, made, session, credential, coreClose,
                                        sessionVars>>
  PROVE  ServiceInduct'
  <1> USE ServicesAssumption DEF ServiceInduct, StartVars, AdmissionVars, sessionVars, coreVars
  <1>0. /\ work' \in [Ids -> Works] /\ \A d \in Ids \ {c} : work'[d] = work[d]
        /\ work'[c].at = at /\ work'[c].service = None /\ UNCHANGED outcome
    BY WorkGoes DEF WorkStages, HoldingStages, SlotShapes
  <1>1. SlotShapes'
    BY <1>0 DEF CommandStarts, SlotShapes, Works, WorkStages
  <1>2. WorksAreOfCommands'
    BY <1>0 DEF WorksAreOfCommands, CommandStarts
  <1>3. SlotHasOneHolder'
    <2>1. \A d \in Ids : work[d].at \notin HoldingStages
      BY DEF SlotHasOneHolder
    <2>2. work'[c].at \in HoldingStages /\ \A d \in Ids \ {c} : work'[d].at \notin HoldingStages
      BY <1>0, <2>1 DEF HoldingStages
    <2>3. SlotBusy' => work'[c].at = "control"
      BY <1>0 DEF SlotBusy, Busy, Admitting
    <2>4. credential # "save" /\ UNCHANGED credential
      BY DEF SlotHasOneHolder
    <2>5. QED
      BY <2>2, <2>3, <2>4 DEF SlotHasOneHolder
  <1>4. WorksHoldServices'
    BY <1>0 DEF WorksHoldServices, Admitting
  <1>5. ServicesRun'
    <2>1. \A d \in Ids : work[d].at \in {"admit", "alter"} => work'[d] = work[d]
      BY <1>0 DEF WorksAreOfCommands, CommandStarts
    <2>2. QED
      BY <1>0, <2>1 DEF ServicesRun, Admitting
  <1>6. ServicesClose'
    <2>1. \A d \in Ids : work[d].at \in {"closePrevious"} => work'[d] = work[d]
      BY <1>0 DEF WorksAreOfCommands, CommandStarts
    <2>2. QED
      BY <1>0, <2>1 DEF ServicesClose
  <1>7. ClosedWhenIdle'
    BY DEF ClosedWhenIdle, Admitting
  <1>8. CancelIsKept'
    BY <1>0 DEF CommandStarts, CancelIsKept
  <1>9. CoreClosesLast'
    BY <1>0 DEF CommandStarts, CoreClosesLast, Settled
  <1>10. QED
    BY <1>1, <1>2, <1>3, <1>4, <1>5, <1>6, <1>7, <1>8, <1>9

\* A task is admitted by the service of the slot.
LEMMA SubmitStartsKeepsServices ==
  ASSUME ServiceInduct, NEW c \in Ids,
         CommandStarts(c), slot # None, ~openingSlot, ~SlotBusy, Admit(slot),
         Goes(c, "admit", slot),
         pending'[slot] # "rejected",
         UNCHANGED <<outcome, slot, openingSlot, made, session, credential, coreClose>>
  PROVE  ServiceInduct'
  <1> USE ServicesAssumption DEF ServiceInduct, StartVars, AdmissionVars, sessionVars, coreVars
  <1>0. /\ work' \in [Ids -> Works] /\ \A d \in Ids \ {c} : work'[d] = work[d]
        /\ work'[c].at = "admit" /\ work'[c].service = slot /\ UNCHANGED outcome
    BY WorkGoes DEF WorkStages, SlotShapes
  <1>1. SlotShapes'
    BY <1>0 DEF CommandStarts, Admit, EnsureStarted, SlotShapes, Works, WorkStages
  <1>2. WorksAreOfCommands'
    BY <1>0 DEF CommandStarts, Admit, EnsureStarted, WorksAreOfCommands
  <1>3. SlotHasOneHolder'
    BY <1>0 DEF CommandStarts, Admit, EnsureStarted, SlotHasOneHolder, SlotShapes, HoldingStages,
       SlotBusy, Busy
  <1>4. WorksHoldServices'
    BY <1>0 DEF CommandStarts, Admit, EnsureStarted, WorksHoldServices, SlotShapes,
       SlotHasOneHolder, HoldingStages, Admitting
  <1>5. ServicesRun'
    <2>1. work[c].at = "none"
      BY DEF WorksAreOfCommands, CommandStarts
    <2>2. \A d \in Ids : work[d].at \in {"admit", "alter"} => work'[d] = work[d]
      BY <1>0, <2>1
    <2>3. /\ pending'[slot] \in {"start", "host"}
             /\ host'[slot] = IF host[slot] = "none" THEN "starting" ELSE host[slot]
          /\ pending'[slot] = "host" <=> host[slot] = "up"
          /\ host[slot] \notin {"failed", "closed"} /\ UNCHANGED turn /\ ~turn[slot]
          /\ \A s \in Services \ {slot} : host'[s] = host[s] /\ pending'[s] = pending[s]
      BY DEF Admit, EnsureStarted, SlotShapes, SlotBusy, Busy, ServicesClose
    <2>4. ASSUME NEW s \in Services \ {slot}
          PROVE  ServicesRun!(s)'
      BY <2>2, <2>3 DEF ServicesRun, Admitting
    <2>5. ServicesRun!(slot)'
      BY <1>0, <2>3 DEF SlotShapes
    <2>6. QED
      BY <2>4, <2>5 DEF ServicesRun
  <1>6. ServicesClose'
    BY <1>0 DEF CommandStarts, Admit, EnsureStarted, ServicesClose, SlotShapes, ServicesRun,
       WorksHoldServices, ClosedWhenIdle, HoldingStages, SlotHasOneHolder
  <1>7. ClosedWhenIdle'
    BY <1>0 DEF CommandStarts, Admit, EnsureStarted, ClosedWhenIdle, SlotShapes, Admitting,
       ServicesRun, ServicesClose, WorksHoldServices, WorksAreOfCommands, Settled,
       SlotHasOneHolder
  <1>8. CancelIsKept'
    BY <1>0 DEF CommandStarts, Admit, EnsureStarted, CancelIsKept, SlotShapes
  <1>9. CoreClosesLast'
    BY <1>0 DEF CommandStarts, Admit, EnsureStarted, CoreClosesLast
  <1>10. QED
    BY <1>1, <1>2, <1>3, <1>4, <1>5, <1>6, <1>7, <1>8, <1>9

\* Its start had failed: the task is rejected.
LEMMA SubmitRejectedKeepsServices ==
  ASSUME ServiceInduct, NEW c \in Ids,
         CommandStarts(c), slot # None, ~openingSlot, ~SlotBusy, Admit(slot), Ends(c, "rejected"),
         pending'[slot] = "rejected",
         UNCHANGED <<slot, openingSlot, made, session, credential, coreClose>>
  PROVE  ServiceInduct'
  <1> USE ServicesAssumption DEF ServiceInduct, StartVars, AdmissionVars, sessionVars, coreVars
  <1>0. /\ work' \in [Ids -> Works] /\ \A d \in Ids \ {c} : work'[d] = work[d]
        /\ work'[c].at = "none" /\ work'[c].service = None
        /\ outcome' \in [Ids -> Values] /\ \A d \in Ids \ {c} : outcome'[d] = outcome[d]
        /\ outcome'[c] # "none"
    BY WorkDone DEF Results, SlotShapes
  <1>1. SlotShapes'
    BY <1>0 DEF CommandStarts, Admit, EnsureStarted, SlotShapes, Works, WorkStages
  <1>2. WorksAreOfCommands'
    BY <1>0 DEF CommandStarts, Admit, EnsureStarted, WorksAreOfCommands
  <1>3. SlotHasOneHolder'
    <2>0. work[c].at = "none"
      BY DEF WorksAreOfCommands, CommandStarts
    <2>1. \A d \in Ids : work'[d].at \in HoldingStages <=> work[d].at \in HoldingStages
      BY <1>0, <2>0
    <2>2. QED
      BY <2>1 DEF SlotHasOneHolder
  <1>4. WorksHoldServices'
    <2>1. work[c].at = "none"
      BY DEF WorksAreOfCommands, CommandStarts
    <2>2. \A d \in Ids : work[d].at # "admit"
      BY DEF WorksHoldServices, SlotBusy, Busy
    <2>3. QED
      BY <1>0, <2>1, <2>2 DEF WorksHoldServices, Admit
  <1>5. ServicesRun'
    BY <1>0 DEF CommandStarts, Admit, EnsureStarted, ServicesRun, SlotShapes, Admitting,
       WorksHoldServices
  <1>6. ServicesClose'
    BY <1>0 DEF CommandStarts, Admit, EnsureStarted, ServicesClose, SlotShapes, ServicesRun,
       WorksHoldServices, ClosedWhenIdle, HoldingStages, SlotHasOneHolder
  <1>7. ClosedWhenIdle'
    BY <1>0 DEF CommandStarts, Admit, EnsureStarted, ClosedWhenIdle, SlotShapes, Admitting,
       ServicesRun, ServicesClose, WorksHoldServices, WorksAreOfCommands, Settled,
       SlotHasOneHolder
  <1>8. CancelIsKept'
    BY <1>0 DEF CommandStarts, Admit, EnsureStarted, CancelIsKept, SlotShapes
  <1>9. CoreClosesLast'
    BY <1>0 DEF CommandStarts, Admit, EnsureStarted, CoreClosesLast
  <1>10. QED
    BY <1>1, <1>2, <1>3, <1>4, <1>5, <1>6, <1>7, <1>8, <1>9

\* The Session is altered by the service of the slot.
LEMMA AlterStartsKeepsServices ==
  ASSUME ServiceInduct, NEW c \in Ids,
         CommandStarts(c), slot # None, ~openingSlot, ~SlotBusy, EnsureStarted(slot),
         host[slot] # "failed", Goes(c, "alter", slot), openingSlot' = TRUE,
         UNCHANGED <<outcome, slot, made, session, credential, coreClose, AdmissionVars, turn,
                     close>>
  PROVE  ServiceInduct'
  <1> USE ServicesAssumption DEF ServiceInduct, StartVars, AdmissionVars, sessionVars, coreVars
  <1>0. /\ work' \in [Ids -> Works] /\ \A d \in Ids \ {c} : work'[d] = work[d]
        /\ work'[c].at = "alter" /\ work'[c].service = slot /\ UNCHANGED outcome
    BY WorkGoes DEF WorkStages, HoldingStages, SlotShapes
  <1>1. SlotShapes'
    BY <1>0 DEF CommandStarts, EnsureStarted, SlotShapes, Works, WorkStages
  <1>2. WorksAreOfCommands'
    BY <1>0 DEF CommandStarts, EnsureStarted, WorksAreOfCommands
  <1>3. SlotHasOneHolder'
    BY <1>0 DEF CommandStarts, EnsureStarted, SlotHasOneHolder, SlotShapes, HoldingStages,
       SlotBusy, Busy, Admitting
  <1>4. WorksHoldServices'
    BY <1>0 DEF CommandStarts, EnsureStarted, WorksHoldServices, SlotShapes, SlotHasOneHolder,
       HoldingStages, Admitting
  <1>5. ServicesRun'
    <2>1. work[c].at = "none"
      BY DEF WorksAreOfCommands, CommandStarts
    <2>2. \A d \in Ids : work[d].at \in {"admit", "alter"} => work'[d] = work[d]
      BY <1>0, <2>1
    <2>3. /\ host'[slot] = IF host[slot] = "none" THEN "starting" ELSE host[slot]
          /\ \A s \in Services \ {slot} : host'[s] = host[s]
      BY DEF EnsureStarted, SlotShapes
    <2>4. ASSUME NEW s \in Services \ {slot}
          PROVE  ServicesRun!(s)'
      BY <2>2, <2>3 DEF ServicesRun, Admitting
    <2>5. ServicesRun!(slot)'
      BY <1>0, <2>3 DEF SlotShapes, ServicesRun, Admitting, SlotBusy, Busy
    <2>6. QED
      BY <2>4, <2>5 DEF ServicesRun
  <1>6. ServicesClose'
    <2>1. work[c].at = "none"
      BY DEF WorksAreOfCommands, CommandStarts
    <2>2. \A d \in Ids : work[d].at = "closePrevious" => work'[d] = work[d]
      BY <1>0, <2>1
    <2>3. /\ host'[slot] = IF host[slot] = "none" THEN "starting" ELSE host[slot]
          /\ \A s \in Services \ {slot} : host'[s] = host[s]
      BY DEF EnsureStarted, SlotShapes
    <2>4. made[slot] = "ready" /\ close[slot] = "open"
      BY DEF ServicesClose, CoreClosesLast, Settled, CommandStarts
    <2>5. QED
      BY <2>2, <2>3, <2>4 DEF ServicesClose
  <1>7. ClosedWhenIdle'
    BY <1>0 DEF CommandStarts, EnsureStarted, ClosedWhenIdle, SlotShapes, Admitting, ServicesRun,
       ServicesClose, WorksHoldServices, WorksAreOfCommands, Settled, SlotHasOneHolder
  <1>8. CancelIsKept'
    BY <1>0 DEF CommandStarts, EnsureStarted, CancelIsKept
  <1>9. CoreClosesLast'
    BY <1>0 DEF CommandStarts, EnsureStarted, CoreClosesLast, Settled
  <1>10. QED
    BY <1>1, <1>2, <1>3, <1>4, <1>5, <1>6, <1>7, <1>8, <1>9

\* The outcome of a work is taken.
LEMMA WorkedOutKeepsServices ==
  ASSUME ServiceInduct, NEW c \in Ids,
         command[c].at = "work", command'[c].at = "save",
         \A d \in Ids \ {c} : command'[d] = command[d],
         outcome[c] # "none", outcome' = [outcome EXCEPT ![c] = "none"],
         UNCHANGED <<closed, slot, openingSlot, made, session, work, credential, coreClose,
                     sessionVars>>
  PROVE  ServiceInduct'
  <1> USE ServicesAssumption DEF ServiceInduct, StartVars, AdmissionVars, sessionVars, coreVars
  <1>1. SlotShapes'
    BY DEF SlotShapes, Works, WorkStages, Values
  <1>2. WorksAreOfCommands'
    BY DEF WorksAreOfCommands, SlotShapes
  <1>3. SlotHasOneHolder'
    BY DEF SlotHasOneHolder, SlotShapes, HoldingStages, SlotBusy, Busy, Admitting
  <1>4. WorksHoldServices'
    BY DEF WorksHoldServices, SlotShapes, SlotHasOneHolder, HoldingStages, Admitting
  <1>5. ServicesRun'
    BY DEF ServicesRun, Admitting
  <1>6. ServicesClose'
    BY DEF ServicesClose, SlotShapes, ServicesRun, WorksHoldServices, ClosedWhenIdle
  <1>7. ClosedWhenIdle'
    BY DEF ClosedWhenIdle, SlotShapes, Admitting, ServicesRun, ServicesClose, WorksHoldServices,
       WorksAreOfCommands, Settled, SlotHasOneHolder
  <1>8. CancelIsKept'
    BY DEF CancelIsKept
  <1>9. CoreClosesLast'
    BY DEF CoreClosesLast, Settled
  <1>10. QED
    BY <1>1, <1>2, <1>3, <1>4, <1>5, <1>6, <1>7, <1>8, <1>9

\* The Session is open in Data.
LEMMA MadeKeepsServices ==
  ASSUME ServiceInduct, NEW c \in Ids,
         Made(c)
  PROVE  ServiceInduct'
  <1> USE ServicesAssumption DEF ServiceInduct, StartVars, AdmissionVars, sessionVars, coreVars
  <1>1. PICK s \in Services :
          /\ made[s] = "unused" /\ made' = [made EXCEPT ![s] = "watch"]
          /\ DOMAIN session' = Services
          /\ Goes(c, "watch", s)
    BY DEF Made, SlotShapes
  <1>2. /\ work' \in [Ids -> Works] /\ \A d \in Ids \ {c} : work'[d] = work[d]
        /\ work'[c].at = "watch" /\ work'[c].service = s
    BY <1>1, WorkGoes DEF SlotShapes, WorkStages, HoldingStages
  <1>3. /\ made' \in [Services -> {"unused", "watch", "ready", "leaked"}] /\ made'[s] = "watch"
        /\ \A r \in Services \ {s} : made'[r] = made[r]
    BY <1>1 DEF SlotShapes
  <1>4. /\ work[c].at = "make" /\ UNCHANGED <<slot, openingSlot, outcome, credential, coreClose>>
        /\ UNCHANGED sessionVars /\ UNCHANGED <<command, closed>>
    BY DEF Made, CommandsUnchanged
  <1>5. ~SlotBusy /\ openingSlot = TRUE
    BY <1>4 DEF SlotHasOneHolder, HoldingStages
  <1>6. SlotShapes'
    BY <1>1, <1>2, <1>3, <1>4 DEF SlotShapes
  <1>7. WorksAreOfCommands'
    BY <1>2, <1>4 DEF WorksAreOfCommands
  <1>8. SlotHasOneHolder'
    BY <1>2, <1>4, <1>5, HolderGoesOn DEF HoldingStages, SlotBusy, Busy, Admitting
  <1>9. WorksHoldServices'
    BY <1>1, <1>2, <1>3, <1>4 DEF WorksHoldServices, Admitting
  <1>10. ServicesRun'
    <2>1. \A d \in Ids : work[d].at \in {"admit", "alter"} => work'[d] = work[d]
      BY <1>2, <1>4
    <2>2. QED
      BY <1>4, <2>1 DEF ServicesRun, Admitting
  <1>11. ServicesClose'
    <2>1. \A d \in Ids : work[d].at = "closePrevious" => work'[d] = work[d]
      BY <1>2, <1>4
    <2>2. QED
      BY <1>1, <1>3, <1>4, <2>1 DEF ServicesClose
  <1>12. ClosedWhenIdle' /\ CancelIsKept' /\ CoreClosesLast'
    BY <1>4 DEF ClosedWhenIdle, CancelIsKept, CoreClosesLast, Admitting, Settled
  <1>13. QED
    BY <1>6, <1>7, <1>8, <1>9, <1>10, <1>11, <1>12

\* It is not.
LEMMA MakeFailsKeepsServices ==
  ASSUME ServiceInduct, NEW c \in Ids,
         MakeFails(c)
  PROVE  ServiceInduct'
  <1> USE ServicesAssumption DEF ServiceInduct, StartVars, AdmissionVars, sessionVars, coreVars
  <1>0. /\ work' \in [Ids -> Works] /\ \A d \in Ids \ {c} : work'[d] = work[d]
        /\ work'[c].at = "none" /\ work'[c].service = None
        /\ outcome' \in [Ids -> Values] /\ \A d \in Ids \ {c} : outcome'[d] = outcome[d]
        /\ outcome'[c] # "none"
    BY WorkDone DEF MakeFails, OpenEnds, Results, SlotShapes
  <1>1. SlotShapes'
    BY <1>0 DEF CommandsUnchanged, MakeFails, OpenEnds, SlotShapes, Works, WorkStages
  <1>2. WorksAreOfCommands'
    BY <1>0 DEF CommandsUnchanged, MakeFails, OpenEnds, WorksAreOfCommands
  <1>3. SlotHasOneHolder'
    BY <1>0 DEF CommandsUnchanged, MakeFails, OpenEnds, SlotHasOneHolder, SlotShapes,
       HoldingStages, SlotBusy, Busy
  <1>4. WorksHoldServices'
    BY <1>0 DEF CommandsUnchanged, MakeFails, OpenEnds, WorksHoldServices, SlotShapes,
       SlotHasOneHolder, HoldingStages, Admitting
  <1>5. ServicesRun'
    BY <1>0 DEF CommandsUnchanged, MakeFails, OpenEnds, ServicesRun, Admitting
  <1>6. ServicesClose'
    BY <1>0 DEF CommandsUnchanged, MakeFails, OpenEnds, ServicesClose, SlotShapes, ServicesRun,
       WorksHoldServices, ClosedWhenIdle
  <1>7. ClosedWhenIdle'
    BY <1>0 DEF CommandsUnchanged, MakeFails, OpenEnds, ClosedWhenIdle, SlotShapes, Admitting,
       ServicesRun, ServicesClose, WorksHoldServices, WorksAreOfCommands, Settled,
       SlotHasOneHolder
  <1>8. CancelIsKept'
    BY <1>0 DEF CommandsUnchanged, MakeFails, OpenEnds, CancelIsKept
  <1>9. CoreClosesLast'
    BY <1>0 DEF CommandsUnchanged, MakeFails, OpenEnds, CoreClosesLast, Settled
  <1>10. QED
    BY <1>1, <1>2, <1>3, <1>4, <1>5, <1>6, <1>7, <1>8, <1>9

\* The slot changes hands.
LEMMA WatchedKeepsServices ==
  ASSUME ServiceInduct, NEW c \in Ids,
         Watched(c)
  PROVE  ServiceInduct'
  <1> USE ServicesAssumption DEF ServiceInduct, StartVars, AdmissionVars, sessionVars, coreVars
  <1>1. PICK n \in Services : n = work[c].service
    BY DEF Watched, WorksHoldServices
  <1>2. /\ work[c].at = "watch" /\ slot' = n /\ made' = [made EXCEPT ![n] = "ready"]
        /\ UNCHANGED <<openingSlot, session, outcome, credential, coreClose, command, closed>>
        /\ UNCHANGED <<StartVars, AdmissionVars, turn>>
    BY <1>1 DEF Watched, CommandsUnchanged, Close
  <1>3. /\ made[n] = "watch" /\ made'[n] = "ready" /\ \A s \in Services \ {n} : made'[s] = made[s]
        /\ made' \in [Services -> {"unused", "watch", "ready", "leaked"}]
    BY <1>1, <1>2 DEF WorksHoldServices, SlotShapes
  <1>4. /\ n # slot /\ host[n] = "none" /\ pending[n] = "none" /\ ~turn[n] /\ close[n] = "open"
    BY <1>3 DEF ServicesClose
  <1>5. /\ ~SlotBusy /\ openingSlot = TRUE /\ credential # "save"
        /\ \A d \in Ids \ {c} : work[d].at \notin HoldingStages
    BY <1>2 DEF SlotHasOneHolder, HoldingStages
  <1>6. \A d \in Ids : work[d].at # "admit" /\ work[d].at # "alter"
    BY <1>2, <1>5 DEF WorksHoldServices, HoldingStages, SlotBusy, Busy
  <1>7. \A s \in Services : ~Admitting(s) /\ host[s] # "starting"
    BY <1>6 DEF ServicesRun, Admitting
  <1>8. /\ work' \in [Ids -> Works] /\ \A d \in Ids \ {c} : work'[d] = work[d]
        /\ \/ slot = None /\ work'[c].at = "control" /\ work'[c].service = None /\ UNCHANGED close
           \/ /\ slot # None /\ work'[c].at = "closePrevious" /\ work'[c].service = slot
              /\ close[slot] = "open" /\ close'[slot] = IF host[slot] = "up" THEN "host" ELSE "data"
              /\ close' \in [Services -> {"open", "start", "host", "data", "done", "failed"}]
              /\ \A s \in Services \ {slot} : close'[s] = close[s]
    <2>1. CASE slot = None
      BY <2>1, WorkGoes DEF Watched, SlotShapes, WorkStages, HoldingStages
    <2>2. CASE slot # None
      <3>1. Goes(c, "closePrevious", slot) /\ Close(slot) /\ slot \in Services
        BY <2>2 DEF Watched, SlotShapes
      <3>2. /\ close[slot] = "open" /\ close'[slot] = IF host[slot] = "up" THEN "host" ELSE "data"
            /\ close' \in [Services -> {"open", "start", "host", "data", "done", "failed"}]
            /\ \A s \in Services \ {slot} : close'[s] = close[s]
        BY <1>7, <3>1 DEF Close, SlotShapes
      <3>3. QED
        BY <2>2, <3>1, <3>2, WorkGoes DEF SlotShapes, WorkStages, HoldingStages
    <2>3. QED
      BY <2>1, <2>2
  <1>9. SlotShapes'
    BY <1>2, <1>3, <1>8 DEF SlotShapes
  <1>10. WorksAreOfCommands'
    BY <1>2, <1>8 DEF WorksAreOfCommands
  <1>11. SlotHasOneHolder'
    <2>1. work'[c].at \in HoldingStages
      BY <1>8 DEF HoldingStages
    <2>2. ~SlotBusy'
      BY <1>2, <1>4 DEF SlotBusy, Busy, Admitting
    <2>3. QED
      BY <1>2, <1>5, <1>8, <2>1, <2>2, HolderGoesOn DEF HoldingStages
  <1>12. WorksHoldServices'
    <2>1. /\ work'[c].at \in {"control", "closePrevious"}
          /\ work'[c].at = "closePrevious" => /\ work'[c].service = slot /\ slot \in Services
                                              /\ made[slot] = "ready" /\ close'[slot] # "open"
      BY <1>8 DEF ServicesClose, SlotShapes
    <2>2. \A d \in Ids \ {c} : work'[d].at \notin HoldingStages \cup {"admit"}
      BY <1>5, <1>6, <1>8
    <2>3. QED
      BY <1>2, <1>3, <1>4, <2>1, <2>2 DEF WorksHoldServices, HoldingStages
  <1>13. ServicesRun'
    BY <1>2, <1>7 DEF ServicesRun, Admitting
  <1>14. ServicesClose'
    <2>1. /\ slot' # None /\ made'[slot'] = "ready" /\ close'[slot'] = "open"
      BY <1>2, <1>3, <1>4, <1>8
    <2>2. ASSUME NEW s \in Services, made'[s] = "ready", s # slot',
                 close'[s] \notin {"done", "failed"}
          PROVE  \E d \in Ids : work'[d].at = "closePrevious" /\ work'[d].service = s
      <3>1. made[s] = "ready" /\ \A d \in Ids : work[d].at # "closePrevious"
        BY <1>2, <1>3, <1>5, <2>2 DEF HoldingStages
      <3>2. s = slot \/ close[s] \in {"done", "failed"}
        BY <3>1 DEF ServicesClose
      <3>3. s = slot
        BY <1>8, <2>2, <3>2
      <3>4. QED
        BY <1>8, <3>3
    <2>3. ASSUME NEW s \in Services
          PROVE  /\ made'[s] # "ready" =>
                      host'[s] = "none" /\ pending'[s] = "none" /\ ~turn'[s] /\ close'[s] = "open"
                 /\ host'[s] = "closed" => close'[s] # "open"
                 /\ close'[s] = "host" => host'[s] = "up"
                 /\ close'[s] \in {"data", "done", "failed"} => host'[s] \notin {"starting", "up"}
      <3>1. CASE s = slot
        BY <1>2, <1>3, <1>4, <1>7, <1>8, <3>1 DEF ServicesClose
      <3>2. CASE s # slot
        BY <1>2, <1>3, <1>4, <1>8, <3>2 DEF ServicesClose
      <3>3. QED
        BY <3>1, <3>2
    <2>4. QED
      BY <2>1, <2>2, <2>3 DEF ServicesClose
  <1>15. ClosedWhenIdle'
    <2>1. \A s \in Services : close[s] # "open" => ~turn[s] /\ close[s] # "start"
      BY <1>5 DEF ClosedWhenIdle, SlotBusy, Busy
    <2>2. slot # None => ~turn[slot]
      BY <1>5 DEF SlotBusy, Busy
    <2>3. \A s \in Services : close'[s] # "open" => ~turn[s] /\ close'[s] # "start"
      BY <1>8, <2>1, <2>2
    <2>4. QED
      BY <1>2, <1>7, <2>3 DEF ClosedWhenIdle, Admitting
  <1>16. CancelIsKept' /\ CoreClosesLast'
    <2>1. ~Settled
      BY <1>2 DEF WorksAreOfCommands, Settled
    <2>2. QED
      BY <1>2, <2>1 DEF CancelIsKept, CoreClosesLast
  <1>17. QED
    BY <1>9, <1>10, <1>11, <1>12, <1>13, <1>14, <1>15, <1>16

\* The new service is forgotten.
LEMMA WatchFailsKeepsServices ==
  ASSUME ServiceInduct, NEW c \in Ids,
         WatchFails(c)
  PROVE  ServiceInduct'
  <1> USE ServicesAssumption DEF ServiceInduct, StartVars, AdmissionVars, sessionVars, coreVars
  <1>0. /\ work' \in [Ids -> Works] /\ \A d \in Ids \ {c} : work'[d] = work[d]
        /\ work'[c].at = "none" /\ work'[c].service = None
        /\ outcome' \in [Ids -> Values] /\ \A d \in Ids \ {c} : outcome'[d] = outcome[d]
        /\ outcome'[c] # "none"
    BY WorkDone DEF WatchFails, OpenEnds, Results, SlotShapes
  <1>1. SlotShapes'
    BY <1>0 DEF CommandsUnchanged, WatchFails, OpenEnds, SlotShapes, Works, WorkStages
  <1>2. WorksAreOfCommands'
    BY <1>0 DEF CommandsUnchanged, WatchFails, OpenEnds, WorksAreOfCommands
  <1>3. SlotHasOneHolder'
    <2>1. work[c].at \in HoldingStages /\ openingSlot' = FALSE /\ UNCHANGED credential
      BY DEF WatchFails, OpenEnds, HoldingStages
    <2>2. work'[c].at \notin HoldingStages
      BY <1>0 DEF HoldingStages
    <2>3. QED
      BY <1>0, <2>1, <2>2, HolderLeaves
  <1>4. WorksHoldServices'
    <2>1. \A d \in Ids \ {c} : work[d].at \notin HoldingStages
      BY DEF WatchFails, HoldingStages, SlotHasOneHolder
    <2>2. UNCHANGED <<slot, close, pending>>
      BY DEF WatchFails
    <2>3. QED
      BY <1>0, <2>1, <2>2 DEF WorksHoldServices, HoldingStages, Admitting
  <1>5. ServicesRun'
    BY <1>0 DEF CommandsUnchanged, WatchFails, OpenEnds, ServicesRun, Admitting
  <1>6. ServicesClose'
    BY <1>0 DEF CommandsUnchanged, WatchFails, OpenEnds, ServicesClose, SlotShapes, ServicesRun,
       WorksHoldServices, ClosedWhenIdle
  <1>7. ClosedWhenIdle'
    BY <1>0 DEF CommandsUnchanged, WatchFails, OpenEnds, ClosedWhenIdle, SlotShapes, Admitting,
       ServicesRun, ServicesClose, WorksHoldServices, WorksAreOfCommands, Settled,
       SlotHasOneHolder
  <1>8. CancelIsKept'
    BY <1>0 DEF CommandsUnchanged, WatchFails, OpenEnds, CancelIsKept
  <1>9. CoreClosesLast'
    BY <1>0 DEF CommandsUnchanged, WatchFails, OpenEnds, CoreClosesLast, Settled
  <1>10. QED
    BY <1>1, <1>2, <1>3, <1>4, <1>5, <1>6, <1>7, <1>8, <1>9

\* The service that had the slot is closed.
LEMMA PreviousClosedKeepsServices ==
  ASSUME ServiceInduct, NEW c \in Ids,
         PreviousClosed(c)
  PROVE  ServiceInduct'
  <1> USE ServicesAssumption DEF ServiceInduct, StartVars, AdmissionVars, sessionVars, coreVars
  <1>1. /\ work[c].at = "closePrevious" /\ close[work[c].service] \in {"done", "failed"}
        /\ UNCHANGED <<slot, made, session, credential, coreClose, sessionVars, command, closed>>
    BY DEF PreviousClosed, CommandsUnchanged
  <1>2. /\ work' \in [Ids -> Works] /\ \A d \in Ids \ {c} : work'[d] = work[d]
        /\ outcome' \in [Ids -> Values] /\ \A d \in Ids \ {c} : outcome'[d] = outcome[d]
        /\ work'[c].service = None
        /\ \/ work'[c].at = "control" /\ UNCHANGED <<outcome, openingSlot>>
           \/ work'[c].at = "none" /\ openingSlot' = FALSE
    <2>1. CASE Goes(c, "control", None) /\ UNCHANGED <<outcome, openingSlot>>
      BY <2>1, WorkGoes DEF SlotShapes, WorkStages, HoldingStages
    <2>2. CASE OpenEnds(c, "failed")
      BY <2>2, WorkDone DEF SlotShapes, OpenEnds, Results
    <2>3. QED
      BY <2>1, <2>2 DEF PreviousClosed
  <1>3. ~SlotBusy /\ openingSlot = TRUE
    BY <1>1 DEF SlotHasOneHolder, HoldingStages
  <1>4. SlotShapes'
    BY <1>1, <1>2 DEF SlotShapes
  <1>5. WorksAreOfCommands'
    BY <1>1, <1>2 DEF WorksAreOfCommands
  <1>6. SlotHasOneHolder'
    <2>1. CASE work'[c].at = "control" /\ UNCHANGED openingSlot
      BY <1>1, <1>2, <1>3, <2>1, HolderGoesOn DEF HoldingStages
    <2>2. CASE work'[c].at = "none" /\ openingSlot' = FALSE
      BY <1>1, <1>2, <2>2, HolderLeaves DEF HoldingStages
    <2>3. QED
      BY <1>2, <2>1, <2>2
  <1>7. WorksHoldServices'
    BY <1>1, <1>2 DEF WorksHoldServices, Admitting
  <1>8. ServicesRun'
    <2>1. \A d \in Ids : work[d].at \in {"admit", "alter"} => work'[d] = work[d]
      BY <1>1, <1>2
    <2>2. QED
      BY <1>1, <2>1 DEF ServicesRun, Admitting
  <1>9. ServicesClose'
    <2>1. \A d \in Ids \ {c} : work'[d] = work[d]
      BY <1>2
    <2>2. \A s \in Services : s = work[c].service => close[s] \in {"done", "failed"}
      BY <1>1
    <2>3. QED
      BY <1>1, <2>1, <2>2 DEF ServicesClose
  <1>10. ClosedWhenIdle' /\ CancelIsKept' /\ CoreClosesLast'
    BY <1>1 DEF ClosedWhenIdle, CancelIsKept, CoreClosesLast, Admitting, Settled
  <1>11. QED
    BY <1>4, <1>5, <1>6, <1>7, <1>8, <1>9, <1>10

\* The open is over.
LEMMA ControlRefreshedKeepsServices ==
  ASSUME ServiceInduct, NEW c \in Ids, NEW ok \in BOOLEAN,
         ControlRefreshed(c, ok)
  PROVE  ServiceInduct'
  <1> USE ServicesAssumption DEF ServiceInduct, StartVars, AdmissionVars, sessionVars, coreVars
  <1>0. /\ work' \in [Ids -> Works] /\ \A d \in Ids \ {c} : work'[d] = work[d]
        /\ work'[c].at = "none" /\ work'[c].service = None
        /\ outcome' \in [Ids -> Values] /\ \A d \in Ids \ {c} : outcome'[d] = outcome[d]
        /\ outcome'[c] # "none"
    BY WorkDone DEF ControlRefreshed, OpenEnds, Results, SlotShapes
  <1>1. SlotShapes'
    BY <1>0 DEF CommandsUnchanged, ControlRefreshed, OpenEnds, SlotShapes, Works, WorkStages
  <1>2. WorksAreOfCommands'
    BY <1>0 DEF CommandsUnchanged, ControlRefreshed, OpenEnds, WorksAreOfCommands
  <1>3. SlotHasOneHolder'
    <2>1. work[c].at \in HoldingStages /\ openingSlot' = FALSE /\ UNCHANGED credential
      BY DEF ControlRefreshed, OpenEnds, HoldingStages
    <2>2. work'[c].at \notin HoldingStages
      BY <1>0 DEF HoldingStages
    <2>3. QED
      BY <1>0, <2>1, <2>2, HolderLeaves
  <1>4. WorksHoldServices'
    BY <1>0 DEF CommandsUnchanged, ControlRefreshed, OpenEnds, WorksHoldServices, SlotShapes,
       SlotHasOneHolder, HoldingStages, Admitting
  <1>5. ServicesRun'
    BY <1>0 DEF CommandsUnchanged, ControlRefreshed, OpenEnds, ServicesRun, Admitting
  <1>6. ServicesClose'
    BY <1>0 DEF CommandsUnchanged, ControlRefreshed, OpenEnds, ServicesClose, SlotShapes,
       ServicesRun, WorksHoldServices, ClosedWhenIdle
  <1>7. ClosedWhenIdle'
    BY <1>0 DEF CommandsUnchanged, ControlRefreshed, OpenEnds, ClosedWhenIdle, SlotShapes,
       Admitting, ServicesRun, ServicesClose, WorksHoldServices, WorksAreOfCommands, Settled,
       SlotHasOneHolder
  <1>8. CancelIsKept'
    BY <1>0 DEF CommandsUnchanged, ControlRefreshed, OpenEnds, CancelIsKept
  <1>9. CoreClosesLast'
    BY <1>0 DEF CommandsUnchanged, ControlRefreshed, OpenEnds, CoreClosesLast, Settled
  <1>10. QED
    BY <1>1, <1>2, <1>3, <1>4, <1>5, <1>6, <1>7, <1>8, <1>9

\* The Session is altered.
LEMMA AlteredKeepsServices ==
  ASSUME ServiceInduct, NEW c \in Ids, NEW result \in Results,
         Altered(c, result)
  PROVE  ServiceInduct'
  <1> USE ServicesAssumption DEF ServiceInduct, StartVars, AdmissionVars, sessionVars, coreVars
  <1>0. /\ work' \in [Ids -> Works] /\ \A d \in Ids \ {c} : work'[d] = work[d]
        /\ work'[c].at = "none" /\ work'[c].service = None
        /\ outcome' \in [Ids -> Values] /\ \A d \in Ids \ {c} : outcome'[d] = outcome[d]
        /\ outcome'[c] # "none"
    BY WorkDone DEF Altered, OpenEnds, SlotShapes
  <1>1. SlotShapes'
    BY <1>0 DEF CommandsUnchanged, Altered, OpenEnds, SlotShapes, Works, WorkStages
  <1>2. WorksAreOfCommands'
    BY <1>0 DEF CommandsUnchanged, Altered, OpenEnds, WorksAreOfCommands
  <1>3. SlotHasOneHolder'
    BY <1>0 DEF CommandsUnchanged, Altered, OpenEnds, SlotHasOneHolder, SlotShapes, HoldingStages,
       SlotBusy, Busy
  <1>4. WorksHoldServices'
    BY <1>0 DEF CommandsUnchanged, Altered, OpenEnds, WorksHoldServices, SlotShapes,
       SlotHasOneHolder, HoldingStages, Admitting
  <1>5. ServicesRun'
    BY <1>0 DEF CommandsUnchanged, Altered, OpenEnds, ServicesRun, Admitting
  <1>6. ServicesClose'
    BY <1>0 DEF CommandsUnchanged, Altered, OpenEnds, ServicesClose, SlotShapes, ServicesRun,
       WorksHoldServices, ClosedWhenIdle
  <1>7. ClosedWhenIdle'
    BY <1>0 DEF CommandsUnchanged, Altered, OpenEnds, ClosedWhenIdle, SlotShapes, Admitting,
       ServicesRun, ServicesClose, WorksHoldServices, WorksAreOfCommands, Settled,
       SlotHasOneHolder
  <1>8. CancelIsKept'
    BY <1>0 DEF CommandsUnchanged, Altered, OpenEnds, CancelIsKept
  <1>9. CoreClosesLast'
    BY <1>0 DEF CommandsUnchanged, Altered, OpenEnds, CoreClosesLast, Settled
  <1>10. QED
    BY <1>1, <1>2, <1>3, <1>4, <1>5, <1>6, <1>7, <1>8, <1>9

\* Its Worker did not start.
LEMMA AlterFailsKeepsServices ==
  ASSUME ServiceInduct, NEW c \in Ids,
         AlterFails(c)
  PROVE  ServiceInduct'
  <1> USE ServicesAssumption DEF ServiceInduct, StartVars, AdmissionVars, sessionVars, coreVars
  <1>0. /\ work' \in [Ids -> Works] /\ \A d \in Ids \ {c} : work'[d] = work[d]
        /\ work'[c].at = "none" /\ work'[c].service = None
        /\ outcome' \in [Ids -> Values] /\ \A d \in Ids \ {c} : outcome'[d] = outcome[d]
        /\ outcome'[c] # "none"
    BY WorkDone DEF AlterFails, OpenEnds, Results, SlotShapes
  <1>1. SlotShapes'
    BY <1>0 DEF CommandsUnchanged, AlterFails, OpenEnds, SlotShapes, Works, WorkStages
  <1>2. WorksAreOfCommands'
    BY <1>0 DEF CommandsUnchanged, AlterFails, OpenEnds, WorksAreOfCommands
  <1>3. SlotHasOneHolder'
    BY <1>0 DEF CommandsUnchanged, AlterFails, OpenEnds, SlotHasOneHolder, SlotShapes,
       HoldingStages, SlotBusy, Busy
  <1>4. WorksHoldServices'
    BY <1>0 DEF CommandsUnchanged, AlterFails, OpenEnds, WorksHoldServices, SlotShapes,
       SlotHasOneHolder, HoldingStages, Admitting
  <1>5. ServicesRun'
    BY <1>0 DEF CommandsUnchanged, AlterFails, OpenEnds, ServicesRun, Admitting
  <1>6. ServicesClose'
    BY <1>0 DEF CommandsUnchanged, AlterFails, OpenEnds, ServicesClose, SlotShapes, ServicesRun,
       WorksHoldServices, ClosedWhenIdle
  <1>7. ClosedWhenIdle'
    BY <1>0 DEF CommandsUnchanged, AlterFails, OpenEnds, ClosedWhenIdle, SlotShapes, Admitting,
       ServicesRun, ServicesClose, WorksHoldServices, WorksAreOfCommands, Settled,
       SlotHasOneHolder
  <1>8. CancelIsKept'
    BY <1>0 DEF CommandsUnchanged, AlterFails, OpenEnds, CancelIsKept
  <1>9. CoreClosesLast'
    BY <1>0 DEF CommandsUnchanged, AlterFails, OpenEnds, CoreClosesLast, Settled
  <1>10. QED
    BY <1>1, <1>2, <1>3, <1>4, <1>5, <1>6, <1>7, <1>8, <1>9

\* The configuration of a Worker is known.
LEMMA StartupPreparedKeepsServices ==
  ASSUME ServiceInduct, NEW s \in Services, NEW failed,
         StartupPrepared(s), Serves(s, failed)
  PROVE  ServiceInduct'
  <1> USE ServicesAssumption DEF ServiceInduct, StartVars, AdmissionVars, sessionVars, coreVars
  <1>0. /\ UNCHANGED <<command, closed, slot, openingSlot, made, session, credential, coreClose>>
        /\ work' \in [Ids -> Works] /\ outcome' \in [Ids -> Values]
        /\ \A c \in Ids :
             \/ work'[c] = work[c] /\ outcome'[c] = outcome[c]
                /\ (work[c].at = "admit" /\ work[c].service = s =>
                      pending'[s] \notin {"accepted", "rejected"})
             \/ /\ work[c].at = "admit" /\ work[c].service = s
                /\ pending'[s] \in {"accepted", "rejected"}
                /\ work'[c].at = "none" /\ work'[c].service = None /\ outcome'[c] # "none"
    BY ServesSteps DEF SlotShapes
  <1>1. SlotShapes'
    BY <1>0 DEF StartupPrepared, SlotShapes, Works, WorkStages
  <1>2. WorksAreOfCommands'
    BY <1>0 DEF StartupPrepared, WorksAreOfCommands
  <1>3. SlotHasOneHolder'
    BY <1>0 DEF StartupPrepared, SlotHasOneHolder, SlotShapes, HoldingStages, SlotBusy, Busy,
       Admitting
  <1>4. WorksHoldServices'
    BY <1>0 DEF StartupPrepared, WorksHoldServices, SlotShapes, SlotHasOneHolder, HoldingStages,
       Admitting
  <1>5. ServicesRun'
    BY <1>0 DEF StartupPrepared, ServicesRun, Admitting
  <1>6. ServicesClose'
    BY <1>0 DEF StartupPrepared, ServicesClose, SlotShapes, ServicesRun, WorksHoldServices,
       ClosedWhenIdle
  <1>7. ClosedWhenIdle'
    BY <1>0 DEF StartupPrepared, ClosedWhenIdle, SlotShapes, Admitting, ServicesRun,
       ServicesClose, WorksHoldServices, WorksAreOfCommands, Settled, SlotHasOneHolder
  <1>8. CancelIsKept'
    BY <1>0 DEF StartupPrepared, CancelIsKept
  <1>9. CoreClosesLast'
    BY <1>0 DEF StartupPrepared, CoreClosesLast, Settled
  <1>10. QED
    BY <1>1, <1>2, <1>3, <1>4, <1>5, <1>6, <1>7, <1>8, <1>9

\* A turn ends.
LEMMA TurnEndsKeepsServices ==
  ASSUME ServiceInduct, NEW s \in Services, NEW failed,
         TurnEnds(s), Serves(s, failed)
  PROVE  ServiceInduct'
  <1> USE ServicesAssumption DEF ServiceInduct, StartVars, AdmissionVars, sessionVars, coreVars
  <1>0. /\ UNCHANGED <<command, closed, slot, openingSlot, made, session, credential, coreClose>>
        /\ work' \in [Ids -> Works] /\ outcome' \in [Ids -> Values]
        /\ \A c \in Ids :
             \/ work'[c] = work[c] /\ outcome'[c] = outcome[c]
                /\ (work[c].at = "admit" /\ work[c].service = s =>
                      pending'[s] \notin {"accepted", "rejected"})
             \/ /\ work[c].at = "admit" /\ work[c].service = s
                /\ pending'[s] \in {"accepted", "rejected"}
                /\ work'[c].at = "none" /\ work'[c].service = None /\ outcome'[c] # "none"
    BY ServesSteps DEF SlotShapes
  <1>1. SlotShapes'
    BY <1>0 DEF TurnEnds, SlotShapes, Works, WorkStages
  <1>2. WorksAreOfCommands'
    BY <1>0 DEF TurnEnds, WorksAreOfCommands
  <1>3. SlotHasOneHolder'
    BY <1>0 DEF TurnEnds, SlotHasOneHolder, SlotShapes, HoldingStages, SlotBusy, Busy, Admitting
  <1>4. WorksHoldServices'
    <2>1. pending[s] = "accepted" /\ pending'[s] = "none"
      BY DEF TurnEnds, ServicesRun, SlotShapes
    <2>2. /\ UNCHANGED close /\ \A r \in Services \ {s} : pending'[r] = pending[r]
      BY DEF TurnEnds
    <2>3. \A d \in Ids : work'[d] = work[d] /\ (work[d].at = "admit" => work[d].service # s)
      BY <1>0, <2>1 DEF WorksHoldServices, Admitting
    <2>4. QED
      BY <1>0, <2>2, <2>3 DEF WorksHoldServices, Admitting, SlotShapes
  <1>5. ServicesRun'
    BY <1>0 DEF TurnEnds, ServicesRun, SlotShapes, Admitting
  <1>6. ServicesClose'
    BY <1>0 DEF TurnEnds, ServicesClose, SlotShapes, ServicesRun, WorksHoldServices,
       ClosedWhenIdle
  <1>7. ClosedWhenIdle'
    BY <1>0 DEF TurnEnds, ClosedWhenIdle, SlotShapes, Admitting, ServicesRun, ServicesClose,
       WorksHoldServices, WorksAreOfCommands, Settled, SlotHasOneHolder
  <1>8. CancelIsKept'
    BY <1>0 DEF TurnEnds, CancelIsKept, SlotShapes
  <1>9. CoreClosesLast'
    BY <1>0 DEF TurnEnds, CoreClosesLast, Settled
  <1>10. QED
    BY <1>1, <1>2, <1>3, <1>4, <1>5, <1>6, <1>7, <1>8, <1>9

\* A Worker is ready.
LEMMA StartSucceedsKeepsServices ==
  ASSUME ServiceInduct, NEW s \in Services, NEW failed,
         StartSucceeds(s), Serves(s, failed)
  PROVE  ServiceInduct'
  <1> USE ServicesAssumption DEF ServiceInduct, StartVars, AdmissionVars, sessionVars, coreVars
  <1>0. /\ UNCHANGED <<command, closed, slot, openingSlot, made, session, credential, coreClose>>
        /\ work' \in [Ids -> Works] /\ outcome' \in [Ids -> Values]
        /\ \A c \in Ids :
             \/ work'[c] = work[c] /\ outcome'[c] = outcome[c]
                /\ (work[c].at = "admit" /\ work[c].service = s =>
                      pending'[s] \notin {"accepted", "rejected"})
             \/ /\ work[c].at = "admit" /\ work[c].service = s
                /\ pending'[s] \in {"accepted", "rejected"}
                /\ work'[c].at = "none" /\ work'[c].service = None /\ outcome'[c] # "none"
    BY ServesSteps DEF SlotShapes
  <1>1. SlotShapes'
    BY <1>0 DEF StartSucceeds, SlotShapes, Works, WorkStages
  <1>2. WorksAreOfCommands'
    BY <1>0 DEF StartSucceeds, WorksAreOfCommands
  <1>3. SlotHasOneHolder'
    <2>1. /\ \A d \in Ids : work'[d].at \in HoldingStages <=> work[d].at \in HoldingStages
          /\ \A d \in Ids : work'[d].at = "control" <=> work[d].at = "control"
      BY <1>0 DEF HoldingStages
    <2>2. SlotBusy' => SlotBusy
      BY <1>0 DEF StartSucceeds, SlotBusy, Busy, Admitting, SlotShapes
    <2>3. QED
      BY <1>0, <2>1, <2>2, HolderStays
  <1>4. WorksHoldServices'
    BY <1>0 DEF StartSucceeds, WorksHoldServices, SlotShapes, SlotHasOneHolder, HoldingStages,
       Admitting
  <1>5. ServicesRun'
    BY <1>0 DEF StartSucceeds, ServicesRun, SlotShapes, Admitting
  <1>6. ServicesClose'
    BY <1>0 DEF StartSucceeds, ServicesClose, SlotShapes, ServicesRun, WorksHoldServices,
       ClosedWhenIdle
  <1>7. ClosedWhenIdle'
    BY <1>0 DEF StartSucceeds, ClosedWhenIdle, SlotShapes, Admitting, ServicesRun, ServicesClose,
       WorksHoldServices, WorksAreOfCommands, Settled, SlotHasOneHolder
  <1>8. CancelIsKept'
    BY <1>0 DEF StartSucceeds, CancelIsKept, SlotShapes
  <1>9. CoreClosesLast'
    BY <1>0 DEF StartSucceeds, CoreClosesLast, Settled
  <1>10. QED
    BY <1>1, <1>2, <1>3, <1>4, <1>5, <1>6, <1>7, <1>8, <1>9

\* A Worker did not start, or its start was aborted.
LEMMA StartFailsKeepsServices ==
  ASSUME ServiceInduct, NEW s \in Services, NEW failed,
         StartFails(s), Serves(s, failed)
  PROVE  ServiceInduct'
  <1> USE ServicesAssumption DEF ServiceInduct, StartVars, AdmissionVars, sessionVars, coreVars
  <1>0. /\ UNCHANGED <<command, closed, slot, openingSlot, made, session, credential, coreClose>>
        /\ work' \in [Ids -> Works] /\ outcome' \in [Ids -> Values]
        /\ \A c \in Ids :
             \/ work'[c] = work[c] /\ outcome'[c] = outcome[c]
                /\ (work[c].at = "admit" /\ work[c].service = s =>
                      pending'[s] \notin {"accepted", "rejected"})
             \/ /\ work[c].at = "admit" /\ work[c].service = s
                /\ pending'[s] \in {"accepted", "rejected"}
                /\ work'[c].at = "none" /\ work'[c].service = None /\ outcome'[c] # "none"
    BY ServesSteps DEF SlotShapes
  <1>1. SlotShapes'
    <2>1. /\ pending' \in [Services -> {"none", "start", "record", "seal", "host", "accepted",
                                        "rejected"}]
          /\ watchdog' \in [Services -> BOOLEAN] /\ cancelled' \in [Services -> BOOLEAN]
      BY DEF StartFails, AdmissionEnds, SlotShapes
    <2>2. /\ host' \in [Services -> {"none", "starting", "failed", "up", "closed"}]
          /\ close' \in [Services -> {"open", "start", "host", "data", "done", "failed"}]
      BY DEF StartFails, SlotShapes
    <2>3. /\ prepared' \in [Services -> BOOLEAN] /\ aborted' \in [Services -> BOOLEAN]
          /\ told' \in [Services -> BOOLEAN] /\ turn' \in [Services -> BOOLEAN]
      BY DEF StartFails, SlotShapes
    <2>4. QED
      BY <1>0, <2>1, <2>2, <2>3 DEF SlotShapes
  <1>2. WorksAreOfCommands'
    BY <1>0 DEF StartFails, AdmissionEnds, WorksAreOfCommands
  <1>3. SlotHasOneHolder'
    <2>1. /\ \A d \in Ids : work'[d].at \in HoldingStages <=> work[d].at \in HoldingStages
          /\ \A d \in Ids : work'[d].at = "control" <=> work[d].at = "control"
      BY <1>0 DEF HoldingStages
    <2>2. SlotBusy' => SlotBusy
      BY <1>0 DEF StartFails, AdmissionEnds, SlotBusy, Busy, Admitting, SlotShapes
    <2>3. QED
      BY <1>0, <2>1, <2>2, HolderStays
  <1>4. WorksHoldServices'
    BY <1>0 DEF StartFails, AdmissionEnds, WorksHoldServices, SlotShapes, SlotHasOneHolder,
       HoldingStages, Admitting
  <1>5. ServicesRun'
    BY <1>0 DEF StartFails, AdmissionEnds, ServicesRun, SlotShapes, Admitting
  <1>6. ServicesClose'
    <2>1. \A d \in Ids : work[d].at = "closePrevious" => work'[d] = work[d]
      BY <1>0
    <2>2. /\ host[s] = "starting" /\ host'[s] \in {"none", "failed"}
          /\ \A r \in Services \ {s} : host'[r] = host[r] /\ pending'[r] = pending[r]
          /\ UNCHANGED turn /\ \A r \in Services : close[r] # "start" => close'[r] = close[r]
      BY DEF StartFails, AdmissionEnds, SlotShapes
    <2>3. made[s] = "ready" /\ \A r \in Services : close'[r] = close[r]
      BY <2>2 DEF ServicesClose, ClosedWhenIdle
    <2>4. close[s] # "host"
      BY <2>2 DEF ServicesClose
    <2>5. slot' # None => /\ made'[slot'] = "ready"
                          /\ close'[slot'] = "open" \/ coreClose' \in {"service", "data", "done"}
      BY <1>0, <2>3 DEF ServicesClose, SlotShapes
    <2>6. ASSUME NEW r \in Services, made'[r] = "ready", r # slot',
                 close'[r] \notin {"done", "failed"}
          PROVE  \E d \in Ids : work'[d].at = "closePrevious" /\ work'[d].service = r
      BY <1>0, <2>1, <2>3, <2>6 DEF ServicesClose
    <2>7. \A r \in Services :
            /\ made'[r] # "ready" =>
                 host'[r] = "none" /\ pending'[r] = "none" /\ ~turn'[r] /\ close'[r] = "open"
            /\ host'[r] = "closed" => close'[r] # "open"
            /\ close'[r] = "host" => host'[r] = "up"
            /\ close'[r] \in {"data", "done", "failed"} => host'[r] \notin {"starting", "up"}
      BY <1>0, <2>2, <2>3, <2>4 DEF ServicesClose
    <2>8. QED
      BY <2>5, <2>6, <2>7 DEF ServicesClose
  <1>7. ClosedWhenIdle'
    BY <1>0 DEF StartFails, AdmissionEnds, ClosedWhenIdle, SlotShapes, Admitting, ServicesRun,
       ServicesClose, WorksHoldServices, WorksAreOfCommands, Settled, SlotHasOneHolder
  <1>8. CancelIsKept'
    BY <1>0 DEF StartFails, AdmissionEnds, CancelIsKept, SlotShapes
  <1>9. CoreClosesLast'
    BY <1>0 DEF StartFails, AdmissionEnds, CoreClosesLast, Settled
  <1>10. QED
    BY <1>1, <1>2, <1>3, <1>4, <1>5, <1>6, <1>7, <1>8, <1>9

\* The grace of a cancelled admission ends.
LEMMA WatchdogFiresKeepsServices ==
  ASSUME ServiceInduct, NEW s \in Services, NEW failed,
         WatchdogFires(s), Serves(s, failed)
  PROVE  ServiceInduct'
  <1> USE ServicesAssumption DEF ServiceInduct, StartVars, AdmissionVars, sessionVars, coreVars
  <1>0. /\ UNCHANGED <<command, closed, slot, openingSlot, made, session, credential, coreClose>>
        /\ work' \in [Ids -> Works] /\ outcome' \in [Ids -> Values]
        /\ \A c \in Ids :
             \/ work'[c] = work[c] /\ outcome'[c] = outcome[c]
                /\ (work[c].at = "admit" /\ work[c].service = s =>
                      pending'[s] \notin {"accepted", "rejected"})
             \/ /\ work[c].at = "admit" /\ work[c].service = s
                /\ pending'[s] \in {"accepted", "rejected"}
                /\ work'[c].at = "none" /\ work'[c].service = None /\ outcome'[c] # "none"
    BY ServesSteps DEF SlotShapes
  <1>1. SlotShapes'
    BY <1>0 DEF WatchdogFires, SlotShapes, Works, WorkStages
  <1>2. WorksAreOfCommands'
    BY <1>0 DEF WatchdogFires, WorksAreOfCommands
  <1>3. SlotHasOneHolder'
    BY <1>0 DEF WatchdogFires, SlotHasOneHolder, SlotShapes, HoldingStages, SlotBusy, Busy,
       Admitting
  <1>4. WorksHoldServices'
    BY <1>0 DEF WatchdogFires, WorksHoldServices, SlotShapes, SlotHasOneHolder, HoldingStages,
       Admitting
  <1>5. ServicesRun'
    BY <1>0 DEF WatchdogFires, ServicesRun, Admitting
  <1>6. ServicesClose'
    BY <1>0 DEF WatchdogFires, ServicesClose, SlotShapes, ServicesRun, WorksHoldServices,
       ClosedWhenIdle
  <1>7. ClosedWhenIdle'
    BY <1>0 DEF WatchdogFires, ClosedWhenIdle, SlotShapes, Admitting, ServicesRun, ServicesClose,
       WorksHoldServices, WorksAreOfCommands, Settled, SlotHasOneHolder
  <1>8. CancelIsKept'
    BY <1>0 DEF WatchdogFires, CancelIsKept
  <1>9. CoreClosesLast'
    BY <1>0 DEF WatchdogFires, CoreClosesLast, Settled
  <1>10. QED
    BY <1>1, <1>2, <1>3, <1>4, <1>5, <1>6, <1>7, <1>8, <1>9

\* A cancelled start is recorded.
LEMMA RecordedKeepsServices ==
  ASSUME ServiceInduct, NEW s \in Services, NEW failed, NEW ok \in BOOLEAN,
         Recorded(s, ok), Serves(s, failed)
  PROVE  ServiceInduct'
  <1> USE ServicesAssumption DEF ServiceInduct, StartVars, AdmissionVars, sessionVars, coreVars
  <1>0. /\ UNCHANGED <<command, closed, slot, openingSlot, made, session, credential, coreClose>>
        /\ work' \in [Ids -> Works] /\ outcome' \in [Ids -> Values]
        /\ \A c \in Ids :
             \/ work'[c] = work[c] /\ outcome'[c] = outcome[c]
                /\ (work[c].at = "admit" /\ work[c].service = s =>
                      pending'[s] \notin {"accepted", "rejected"})
             \/ /\ work[c].at = "admit" /\ work[c].service = s
                /\ pending'[s] \in {"accepted", "rejected"}
                /\ work'[c].at = "none" /\ work'[c].service = None /\ outcome'[c] # "none"
    BY ServesSteps DEF SlotShapes
  <1>1. SlotShapes'
    <2>1. \E v \in {"seal", "accepted", "rejected"} : pending' = [pending EXCEPT ![s] = v]
      BY DEF Recorded, AdmissionEnds
    <2>2. /\ UNCHANGED watchdog \/ watchdog' = [watchdog EXCEPT ![s] = FALSE]
          /\ UNCHANGED cancelled \/ cancelled' = [cancelled EXCEPT ![s] = FALSE]
      BY DEF Recorded, AdmissionEnds
    <2>3. pending' \in [Services -> {"none", "start", "record", "seal", "host", "accepted",
                                     "rejected"}]
      BY <2>1 DEF SlotShapes
    <2>4. /\ watchdog' \in [Services -> BOOLEAN] /\ cancelled' \in [Services -> BOOLEAN]
      <3>1. /\ [watchdog EXCEPT ![s] = FALSE] \in [Services -> BOOLEAN]
            /\ [cancelled EXCEPT ![s] = FALSE] \in [Services -> BOOLEAN]
        BY DEF SlotShapes
      <3>2. QED
        BY <2>2, <3>1 DEF SlotShapes
    <2>5. UNCHANGED <<StartVars, told, turn, close>>
      BY DEF Recorded
    <2>6. QED
      BY <1>0, <2>3, <2>4, <2>5 DEF SlotShapes
  <1>2. WorksAreOfCommands'
    BY <1>0 DEF Recorded, AdmissionEnds, WorksAreOfCommands
  <1>3. SlotHasOneHolder'
    <2>1. /\ \A d \in Ids : work'[d].at \in HoldingStages <=> work[d].at \in HoldingStages
          /\ \A d \in Ids : work'[d].at = "control" <=> work[d].at = "control"
      BY <1>0 DEF HoldingStages
    <2>2. SlotBusy' => SlotBusy
      BY <1>0 DEF Recorded, AdmissionEnds, SlotBusy, Busy, Admitting, SlotShapes
    <2>3. QED
      BY <1>0, <2>1, <2>2, HolderStays
  <1>4. WorksHoldServices'
    BY <1>0 DEF Recorded, AdmissionEnds, WorksHoldServices, SlotShapes, SlotHasOneHolder,
       HoldingStages, Admitting
  <1>5. ServicesRun'
    BY <1>0 DEF Recorded, AdmissionEnds, ServicesRun, SlotShapes, Admitting
  <1>6. ServicesClose'
    BY <1>0 DEF Recorded, AdmissionEnds, ServicesClose, SlotShapes, ServicesRun,
       WorksHoldServices, ClosedWhenIdle
  <1>7. ClosedWhenIdle'
    BY <1>0 DEF Recorded, AdmissionEnds, ClosedWhenIdle, SlotShapes, Admitting, ServicesRun,
       ServicesClose, WorksHoldServices, WorksAreOfCommands, Settled, SlotHasOneHolder
  <1>8. CancelIsKept'
    BY <1>0 DEF Recorded, AdmissionEnds, CancelIsKept, SlotShapes
  <1>9. CoreClosesLast'
    BY <1>0 DEF Recorded, AdmissionEnds, CoreClosesLast, Settled
  <1>10. QED
    BY <1>1, <1>2, <1>3, <1>4, <1>5, <1>6, <1>7, <1>8, <1>9

\* The coordinator answers an admission.
LEMMA HostAdmitsKeepsServices ==
  ASSUME ServiceInduct, NEW s \in Services, NEW failed, NEW ok \in BOOLEAN,
         HostAdmits(s, ok), Serves(s, failed)
  PROVE  ServiceInduct'
  <1> USE ServicesAssumption DEF ServiceInduct, StartVars, AdmissionVars, sessionVars, coreVars
  <1>0. /\ UNCHANGED <<command, closed, slot, openingSlot, made, session, credential, coreClose>>
        /\ work' \in [Ids -> Works] /\ outcome' \in [Ids -> Values]
        /\ \A c \in Ids :
             \/ work'[c] = work[c] /\ outcome'[c] = outcome[c]
                /\ (work[c].at = "admit" /\ work[c].service = s =>
                      pending'[s] \notin {"accepted", "rejected"})
             \/ /\ work[c].at = "admit" /\ work[c].service = s
                /\ pending'[s] \in {"accepted", "rejected"}
                /\ work'[c].at = "none" /\ work'[c].service = None /\ outcome'[c] # "none"
    BY ServesSteps DEF SlotShapes
  <1>1. SlotShapes'
    <2>1. /\ pending' \in [Services -> {"none", "start", "record", "seal", "host", "accepted",
                                        "rejected"}]
          /\ watchdog' \in [Services -> BOOLEAN] /\ cancelled' \in [Services -> BOOLEAN]
      BY DEF HostAdmits, AdmissionEnds, SlotShapes
    <2>2. /\ host' \in [Services -> {"none", "starting", "failed", "up", "closed"}]
          /\ close' \in [Services -> {"open", "start", "host", "data", "done", "failed"}]
      BY DEF HostAdmits, SlotShapes
    <2>3. /\ prepared' \in [Services -> BOOLEAN] /\ aborted' \in [Services -> BOOLEAN]
          /\ told' \in [Services -> BOOLEAN] /\ turn' \in [Services -> BOOLEAN]
      BY DEF HostAdmits, SlotShapes
    <2>4. QED
      BY <1>0, <2>1, <2>2, <2>3 DEF SlotShapes
  <1>2. WorksAreOfCommands'
    BY <1>0 DEF HostAdmits, AdmissionEnds, WorksAreOfCommands
  <1>3. SlotHasOneHolder'
    <2>1. /\ \A d \in Ids : work'[d].at \in HoldingStages <=> work[d].at \in HoldingStages
          /\ \A d \in Ids : work'[d].at = "control" <=> work[d].at = "control"
      BY <1>0 DEF HoldingStages
    <2>2. SlotBusy' => SlotBusy
      BY <1>0 DEF HostAdmits, AdmissionEnds, SlotBusy, Busy, Admitting, SlotShapes
    <2>3. QED
      BY <1>0, <2>1, <2>2, HolderStays
  <1>4. WorksHoldServices'
    BY <1>0 DEF HostAdmits, AdmissionEnds, WorksHoldServices, SlotShapes, SlotHasOneHolder,
       HoldingStages, Admitting
  <1>5. ServicesRun'
    BY <1>0 DEF HostAdmits, AdmissionEnds, ServicesRun, SlotShapes, Admitting
  <1>6. ServicesClose'
    BY <1>0 DEF HostAdmits, AdmissionEnds, ServicesClose, SlotShapes, ServicesRun,
       WorksHoldServices, ClosedWhenIdle
  <1>7. ClosedWhenIdle'
    BY <1>0 DEF HostAdmits, AdmissionEnds, ClosedWhenIdle, SlotShapes, Admitting, ServicesRun,
       ServicesClose, WorksHoldServices, WorksAreOfCommands, Settled, SlotHasOneHolder
  <1>8. CancelIsKept'
    BY <1>0 DEF HostAdmits, AdmissionEnds, CancelIsKept, SlotShapes
  <1>9. CoreClosesLast'
    BY <1>0 DEF HostAdmits, AdmissionEnds, CoreClosesLast, Settled
  <1>10. QED
    BY <1>1, <1>2, <1>3, <1>4, <1>5, <1>6, <1>7, <1>8, <1>9

\* The coordinator is closed.
LEMMA HostClosesKeepsServices ==
  ASSUME ServiceInduct, NEW s \in Services, NEW failed,
         HostCloses(s), Serves(s, failed)
  PROVE  ServiceInduct'
  <1> USE ServicesAssumption DEF ServiceInduct, StartVars, AdmissionVars, sessionVars, coreVars
  <1>0. /\ UNCHANGED <<command, closed, slot, openingSlot, made, session, credential, coreClose>>
        /\ work' \in [Ids -> Works] /\ outcome' \in [Ids -> Values]
        /\ \A c \in Ids :
             \/ work'[c] = work[c] /\ outcome'[c] = outcome[c]
                /\ (work[c].at = "admit" /\ work[c].service = s =>
                      pending'[s] \notin {"accepted", "rejected"})
             \/ /\ work[c].at = "admit" /\ work[c].service = s
                /\ pending'[s] \in {"accepted", "rejected"}
                /\ work'[c].at = "none" /\ work'[c].service = None /\ outcome'[c] # "none"
    BY ServesSteps DEF SlotShapes
  <1>1. SlotShapes'
    BY <1>0 DEF HostCloses, SlotShapes, Works, WorkStages
  <1>2. WorksAreOfCommands'
    BY <1>0 DEF HostCloses, WorksAreOfCommands
  <1>3. SlotHasOneHolder'
    <2>1. /\ \A d \in Ids : work'[d].at \in HoldingStages <=> work[d].at \in HoldingStages
          /\ \A d \in Ids : work'[d].at = "control" <=> work[d].at = "control"
      BY <1>0 DEF HoldingStages
    <2>2. SlotBusy' => SlotBusy
      BY <1>0 DEF HostCloses, SlotBusy, Busy, Admitting
    <2>3. QED
      BY <1>0, <2>1, <2>2, HolderStays
  <1>4. WorksHoldServices'
    BY <1>0 DEF HostCloses, WorksHoldServices, SlotShapes, SlotHasOneHolder, HoldingStages,
       Admitting
  <1>5. ServicesRun'
    <2>1. ~Admitting(s)
      BY DEF HostCloses, ClosedWhenIdle
    <2>2. /\ host'[s] = "closed" /\ ~turn'[s] /\ UNCHANGED pending
          /\ \A r \in Services \ {s} : host'[r] = host[r] /\ turn'[r] = turn[r]
      BY DEF HostCloses, SlotShapes
    <2>3. \A d \in Ids : work[d].at = "alter" => work'[d] = work[d]
      BY <1>0
    <2>4. \A d \in Ids : work[d].at = "admit" /\ work[d].service # s => work'[d] = work[d]
      BY <1>0
    <2>5. QED
      BY <2>1, <2>2, <2>3, <2>4 DEF ServicesRun, Admitting
  <1>6. ServicesClose'
    BY <1>0 DEF HostCloses, ServicesClose, SlotShapes, ServicesRun, WorksHoldServices,
       ClosedWhenIdle
  <1>7. ClosedWhenIdle'
    BY <1>0 DEF HostCloses, ClosedWhenIdle, SlotShapes, Admitting, ServicesRun, ServicesClose,
       WorksHoldServices, WorksAreOfCommands, Settled, SlotHasOneHolder
  <1>8. CancelIsKept'
    BY <1>0 DEF HostCloses, CancelIsKept
  <1>9. CoreClosesLast'
    BY <1>0 DEF HostCloses, CoreClosesLast, Settled
  <1>10. QED
    BY <1>1, <1>2, <1>3, <1>4, <1>5, <1>6, <1>7, <1>8, <1>9

\* The close of a service ends.
LEMMA ClosedKeepsServices ==
  ASSUME ServiceInduct, NEW s \in Services, NEW failed, NEW ok \in BOOLEAN,
         Closed(s, ok), Serves(s, failed)
  PROVE  ServiceInduct'
  <1> USE ServicesAssumption DEF ServiceInduct, StartVars, AdmissionVars, sessionVars, coreVars
  <1>0. /\ UNCHANGED <<command, closed, slot, openingSlot, made, session, credential, coreClose>>
        /\ work' \in [Ids -> Works] /\ outcome' \in [Ids -> Values]
        /\ \A c \in Ids :
             \/ work'[c] = work[c] /\ outcome'[c] = outcome[c]
                /\ (work[c].at = "admit" /\ work[c].service = s =>
                      pending'[s] \notin {"accepted", "rejected"})
             \/ /\ work[c].at = "admit" /\ work[c].service = s
                /\ pending'[s] \in {"accepted", "rejected"}
                /\ work'[c].at = "none" /\ work'[c].service = None /\ outcome'[c] # "none"
    BY ServesSteps DEF SlotShapes
  <1>1. SlotShapes'
    BY <1>0 DEF Closed, SlotShapes, Works, WorkStages
  <1>2. WorksAreOfCommands'
    BY <1>0 DEF Closed, WorksAreOfCommands
  <1>3. SlotHasOneHolder'
    BY <1>0 DEF Closed, SlotHasOneHolder, SlotShapes, HoldingStages, SlotBusy, Busy, Admitting
  <1>4. WorksHoldServices'
    BY <1>0 DEF Closed, WorksHoldServices, SlotShapes, SlotHasOneHolder, HoldingStages, Admitting
  <1>5. ServicesRun'
    BY <1>0 DEF Closed, ServicesRun, Admitting
  <1>6. ServicesClose'
    BY <1>0 DEF Closed, ServicesClose, SlotShapes, ServicesRun, WorksHoldServices, ClosedWhenIdle
  <1>7. ClosedWhenIdle'
    BY <1>0 DEF Closed, ClosedWhenIdle, SlotShapes, Admitting, ServicesRun, ServicesClose,
       WorksHoldServices, WorksAreOfCommands, Settled, SlotHasOneHolder
  <1>8. CancelIsKept'
    BY <1>0 DEF Closed, CancelIsKept
  <1>9. CoreClosesLast'
    BY <1>0 DEF Closed, CoreClosesLast, Settled
  <1>10. QED
    BY <1>1, <1>2, <1>3, <1>4, <1>5, <1>6, <1>7, <1>8, <1>9

\* The active task is cancelled.
LEMMA CancelActiveTurnKeepsServices ==
  ASSUME ServiceInduct, NEW s \in Services, NEW failed,
         CancelActiveTurn(s), Serves(s, failed)
  PROVE  ServiceInduct'
  <1> USE ServicesAssumption DEF ServiceInduct, StartVars, AdmissionVars, sessionVars, coreVars
  <1>0. /\ UNCHANGED <<command, closed, slot, openingSlot, made, session, credential, coreClose>>
        /\ work' \in [Ids -> Works] /\ outcome' \in [Ids -> Values]
        /\ \A c \in Ids :
             \/ work'[c] = work[c] /\ outcome'[c] = outcome[c]
                /\ (work[c].at = "admit" /\ work[c].service = s =>
                      pending'[s] \notin {"accepted", "rejected"})
             \/ /\ work[c].at = "admit" /\ work[c].service = s
                /\ pending'[s] \in {"accepted", "rejected"}
                /\ work'[c].at = "none" /\ work'[c].service = None /\ outcome'[c] # "none"
    BY ServesSteps DEF SlotShapes
  <1>1. SlotShapes'
    BY <1>0 DEF CancelActiveTurn, SlotShapes, Works, WorkStages
  <1>2. WorksAreOfCommands'
    BY <1>0 DEF CancelActiveTurn, WorksAreOfCommands
  <1>3. SlotHasOneHolder'
    BY <1>0 DEF CancelActiveTurn, SlotHasOneHolder, SlotShapes, HoldingStages, SlotBusy, Busy,
       Admitting
  <1>4. WorksHoldServices'
    BY <1>0 DEF CancelActiveTurn, WorksHoldServices, SlotShapes, SlotHasOneHolder, HoldingStages,
       Admitting
  <1>5. ServicesRun'
    BY <1>0 DEF CancelActiveTurn, ServicesRun, Admitting
  <1>6. ServicesClose'
    BY <1>0 DEF CancelActiveTurn, ServicesClose, SlotShapes, ServicesRun, WorksHoldServices,
       ClosedWhenIdle
  <1>7. ClosedWhenIdle'
    BY <1>0 DEF CancelActiveTurn, ClosedWhenIdle, SlotShapes, Admitting, ServicesRun,
       ServicesClose, WorksHoldServices, WorksAreOfCommands, Settled, SlotHasOneHolder
  <1>8. CancelIsKept'
    BY CancelSteps DEF CancelIsKept, ServicesRun
  <1>9. CoreClosesLast'
    BY <1>0 DEF CancelActiveTurn, CoreClosesLast, Settled
  <1>10. QED
    BY <1>1, <1>2, <1>3, <1>4, <1>5, <1>6, <1>7, <1>8, <1>9

\* The slot is reserved for a credential.
LEMMA CredentialRegisterKeepsServices ==
  ASSUME ServiceInduct,
         CredentialRegister
  PROVE  ServiceInduct'
  <1> USE ServicesAssumption DEF ServiceInduct, StartVars, AdmissionVars, sessionVars, coreVars
  <1>1. SlotShapes'
    BY DEF CommandsUnchanged, CredentialRegister, SlotShapes, Works, WorkStages
  <1>2. WorksAreOfCommands'
    BY DEF CommandsUnchanged, CredentialRegister, WorksAreOfCommands
  <1>3. SlotHasOneHolder'
    BY DEF CommandsUnchanged, CredentialRegister, SlotHasOneHolder, SlotShapes, HoldingStages,
       SlotBusy, Busy, Admitting
  <1>4. WorksHoldServices'
    BY DEF CommandsUnchanged, CredentialRegister, WorksHoldServices, SlotShapes, SlotHasOneHolder,
       HoldingStages, Admitting
  <1>5. ServicesRun'
    BY DEF CommandsUnchanged, CredentialRegister, ServicesRun, Admitting
  <1>6. ServicesClose'
    BY DEF CommandsUnchanged, CredentialRegister, ServicesClose, SlotShapes, ServicesRun,
       WorksHoldServices, ClosedWhenIdle
  <1>7. ClosedWhenIdle'
    BY DEF CommandsUnchanged, CredentialRegister, ClosedWhenIdle, SlotShapes, Admitting,
       ServicesRun, ServicesClose, WorksHoldServices, WorksAreOfCommands, Settled,
       SlotHasOneHolder
  <1>8. CancelIsKept'
    BY DEF CommandsUnchanged, CredentialRegister, CancelIsKept
  <1>9. CoreClosesLast'
    BY DEF CommandsUnchanged, CredentialRegister, CoreClosesLast
  <1>10. QED
    BY <1>1, <1>2, <1>3, <1>4, <1>5, <1>6, <1>7, <1>8, <1>9

\* It is registered.
LEMMA CredentialRegisteredKeepsServices ==
  ASSUME ServiceInduct,
         CredentialRegistered
  PROVE  ServiceInduct'
  <1> USE ServicesAssumption DEF ServiceInduct, StartVars, AdmissionVars, sessionVars, coreVars
  <1>1. SlotShapes'
    BY DEF CommandsUnchanged, CredentialRegistered, SlotShapes, Works, WorkStages
  <1>2. WorksAreOfCommands'
    BY DEF CommandsUnchanged, CredentialRegistered, WorksAreOfCommands
  <1>3. SlotHasOneHolder'
    BY DEF CommandsUnchanged, CredentialRegistered, SlotHasOneHolder, SlotShapes, HoldingStages,
       SlotBusy, Busy
  <1>4. WorksHoldServices'
    BY DEF CommandsUnchanged, CredentialRegistered, WorksHoldServices, SlotShapes,
       SlotHasOneHolder, HoldingStages, Admitting
  <1>5. ServicesRun'
    BY DEF CommandsUnchanged, CredentialRegistered, ServicesRun, Admitting
  <1>6. ServicesClose'
    BY DEF CommandsUnchanged, CredentialRegistered, ServicesClose, SlotShapes, ServicesRun,
       WorksHoldServices, ClosedWhenIdle
  <1>7. ClosedWhenIdle'
    BY DEF CommandsUnchanged, CredentialRegistered, ClosedWhenIdle, SlotShapes, Admitting,
       ServicesRun, ServicesClose, WorksHoldServices, WorksAreOfCommands, Settled,
       SlotHasOneHolder
  <1>8. CancelIsKept'
    BY DEF CommandsUnchanged, CredentialRegistered, CancelIsKept
  <1>9. CoreClosesLast'
    BY DEF CommandsUnchanged, CredentialRegistered, CoreClosesLast
  <1>10. QED
    BY <1>1, <1>2, <1>3, <1>4, <1>5, <1>6, <1>7, <1>8, <1>9

\* No command is left: the service of the slot is closed.
LEMMA CommandsSettledKeepsServices ==
  ASSUME ServiceInduct,
         CommandsSettled
  PROVE  ServiceInduct'
  <1> USE ServicesAssumption DEF ServiceInduct, StartVars, AdmissionVars, sessionVars, coreVars
  <1>1. SlotShapes'
    BY DEF CommandsUnchanged, CommandsSettled, Close, SlotShapes, Works, WorkStages
  <1>2. WorksAreOfCommands'
    BY DEF CommandsUnchanged, CommandsSettled, Close, WorksAreOfCommands
  <1>3. SlotHasOneHolder'
    BY DEF CommandsUnchanged, CommandsSettled, Close, SlotHasOneHolder, SlotShapes, HoldingStages,
       SlotBusy, Busy, Admitting
  <1>4. WorksHoldServices'
    BY DEF CommandsUnchanged, CommandsSettled, Close, WorksHoldServices, SlotShapes,
       SlotHasOneHolder, HoldingStages, Admitting
  <1>5. ServicesRun'
    BY DEF CommandsUnchanged, CommandsSettled, Close, ServicesRun, Admitting
  <1>6. ServicesClose'
    BY DEF CommandsUnchanged, CommandsSettled, Close, ServicesClose, SlotShapes, ServicesRun,
       WorksHoldServices, ClosedWhenIdle
  <1>7. ClosedWhenIdle'
    <2>1. \A d \in Ids : work[d].at = "none"
      BY DEF CommandsSettled, Settled, WorksAreOfCommands
    <2>2. \A s \in Services : ~Admitting(s) /\ host[s] # "starting"
      BY <2>1 DEF ServicesRun, Admitting
    <2>3. /\ UNCHANGED <<pending, turn, slot, host>>
          /\ \A s \in Services :
               close'[s] = close[s] \/ (s = slot /\ close'[s] \in {"host", "data"})
      BY <2>2 DEF CommandsSettled, Close, SlotShapes
    <2>4. QED
      BY <2>2, <2>3 DEF ClosedWhenIdle, Admitting
  <1>8. CancelIsKept'
    BY DEF CommandsUnchanged, CommandsSettled, Close, CancelIsKept
  <1>9. CoreClosesLast'
    BY DEF CommandsUnchanged, CommandsSettled, Close, CoreClosesLast, SlotShapes, Settled
  <1>10. QED
    BY <1>1, <1>2, <1>3, <1>4, <1>5, <1>6, <1>7, <1>8, <1>9

\* It is closed.
LEMMA ServiceClosedKeepsServices ==
  ASSUME ServiceInduct,
         ServiceClosed
  PROVE  ServiceInduct'
  <1> USE ServicesAssumption DEF ServiceInduct, StartVars, AdmissionVars, sessionVars, coreVars
  <1>1. SlotShapes'
    BY DEF CommandsUnchanged, ServiceClosed, SlotShapes, Works, WorkStages
  <1>2. WorksAreOfCommands'
    BY DEF CommandsUnchanged, ServiceClosed, WorksAreOfCommands
  <1>3. SlotHasOneHolder'
    BY DEF CommandsUnchanged, ServiceClosed, SlotHasOneHolder, SlotShapes, HoldingStages,
       SlotBusy, Busy, Admitting
  <1>4. WorksHoldServices'
    <2>1. \A d \in Ids : work[d].at = "none"
      BY DEF ServiceClosed, CoreClosesLast, Settled, WorksAreOfCommands
    <2>2. QED
      BY <2>1 DEF ServiceClosed, WorksHoldServices
  <1>5. ServicesRun'
    BY DEF CommandsUnchanged, ServiceClosed, ServicesRun, Admitting
  <1>6. ServicesClose'
    BY DEF CommandsUnchanged, ServiceClosed, ServicesClose, SlotShapes, ServicesRun,
       WorksHoldServices, ClosedWhenIdle
  <1>7. ClosedWhenIdle'
    BY DEF CommandsUnchanged, ServiceClosed, ClosedWhenIdle, SlotShapes, Admitting, ServicesRun,
       ServicesClose, WorksHoldServices, WorksAreOfCommands, Settled, SlotHasOneHolder
  <1>8. CancelIsKept'
    BY DEF CommandsUnchanged, ServiceClosed, CancelIsKept
  <1>9. CoreClosesLast'
    BY DEF CommandsUnchanged, ServiceClosed, CoreClosesLast, Settled
  <1>10. QED
    BY <1>1, <1>2, <1>3, <1>4, <1>5, <1>6, <1>7, <1>8, <1>9

\* Data is closed.
LEMMA DataClosedKeepsServices ==
  ASSUME ServiceInduct,
         DataClosed
  PROVE  ServiceInduct'
  <1> USE ServicesAssumption DEF ServiceInduct, StartVars, AdmissionVars, sessionVars, coreVars
  <1>1. SlotShapes'
    BY DEF CommandsUnchanged, DataClosed, SlotShapes, Works, WorkStages
  <1>2. WorksAreOfCommands'
    BY DEF CommandsUnchanged, DataClosed, WorksAreOfCommands
  <1>3. SlotHasOneHolder'
    BY DEF CommandsUnchanged, DataClosed, SlotHasOneHolder, SlotShapes, HoldingStages, SlotBusy,
       Busy, Admitting
  <1>4. WorksHoldServices'
    BY DEF CommandsUnchanged, DataClosed, WorksHoldServices, SlotShapes, SlotHasOneHolder,
       HoldingStages, Admitting
  <1>5. ServicesRun'
    BY DEF CommandsUnchanged, DataClosed, ServicesRun, Admitting
  <1>6. ServicesClose'
    BY DEF CommandsUnchanged, DataClosed, ServicesClose, SlotShapes, ServicesRun,
       WorksHoldServices, ClosedWhenIdle
  <1>7. ClosedWhenIdle'
    BY DEF CommandsUnchanged, DataClosed, ClosedWhenIdle, SlotShapes, Admitting, ServicesRun,
       ServicesClose, WorksHoldServices, WorksAreOfCommands, Settled, SlotHasOneHolder
  <1>8. CancelIsKept'
    BY DEF CommandsUnchanged, DataClosed, CancelIsKept
  <1>9. CoreClosesLast'
    BY DEF CommandsUnchanged, DataClosed, CoreClosesLast, Settled
  <1>10. QED
    BY <1>1, <1>2, <1>3, <1>4, <1>5, <1>6, <1>7, <1>8, <1>9

\* The close of the Core begins.
LEMMA CloseBeginsKeepsServices ==
  ASSUME ServiceInduct,
         coreClose = "open", coreClose' = "commands", closed', CommandsQuiet,
         UNCHANGED <<slot, openingSlot, made, session, work, outcome, credential>>,
         UNCHANGED sessionVars \/ CancelSlot
  PROVE  ServiceInduct'
  <1> USE ServicesAssumption DEF ServiceInduct, StartVars, AdmissionVars, sessionVars, coreVars
  <1>1. SlotShapes'
    <2>1. CASE UNCHANGED sessionVars
      BY <2>1 DEF SlotShapes
    <2>2. CASE CancelSlot
      <3>1. CASE CancelActiveTurn(slot) /\ slot \in Services
        BY <3>1, CancelSteps DEF SlotShapes
      <3>2. QED
        BY <2>1, <2>2, <3>1 DEF CancelSlot, SlotBusy, SlotShapes
    <2>3. QED
      BY <2>1, <2>2
  <1>2. WorksAreOfCommands'
    BY DEF CommandsQuiet, CancelSlot, CancelActiveTurn, WorksAreOfCommands
  <1>3. SlotHasOneHolder'
    BY DEF CommandsQuiet, CancelSlot, CancelActiveTurn, SlotHasOneHolder, SlotShapes,
       HoldingStages, SlotBusy, Busy, Admitting
  <1>4. WorksHoldServices'
    BY DEF CommandsQuiet, CancelSlot, CancelActiveTurn, WorksHoldServices, SlotShapes,
       SlotHasOneHolder, HoldingStages, Admitting
  <1>5. ServicesRun'
    BY DEF CommandsQuiet, CancelSlot, CancelActiveTurn, ServicesRun, Admitting
  <1>6. ServicesClose'
    BY DEF CommandsQuiet, CancelSlot, CancelActiveTurn, ServicesClose, SlotShapes, ServicesRun,
       WorksHoldServices, ClosedWhenIdle
  <1>7. ClosedWhenIdle'
    BY DEF CommandsQuiet, CancelSlot, CancelActiveTurn, ClosedWhenIdle, SlotShapes, Admitting,
       ServicesRun, ServicesClose, WorksHoldServices, WorksAreOfCommands, Settled,
       SlotHasOneHolder
  <1>8. CancelIsKept'
    <2>1. CASE UNCHANGED sessionVars
      BY <2>1 DEF CancelIsKept
    <2>2. CASE CancelSlot
      <3>1. CASE CancelActiveTurn(slot) /\ slot \in Services
        BY <3>1, CancelSteps DEF CancelIsKept, ServicesRun
      <3>2. QED
        BY <2>1, <2>2, <3>1 DEF CancelSlot, SlotBusy, SlotShapes
    <2>3. QED
      BY <2>1, <2>2
  <1>9. CoreClosesLast'
    BY DEF CommandsQuiet, CancelSlot, CancelActiveTurn, CoreClosesLast
  <1>10. QED
    BY <1>1, <1>2, <1>3, <1>4, <1>5, <1>6, <1>7, <1>8, <1>9

-----------------------------------------------------------------------------
(* Every step.                                                             *)

\* The command at the head of the queue waits for its receipt.
LEMMA HeadWaits ==
  ASSUME CommandInduct, preflight # << >>
  PROVE  command[Head(preflight)].at = "preflight"
  <1>1. preflight \in Seq(Ids) /\ Distinct(preflight)
    BY DEF CommandInduct, CommandShapes, QueuedOnce
  <1>2. Head(preflight) \in Held(preflight) /\ Head(preflight) \in Ids
    BY <1>1, QueueShrinks
  <1>3. QED
    BY <1>2 DEF CommandInduct, QueuedOnce

\* A step that leaves the works alone.
LEMMA UntouchedKeepsServices ==
  ASSUME ServiceInduct, UNCHANGED <<command, closed>>, UNCHANGED coreVars, UNCHANGED sessionVars
  PROVE  ServiceInduct'
  <1>1. CommandsQuiet
    BY DEF CommandsQuiet, Settled
  <1>2. QED
    BY <1>1, QuietKeepsServices

\* The work of a command begins, in whatever it asks.
LEMMA StartWorkKeepsServices ==
  ASSUME ServiceInduct, NEW c \in Ids, CommandStarts(c), StartWork(c)
  PROVE  ServiceInduct'
  <1> DEFINE r == Request[command[c].sig]
  <1>1. UNCHANGED <<slot, made, session, credential, coreClose>>
    BY DEF StartWork
  <1>2. CASE StartOpen(c, r.session)
    <2>1. CASE Ends(c, "rejected") /\ UNCHANGED <<openingSlot, sessionVars>>
      BY <1>1, <2>1, StartRefusedKeepsServices DEF Results
    <2>2. CASE /\ ~openingSlot /\ ~(~Active(r.session) /\ SlotBusy) /\ openingSlot' = TRUE
               /\ Goes(c, IF Active(r.session) THEN "control" ELSE "make", None)
               /\ UNCHANGED <<outcome, sessionVars>>
      <3>1. CASE Active(r.session)
        BY <1>1, <2>2, <3>1, OpenStartsKeepsServices
      <3>2. CASE ~Active(r.session)
        BY <1>1, <2>2, <3>2, OpenStartsKeepsServices
      <3>3. QED
        BY <3>1, <3>2
    <2>3. QED
      BY <1>2, <2>1, <2>2 DEF StartOpen
  <1>3. CASE StartSubmit(c, r.session)
    <2>1. CASE Ends(c, "rejected") /\ UNCHANGED <<openingSlot, sessionVars>>
      BY <1>1, <2>1, StartRefusedKeepsServices DEF Results
    <2>2. CASE /\ Active(r.session) /\ ~openingSlot /\ ~SlotBusy /\ UNCHANGED openingSlot
               /\ Admit(slot)
               /\ IF pending'[slot] = "rejected" THEN Ends(c, "rejected")
                  ELSE Goes(c, "admit", slot) /\ UNCHANGED outcome
      <3>1. slot # None
        BY <2>2 DEF Active
      <3>2. CASE pending'[slot] = "rejected"
        BY <1>1, <2>2, <3>1, <3>2, SubmitRejectedKeepsServices
      <3>3. CASE pending'[slot] # "rejected"
        BY <1>1, <2>2, <3>1, <3>3, SubmitStartsKeepsServices
      <3>4. QED
        BY <3>2, <3>3
    <2>3. QED
      BY <1>3, <2>1, <2>2 DEF StartSubmit
  <1>4. CASE StartAlter(c, r.session)
    <2>1. CASE Ends(c, "rejected") /\ UNCHANGED <<openingSlot, sessionVars>>
      BY <1>1, <2>1, StartRefusedKeepsServices DEF Results
    <2>2. CASE /\ Active(r.session) /\ ~openingSlot /\ ~SlotBusy /\ EnsureStarted(slot)
               /\ UNCHANGED <<AdmissionVars, turn, close>>
               /\ host[slot] = "failed" /\ Ends(c, "failed") /\ UNCHANGED openingSlot
      <3>1. host' = host
        BY <2>2 DEF Active, EnsureStarted, ServiceInduct, SlotShapes
      <3>2. UNCHANGED sessionVars
        BY <2>2, <3>1 DEF EnsureStarted, sessionVars, AdmissionVars
      <3>3. QED
        BY <1>1, <2>2, <3>2, StartRefusedKeepsServices DEF Results
    <2>3. CASE /\ Active(r.session) /\ ~openingSlot /\ ~SlotBusy /\ EnsureStarted(slot)
               /\ UNCHANGED <<AdmissionVars, turn, close>>
               /\ host[slot] # "failed" /\ Goes(c, "alter", slot) /\ openingSlot' = TRUE
               /\ UNCHANGED outcome
      BY <1>1, <2>3, AlterStartsKeepsServices DEF Active
    <2>4. QED
      BY <1>4, <2>1, <2>2, <2>3 DEF StartAlter
  <1>5. CASE Ends(c, "accepted") /\ UNCHANGED <<openingSlot, sessionVars>>
    BY <1>1, <1>5, StartRefusedKeepsServices DEF Results
  <1>6. QED
    BY <1>2, <1>3, <1>4, <1>5 DEF StartWork

\* A call is registered at most; core.shutdown begins the shutdown.
LEMMA CallsKeep ==
  ASSUME CoreInduct, NEW c \in Ids, NEW sig \in Signatures, Calls(c, sig)
  PROVE  CoreInduct'
  <1>1. CommandInduct'
    BY CallKeepsCommands DEF Calls, CoreInduct
  <1>2. \/ UNCHANGED <<command, closed>>
        \/ /\ command[c].at = "none" /\ ~closed
           /\ command' = [command EXCEPT ![c] = [at |-> "preflight", sig |-> sig, value |-> "none"]]
    BY DEF Calls, Call
  <1>3. CommandsQuiet
    <2>1. CASE UNCHANGED <<command, closed>>
      BY <2>1 DEF CommandsQuiet, Settled
    <2>2. CASE ~closed /\ \E r :
                 command' = [command EXCEPT
                               ![c] = [at |-> "preflight", sig |-> r, value |-> "none"]]
      <3>1. command[c].at = "none" \/ UNCHANGED <<command, closed>>
        BY <1>2
      <3>2. /\ \A d \in Ids \ {c} : command'[d] = command[d]
            /\ command'[c].at = "preflight"
        BY <2>2 DEF CoreInduct, CommandInduct, CommandShapes
      <3>3. QED
        BY <2>1, <2>2, <3>1, <3>2 DEF CommandsQuiet
    <2>3. QED
      BY <1>2, <2>1, <2>2
  <1>4. UNCHANGED coreVars /\ (UNCHANGED sessionVars \/ CancelSlot)
    BY DEF Calls
  <1>5. QED
    BY <1>1, <1>3, <1>4, QuietKeepsServices DEF CoreInduct

\* The receipt of a command is read, or cannot be.
LEMMA ReceiptKeeps ==
  ASSUME CoreInduct, NEW c \in Ids, Receipt(c)
  PROVE  CoreInduct'
  <1>1. CommandInduct'
    BY ReceiptReadKeepsCommands, ReceiptReadFailsKeepsCommands DEF Receipt, CoreInduct
  <1>2. /\ command[c].at = "preflight" /\ closed' = closed
        /\ command' \in [Ids -> Commands] /\ \A d \in Ids \ {c} : command'[d] = command[d]
    BY <1>1, HeadWaits DEF Receipt, ReceiptRead, ReceiptReadFails, CoreInduct, CommandInduct,
       CommandShapes
  <1>3. CASE ReceiptRead(c) /\ command'[c].at = "work" /\ StartWork(c)
    BY <1>1, <1>2, <1>3, StartWorkKeepsServices DEF CommandStarts, CoreInduct
  <1>4. CASE command'[c].at # "work" /\ UNCHANGED <<sessionVars, coreVars>>
    <2>1. CommandsQuiet
      BY <1>2, <1>4 DEF CommandsQuiet, Settled
    <2>2. QED
      BY <1>1, <1>4, <2>1, QuietKeepsServices DEF CoreInduct
  <1>5. ReceiptReadFails(c) => command'[c].at # "work"
    BY DEF ReceiptReadFails, CoreInduct, CommandInduct, CommandShapes
  <1>6. QED
    BY <1>3, <1>4, <1>5 DEF Receipt

\* The outcome of a work is taken.
LEMMA WorkedKeeps ==
  ASSUME CoreInduct, NEW c \in Ids, Worked(c)
  PROVE  CoreInduct'
  <1>1. CommandInduct'
    BY WorkEndsKeepsCommands DEF Worked, CoreInduct
  <1>2. PICK v \in Results :
          command[c].at = "work" /\ command' = [command EXCEPT ![c].at = "save", ![c].value = v]
    BY DEF Worked, WorkEnds
  <1>3. /\ \A d \in Ids \ {c} : command'[d] = command[d]
        /\ command'[c].at = "save" /\ command'[c].value # "none"
    BY <1>2, ValueChanges DEF CoreInduct, CommandInduct, CommandShapes, CommandStages, Values,
       Results
  <1>4. /\ outcome[c] # "none" /\ outcome' = [outcome EXCEPT ![c] = "none"] /\ UNCHANGED closed
        /\ UNCHANGED <<slot, openingSlot, made, session, work, credential, coreClose, sessionVars>>
    BY <1>3 DEF Worked, WorkEnds
  <1>5. QED
    BY <1>1, <1>2, <1>3, <1>4, WorkedOutKeepsServices DEF CoreInduct

\* The receipt of a command is saved, or lost.
LEMMA SavesKeeps ==
  ASSUME CoreInduct, NEW c \in Ids, Saves(c)
  PROVE  CoreInduct'
  <1>1. CommandInduct'
    BY ReceiptSavedKeepsCommands, ReceiptLostKeepsCommands DEF Saves, CoreInduct
  <1>2. PICK r \in {"none", "lost"} :
          /\ command[c].at = "save" /\ closed' = closed
          /\ command'[c].at = r /\ \A d \in Ids \ {c} : command'[d] = command[d]
    BY DEF Saves, ReceiptSaved, ReceiptLost, CoreInduct, CommandInduct, CommandShapes, Commands,
       NoCommand
  <1>3. CommandsQuiet
    BY <1>2 DEF CommandsQuiet, Settled
  <1>4. QED
    BY <1>1, <1>3, QuietKeepsServices DEF CoreInduct, Saves

\* A work goes on.
LEMMA WorkGoesOnKeeps ==
  ASSUME CoreInduct, NEW c \in Ids, WorkGoesOn(c)
  PROVE  CoreInduct'
  <1>1. \E failed : CommandsUnchanged(failed)
    BY DEF WorkGoesOn, Made, MakeFails, Watched, WatchFails, PreviousClosed, AlterFails,
       ControlRefreshed, Altered
  <1>2. CommandInduct'
    BY <1>1, CommandsUnchangedKeepsCommands DEF CoreInduct
  <1>3. ServiceInduct'
    BY MadeKeepsServices, MakeFailsKeepsServices, WatchedKeepsServices, WatchFailsKeepsServices,
       PreviousClosedKeepsServices, AlterFailsKeepsServices, ControlRefreshedKeepsServices,
       AlteredKeepsServices DEF WorkGoesOn, CoreInduct
  <1>4. QED
    BY <1>2, <1>3 DEF CoreInduct

\* A service takes a step.
LEMMA ServiceKeeps ==
  ASSUME CoreInduct, NEW s \in Services,
         \/ StartupPrepared(s) /\ Serves(s, FALSE)
         \/ TurnEnds(s) /\ Serves(s, FALSE)
         \/ StartEnds(s) \/ ServiceGoesOn(s)
         \/ CancelActiveTurn(s) /\ Serves(s, FALSE)
  PROVE  CoreInduct'
  <1>1. \E failed : Serves(s, failed)
    BY DEF StartEnds, ServiceGoesOn, Answers, Closes
  <1>2. CommandInduct'
    BY <1>1, CommandsUnchangedKeepsCommands DEF CoreInduct, Serves
  <1>3. ServiceInduct'
    BY StartupPreparedKeepsServices, TurnEndsKeepsServices, StartSucceedsKeepsServices,
       StartFailsKeepsServices, WatchdogFiresKeepsServices, RecordedKeepsServices,
       HostAdmitsKeepsServices, HostClosesKeepsServices, ClosedKeepsServices,
       CancelActiveTurnKeepsServices DEF StartEnds, ServiceGoesOn, Answers, Closes, CoreInduct
  <1>4. QED
    BY <1>2, <1>3 DEF CoreInduct

\* The active execution is cancelled.
LEMMA ExecutionCancelKeeps ==
  ASSUME CoreInduct, ExecutionCancel
  PROVE  CoreInduct'
  <1>1. PICK s \in Services : s = slot
    BY DEF ExecutionCancel, CoreInduct, ServiceInduct, SlotShapes
  <1>2. CancelActiveTurn(s) /\ Serves(s, FALSE)
    BY <1>1 DEF ExecutionCancel
  <1>3. QED
    BY <1>2, ServiceKeeps

\* The shutdown begins, or the close of the Core, which begins it.
LEMMA ShutdownKeeps ==
  ASSUME CoreInduct, ShutdownBegins \/ CoreCloses
  PROVE  CoreInduct'
  <1>1. BeginShutdown \/ (closed /\ UNCHANGED vars)
    BY DEF ShutdownBegins, CoreCloses
  <1>2. CommandInduct'
    BY <1>1, BeginShutdownKeepsCommands, StutterKeepsCommands DEF CoreInduct
  <1>3. UNCHANGED command /\ closed' /\ (UNCHANGED sessionVars \/ CancelSlot)
    BY DEF ShutdownBegins, CoreCloses, BeginShutdown, vars
  <1>4. CommandsQuiet
    BY <1>3 DEF CommandsQuiet, Settled
  <1>5. ServiceInduct'
    BY <1>3, <1>4, QuietKeepsServices, CloseBeginsKeepsServices DEF ShutdownBegins, CoreCloses,
       CoreInduct
  <1>6. QED
    BY <1>2, <1>5 DEF CoreInduct

\* Credentials and the close of the Core.
LEMMA CloseKeeps ==
  ASSUME CoreInduct, CredentialRegister \/ CloseGoesOn
  PROVE  CoreInduct'
  <1>1. \E failed : CommandsUnchanged(failed)
    BY DEF CredentialRegister, CloseGoesOn, CredentialRegistered, CommandsSettled, ServiceClosed,
       DataClosed
  <1>2. CommandInduct'
    BY <1>1, CommandsUnchangedKeepsCommands DEF CoreInduct
  <1>3. ServiceInduct'
    BY CredentialRegisterKeepsServices, CredentialRegisteredKeepsServices,
       CommandsSettledKeepsServices, ServiceClosedKeepsServices, DataClosedKeepsServices DEF
       CloseGoesOn, CoreInduct
  <1>4. QED
    BY <1>2, <1>3 DEF CoreInduct

\* The Core starts with no command, and with all its services unused but the initial one.
LEMMA InductAtStart ==
  ASSUME CoreInit
  PROVE  CoreInduct
  <1> USE BoundsAssumption, ServicesAssumption DEF CoreInit, Init, SessionInit
  <1>1. CommandShapes
    <2>1. command \in [Ids -> Commands]
      BY DEF Commands, CommandStages, Sigs, Values, NoCommand
    <2>2. receipt \in [Ids -> [sig : Sigs, result : Values]]
      BY DEF Sigs, Values, NoReceipt
    <2>3. preflight \in Seq(Ids) /\ cache \in Seq(Entries) /\ Len(cache) <= CacheLimit
      OBVIOUS
    <2>4. QED
      BY <2>1, <2>2, <2>3 DEF CommandShapes
  <1>2. QueuedOnce /\ RanOnce /\ ReceiptsStand /\ AnswersVouched
    BY DEF QueuedOnce, RanOnce, ReceiptsStand, AnswersVouched, Held, Distinct, NoCommand
  <1>3. SlotShapes
    BY DEF SlotShapes, Works, WorkStages, NoWork, Values
  <1>4. WorksAreOfCommands /\ SlotHasOneHolder /\ WorksHoldServices
    BY <1>3 DEF WorksAreOfCommands, SlotHasOneHolder, WorksHoldServices, NoWork, HoldingStages
  <1>5. ServicesRun /\ ClosedWhenIdle /\ CancelIsKept /\ CoreClosesLast
    BY <1>3 DEF ServicesRun, ClosedWhenIdle, CancelIsKept, CoreClosesLast, Admitting
  <1>6. ServicesClose
    BY <1>3 DEF ServicesClose
  <1>7. QED
    BY <1>1, <1>2, <1>3, <1>4, <1>5, <1>6 DEF CoreInduct, CommandInduct, ServiceInduct

\* Every step of the Core keeps the inductive invariant.
LEMMA InductKept ==
  ASSUME CoreInduct, [CoreNext]_allVars
  PROVE  CoreInduct'
  <1>1. ASSUME NEW c \in Ids, (\E sig \in Signatures : Calls(c, sig)) \/ CommandGoesOn(c)
        PROVE  CoreInduct'
    BY <1>1, CallsKeep, ReceiptKeeps, WorkedKeeps, SavesKeeps, WorkGoesOnKeeps DEF CommandGoesOn
  <1>2. ASSUME NEW s \in Services,
               \/ StartupPrepared(s) /\ Serves(s, FALSE)
               \/ TurnEnds(s) /\ Serves(s, FALSE)
               \/ StartEnds(s) \/ ServiceGoesOn(s)
        PROVE  CoreInduct'
    BY <1>2, ServiceKeeps
  <1>3. CASE CredentialRegister \/ ExecutionCancel \/ ShutdownBegins \/ CoreCloses \/ CloseGoesOn
    BY <1>3, CloseKeeps, ExecutionCancelKeeps, ShutdownKeeps
  <1>4. CASE UNCHANGED allVars
    <2>1. UNCHANGED vars /\ UNCHANGED sessionVars /\ UNCHANGED coreVars
      BY <1>4 DEF allVars
    <2>2. CommandInduct' /\ ServiceInduct'
      BY <2>1, StutterKeepsCommands, UntouchedKeepsServices DEF vars, CoreInduct
    <2>3. QED
      BY <2>2 DEF CoreInduct
  <1>5. QED
    BY <1>1, <1>2, <1>3, <1>4 DEF CoreNext

-----------------------------------------------------------------------------
(* The theorems.                                                           *)

\* In every run of the Core, whatever is called, fails, is cancelled or closed meanwhile,
\* the commands, the works, the slot and the services agree.
THEOREM InvariantHolds == CoreSpec => []CoreInduct
  <1>1. CoreInit => CoreInduct
    BY InductAtStart
  <1>2. CoreInduct /\ [CoreNext]_allVars => CoreInduct'
    BY InductKept
  <1>3. QED
    BY <1>1, <1>2, PTL DEF CoreSpec

\* The invariant says that commands run once and are answered alike.
LEMMA InductGivesCommands ==
  ASSUME CoreInduct
  PROVE  CommandInvariant
  <1> USE DEF CoreInduct, CommandInduct
  <1>1. TypeOK
    BY DEF CommandShapes, QueuedOnce, ReceiptsStand, TypeOK, Commands, CommandStages, Held
  <1>2. WorkRunsOnce
    BY DEF WorkRunsOnce, RanOnce
  <1>3. AnswersAgree
    BY DEF AnswersAgree, AnswersVouched, Vouched, RanOnce
  <1>4. QED
    BY <1>1, <1>2, <1>3 DEF CommandInvariant

\* The work of a command is run at most once, and every result a client was given is durable
\* and the same for each of its calls, in the Core as it composes its commands and services.
THEOREM CommandsCorrect == CoreSpec => []CommandInvariant
  BY InvariantHolds, InductGivesCommands, PTL

\* The slot is held as often as it is reserved.
LEMMA InductGivesExclusion ==
  ASSUME ServiceInduct
  PROVE  SlotIsExclusive
  <1> USE DEF ServiceInduct
  <1>1. Holders = {c \in Ids : work[c].at \in HoldingStages}
    BY DEF Holders, HoldingStages
  <1>2. openingSlot /\ SlotBusy => \E c \in Holders : work[c].at = "control"
    BY DEF SlotHasOneHolder, Holders
  <1>3. CASE \E c \in Ids : work[c].at \in HoldingStages
    <2>1. PICK c \in Ids : work[c].at \in HoldingStages
      BY <1>3
    <2>2. Holders = {c}
      BY <1>1, <2>1 DEF SlotHasOneHolder
    <2>3. Cardinality(Holders) = 1
      BY <2>2, FS_Singleton
    <2>4. openingSlot /\ credential # "save"
      BY <2>1 DEF SlotHasOneHolder
    <2>5. QED
      BY <1>2, <2>3, <2>4 DEF SlotIsExclusive
  <1>4. CASE \A c \in Ids : work[c].at \notin HoldingStages
    <2>1. Holders = {}
      BY <1>1, <1>4
    <2>2. Cardinality(Holders) = 0
      BY <2>1, FS_EmptySet
    <2>3. openingSlot <=> credential = "save"
      BY <1>4 DEF SlotHasOneHolder
    <2>4. QED
      BY <1>2, <2>2, <2>3 DEF SlotIsExclusive
  <1>5. QED
    BY <1>3, <1>4

\* A Core that is closed has nothing under way.
LEMMA InductGivesRest ==
  ASSUME ServiceInduct
  PROVE  NothingLeft
  <1> USE DEF ServiceInduct
  <1>1. SUFFICES ASSUME coreClose = "done"
                 PROVE  /\ \A c \in Ids : work[c] = NoWork
                        /\ \A s \in Services : host[s] \notin {"starting", "up"}
    BY DEF NothingLeft
  <1>2. \A c \in Ids : work[c].at = "none" /\ work[c].service = None
    BY <1>1 DEF CoreClosesLast, Settled, WorksAreOfCommands
  <1>3. \A c \in Ids : work[c] = NoWork
    BY <1>2 DEF SlotShapes, Works, NoWork
  <1>4. ASSUME NEW s \in Services
        PROVE  host[s] \notin {"starting", "up"}
    <2>1. CASE made[s] # "ready"
      BY <2>1 DEF ServicesClose
    <2>2. CASE made[s] = "ready"
      <3>1. s = slot => close[s] = "failed"
        BY <1>1, ServicesAssumption DEF CoreClosesLast
      <3>2. s # slot => close[s] \in {"done", "failed"}
        BY <1>2, <2>2 DEF ServicesClose
      <3>3. QED
        BY <3>1, <3>2 DEF ServicesClose
    <2>3. QED
      BY <2>1, <2>2
  <1>5. QED
    BY <1>3, <1>4

\* The invariant says that the slot, its services and their Workers agree.
LEMMA InductGivesServices ==
  ASSUME CoreInduct
  PROVE  ServiceInvariant
  <1>1. SessionTypeOK
    BY DEF CoreInduct, ServiceInduct, SlotShapes, SessionTypeOK
  <1>2. QED
    BY <1>1, InductGivesExclusion, InductGivesRest DEF CoreInduct, ServiceInduct, ServiceInvariant

\* Who reserves the slot has it alone through all its awaits; no service is closed while it
\* admits a task; a cancellation is not lost while the Worker starts; and a Core that is
\* closed has left no work and no Worker behind.
THEOREM ServicesCorrect == CoreSpec => []ServiceInvariant
  BY InvariantHolds, InductGivesServices, PTL

===============================================================================
