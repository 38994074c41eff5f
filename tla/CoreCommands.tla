---------------------------- MODULE CoreCommands ----------------------------
(***************************************************************************)
(* registerCommand (host/core_service.ts): clients repeat a command under  *)
(* its id until they have an answer; the Core runs its work once, keeps    *)
(* the answer in a small cache and in a durable receipt, and lets copies   *)
(* that arrive meanwhile join the one under way.  Receipts are read one    *)
(* after the other (preflight), so that works start in order.  The works   *)
(* themselves are those of CoreService, which composes these actions.      *)
(***************************************************************************)
EXTENDS Naturals, Sequences, FiniteSets

CONSTANTS Ids, Signatures,
          Shutdown,            \* the signature of core.shutdown
          CacheLimit,          \* the entries of completedCommands (32 in the code)
          MaxCalls, MaxFaults  \* bounds

ASSUME BoundsAssumption == CacheLimit \in Nat \ {0} /\ MaxCalls \in Nat /\ MaxFaults \in Nat

Results == {"accepted", "rejected", "failed"}

VARIABLES
  command,   \* commands: the TrackedCommand of an id
  preflight, \* the ids whose receipt is to be read, in order
  cache,     \* completedCommands, oldest first
  receipt,   \* Data Worker: command_receipts of this epoch
  waiting,   \* the calls that wait for the promise of an id
  calls,     \* calls made for an id
  closed,    \* admissionClosed
  faults,
  ran,       \* history: how often the work of an id was run
  answers,   \* history: the answers given
  misread    \* history: the ids whose receipt could not be read

vars == <<command, preflight, cache, receipt, waiting, calls, closed, faults, ran, answers, misread>>

NoCommand == [at |-> "none", sig |-> "none", value |-> "none"]
NoReceipt == [sig |-> "none", result |-> "none"]

Init ==
  /\ command = [c \in Ids |-> NoCommand] /\ receipt = [c \in Ids |-> NoReceipt]
  /\ preflight = << >> /\ cache = << >>
  /\ waiting = [c \in Ids |-> 0] /\ calls = [c \in Ids |-> 0]
  /\ closed = FALSE /\ faults = 0
  /\ ran = [c \in Ids |-> 0] /\ answers = {} /\ misread = {}

TypeOK ==
  /\ \A c \in Ids : command[c].at \in {"none", "preflight", "work", "save", "lost"}
  /\ \A c \in Ids : command[c].at = "preflight" <=> \E i \in DOMAIN preflight : preflight[i] = c
  /\ Len(cache) <= CacheLimit
  /\ \A c \in Ids : receipt[c] # NoReceipt => receipt[c].result \in Results

Cached(c) == {i \in DOMAIN cache : cache[i].id = c}

\* cacheReceipt: the oldest entry makes room.
CacheReceipt(c, r) ==
  Append(IF Len(cache) >= CacheLimit THEN Tail(cache) ELSE cache,
         [id |-> c, sig |-> r.sig, result |-> r.result])

Answer(c, sig, a) == answers' = answers \cup {[id |-> c, sig |-> sig, answer |-> a]}

-----------------------------------------------------------------------------

\* The synchronous part of registerCommand: no await before the registration, which of
\* core.shutdown begins the shutdown.
Call(c, sig) ==
  /\ calls[c] < MaxCalls
  /\ calls' = [calls EXCEPT ![c] = @ + 1]
  /\ \/ /\ command[c].at # "none" /\ command[c].sig # sig
        /\ Answer(c, sig, "conflict")
        /\ UNCHANGED <<command, preflight, waiting, closed>>
     \/ /\ command[c].at = "lost" /\ command[c].sig = sig
        /\ Answer(c, sig, "error")
        /\ UNCHANGED <<command, preflight, waiting, closed>>
     \/ /\ command[c].at \notin {"none", "lost"} /\ command[c].sig = sig
        /\ waiting' = [waiting EXCEPT ![c] = @ + 1]
        /\ UNCHANGED <<command, preflight, answers, closed>>
     \/ /\ command[c].at = "none" /\ Cached(c) # {}
        /\ \E i \in Cached(c) :
             Answer(c, sig, IF cache[i].sig = sig THEN cache[i].result ELSE "conflict")
        /\ UNCHANGED <<command, preflight, waiting, closed>>
     \/ /\ command[c].at = "none" /\ Cached(c) = {} /\ closed
        /\ Answer(c, sig, "unavailable")
        /\ UNCHANGED <<command, preflight, waiting, closed>>
     \/ /\ command[c].at = "none" /\ Cached(c) = {} /\ ~closed
        /\ command' = [command EXCEPT ![c] = [at |-> "preflight", sig |-> sig, value |-> "none"]]
        /\ preflight' = Append(preflight, c)
        /\ waiting' = [waiting EXCEPT ![c] = 1]
        /\ closed' = (sig = Shutdown)
        /\ UNCHANGED answers
  /\ UNCHANGED <<cache, receipt, faults, ran, misread>>

\* Every call that waits for the promise of c has its answer.
Resolve(c, a) ==
  /\ Answer(c, command[c].sig, a)
  /\ waiting' = [waiting EXCEPT ![c] = 0]

\* commandReceiptRead: a receipt answers the call, otherwise the work starts.
ReceiptRead(c) ==
  /\ preflight # << >> /\ Head(preflight) = c
  /\ preflight' = Tail(preflight)
  /\ \/ /\ receipt[c] # NoReceipt /\ receipt[c].sig # command[c].sig
        /\ command' = [command EXCEPT ![c] = NoCommand]
        /\ Resolve(c, "conflict")
        /\ UNCHANGED <<cache, ran>>
     \/ /\ receipt[c] # NoReceipt /\ receipt[c].sig = command[c].sig
        /\ cache' = CacheReceipt(c, receipt[c])
        /\ command' = [command EXCEPT ![c] = NoCommand]
        /\ Resolve(c, receipt[c].result)
        /\ UNCHANGED ran
     \/ /\ receipt[c] = NoReceipt
        /\ ran' = [ran EXCEPT ![c] = @ + 1]
        /\ command' = [command EXCEPT ![c].at = "work"]
        /\ UNCHANGED <<cache, waiting, answers>>
  /\ UNCHANGED <<receipt, calls, closed, faults, misread>>

\* A read that fails counts as a failed command, whose work is not run.
ReceiptReadFails(c) ==
  /\ preflight # << >> /\ Head(preflight) = c
  /\ faults < MaxFaults
  /\ faults' = faults + 1
  /\ preflight' = Tail(preflight)
  /\ misread' = misread \cup {c}
  /\ command' = [command EXCEPT ![c].at = "save", ![c].value = "failed"]
  /\ UNCHANGED <<cache, receipt, waiting, calls, closed, ran, answers>>

\* The work ends; one that throws is a failed command.
WorkEnds(c) ==
  /\ command[c].at = "work"
  /\ \E v \in Results : command' = [command EXCEPT ![c].at = "save", ![c].value = v]
  /\ UNCHANGED <<preflight, cache, receipt, waiting, calls, closed, faults, ran, answers, misread>>

\* writeCommandReceipt keeps an earlier receipt of the same command.
Written(c) ==
  IF receipt[c] # NoReceipt THEN receipt
  ELSE [receipt EXCEPT ![c] = [sig |-> command[c].sig, result |-> command[c].value]]

\* The receipt is durable before the command is answered.
ReceiptSaved(c) ==
  /\ command[c].at = "save"
  /\ receipt[c] = NoReceipt \/ receipt[c].sig = command[c].sig
  /\ receipt' = Written(c)
  /\ cache' = CacheReceipt(c, [sig |-> command[c].sig, result |-> command[c].value])
  /\ command' = [command EXCEPT ![c] = NoCommand]
  /\ Resolve(c, command[c].value)
  /\ UNCHANGED <<preflight, calls, closed, faults, ran, misread>>

MutantReceiptLost(c) ==
  /\ command[c].at = "save"
  /\ \/ /\ receipt[c] # NoReceipt /\ receipt[c].sig # command[c].sig
        /\ UNCHANGED faults
     \/ /\ faults < MaxFaults
        /\ faults' = faults + 1
  /\ command' = [command EXCEPT ![c] = NoCommand]
  /\ Resolve(c, "error")
  /\ UNCHANGED <<preflight, cache, receipt, calls, closed, ran, misread>>

\* It cannot be written, or belongs to another command: the id stays taken.
ReceiptLost(c) ==
  /\ command[c].at = "save"
  /\ \/ /\ receipt[c] # NoReceipt /\ receipt[c].sig # command[c].sig
        /\ UNCHANGED faults
     \/ /\ faults < MaxFaults
        /\ faults' = faults + 1
  /\ command' = [command EXCEPT ![c].at = "lost"]
  /\ Resolve(c, "error")
  /\ UNCHANGED <<preflight, cache, receipt, calls, closed, ran, misread>>

\* beginShutdown: no new command is registered.
BeginShutdown ==
  /\ ~closed
  /\ closed' = TRUE
  /\ UNCHANGED <<command, preflight, cache, receipt, waiting, calls, faults, ran, answers, misread>>

-----------------------------------------------------------------------------
(* Properties.                                                             *)

\* The work of a command is run at most once, however often it is called, whether its
\* receipt was evicted from the cache, could not be read or could not be written.
WorkRunsOnce == \A c \in Ids : ran[c] <= 1

\* A result that a client was given is durable and is what every later call of the
\* command is answered, never a call with another signature - unless a receipt could
\* not be read; and no call waits for a promise that is gone.
AnswersAgree ==
  \A c \in Ids :
    /\ \A a \in answers :
         a.id = c /\ a.answer \in Results =>
           /\ receipt[c].sig = a.sig
           /\ receipt[c].result = a.answer \/ c \in misread
    /\ waiting[c] > 0 => command[c].at \in {"preflight", "work", "save"}

\* Commands are run once and answered alike, whatever is lost meanwhile.
CommandInvariant == TypeOK /\ WorkRunsOnce /\ AnswersAgree

=============================================================================
