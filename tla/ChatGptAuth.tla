----------------------------- MODULE ChatGptAuth -----------------------------
(***************************************************************************)
(* The saved ChatGPT credentials (provider/chatgpt_auth.ts).  The Core and *)
(* every Agent Worker resolve an account from the same directory: an       *)
(* expired token is refreshed under the file lock of its registration, and *)
(* the provider takes each refresh token once.  The Core's auth service    *)
(* signs accounts in and selects one of them.                              *)
(*                                                                         *)
(* A file is written by a rename, so a reader sees the old record or the   *)
(* new one.  A grant is named by the sign-in that obtained it, and so is   *)
(* the client id that the provider issues to a first sign-in.              *)
(***************************************************************************)
EXTENDS Integers

CONSTANTS
  Callers,             \* calls of resolve, of the Core or of a Worker
  Attempts,            \* sign-ins
  Registrations, Subjects, None,
  MaxToken, MaxFaults  \* bounds: refreshes of a grant, faults

ASSUME BoundsAssumption ==
  /\ MaxToken \in Nat /\ MaxFaults \in Nat
  /\ None \notin Callers \cup Attempts \cup Registrations
  /\ Callers \cap Attempts = {}

VARIABLES
  account,      \* accounts/<registration>.json
  accountLock,  \* who holds accounts/<registration>.lock
  registered,   \* registrations: the client id of each, or None
  selection,    \* selection.json
  hostId,       \* host.json: the sign-in that made it
  hostLock,
  issued,       \* the provider: the refresh token it accepts of each grant, or -1
  caller,       \* where a resolve awaits, its registration and the record it read
  attempt,      \* where a sign-in awaits, and what it knows
  faults,
  lost,         \* history: the grants whose newest token was saved by nobody, or revoked
  replaced,     \* history: the grants whose record a sign-in replaced
  cancelled     \* history: the sign-ins whose cancel was accepted

files == <<account, accountLock, registered, selection, hostId, hostLock>>
history == <<lost, replaced, cancelled>>
vars == <<files, issued, caller, attempt, faults, history>>

NoAccount == [subject |-> None, client |-> None, grant |-> None, token |-> 0,
              fresh |-> FALSE, direct |-> FALSE, reauth |-> FALSE]
Idle == [at |-> "idle", reg |-> None, read |-> NoAccount]
Unused == [at |-> "none", reg |-> None, client |-> None, host |-> None,
           subject |-> None]

Signed(s, client, grant, direct) ==
  [subject |-> s, client |-> client, grant |-> grant, token |-> 0,
   fresh |-> TRUE, direct |-> direct, reauth |-> ~direct]

Init ==
  /\ account = [r \in Registrations |-> NoAccount]
  /\ registered = [r \in Registrations |-> None]
  /\ selection = None /\ hostId = None
  /\ accountLock = [r \in Registrations |-> None] /\ hostLock = None
  /\ issued = [g \in Attempts |-> 0]
  /\ caller = [c \in Callers |-> Idle]
  /\ attempt = [a \in Attempts |-> Unused]
  /\ faults = 0
  /\ lost = {} /\ replaced = {} /\ cancelled = {}

Bound(r) == account[r] # NoAccount
Usable(x) == x.direct /\ ~x.reauth
Working == {"host", "hostWrite", "register", "exchange", "write", "look", "select"}

TypeOK ==
  /\ \A r \in Registrations :
       /\ account[r].subject \in Subjects \cup {None}
       /\ {account[r].client, account[r].grant} \subseteq Attempts \cup {None}
       /\ account[r].token \in 0 .. MaxToken
       /\ {account[r].fresh, account[r].direct, account[r].reauth} \subseteq BOOLEAN
       /\ accountLock[r] \in Callers \cup Attempts \cup {None}
       /\ registered[r] \in Attempts \cup {None}
  /\ selection \in Registrations \cup {None}
  /\ hostId \in Attempts \cup {None} /\ hostLock \in Attempts \cup {None}
  /\ issued \in [Attempts -> -1 .. MaxToken]
  /\ \A c \in Callers :
       /\ caller[c].at \in {"idle", "waiting", "requesting", "writing", "marking"}
       /\ caller[c].reg \in Registrations \cup {None}
  /\ \A a \in Attempts :
       /\ attempt[a].at \in Working \cup {"none", "pending", "over"}
       /\ attempt[a].reg \in Registrations \cup {None}
  /\ faults \in 0 .. MaxFaults
  /\ lost \subseteq Attempts /\ replaced \subseteq Attempts /\ cancelled \subseteq Attempts

Fault == faults < MaxFaults /\ faults' = faults + 1

-----------------------------------------------------------------------------
(* resolve.                                                                *)

signIn == <<registered, selection, hostId, hostLock, attempt, replaced, cancelled>>

Hold(r, holder) == accountLock' = [accountLock EXCEPT ![r] = holder]
Release(r) == Hold(r, None)
Returns(c) == caller' = [caller EXCEPT ![c] = Idle]

\* A usable record that has not expired is the answer at once; one that asks for a new
\* sign-in is refused at once.  The others wait for the lock.
Resolve(c, r) ==
  /\ caller[c] = Idle
  /\ Bound(r) /\ Usable(account[r]) /\ ~account[r].fresh
  /\ caller' = [caller EXCEPT ![c] = [Idle EXCEPT !.at = "waiting", !.reg = r, !.read = account[r]]]
  /\ UNCHANGED <<account, accountLock, issued, faults, lost, signIn>>

MutantLocked(c) ==
  LET r == caller[c].reg IN
  /\ caller[c].at = "waiting" /\ accountLock[r] = None
  /\ Hold(r, c)
  /\ caller' = [caller EXCEPT ![c].at = "requesting"]
  /\ UNCHANGED <<account, issued, faults, lost, signIn>>

\* The record is read again under the lock: somebody else may have refreshed it.
Locked(c) ==
  LET r == caller[c].reg IN
  /\ caller[c].at = "waiting" /\ accountLock[r] = None
  /\ IF Usable(account[r]) /\ ~account[r].fresh
     THEN /\ Hold(r, c)
          /\ caller' = [caller EXCEPT ![c].at = "requesting", ![c].read = account[r]]
     ELSE Returns(c) /\ UNCHANGED accountLock
  /\ UNCHANGED <<account, issued, faults, lost, signIn>>

\* The provider takes the newest token of a grant and replaces it; any other is an
\* invalid_grant.
ProviderAnswers(c) ==
  LET x == caller[c].read IN
  /\ caller[c].at = "requesting"
  /\ IF x.token = issued[x.grant]
     THEN /\ issued' = [issued EXCEPT ![x.grant] = @ + 1]
          /\ caller' = [caller EXCEPT ![c].at = "writing"]
     ELSE /\ caller' = [caller EXCEPT ![c].at = "marking"]
          /\ UNCHANGED issued
  /\ UNCHANGED <<account, accountLock, faults, lost, signIn>>

Refreshed(c, direct) ==
  LET r == caller[c].reg IN
  /\ caller[c].at = "writing"
  /\ account' = [account EXCEPT ![r] =
       [caller[c].read EXCEPT !.token = @ + 1, !.fresh = TRUE,
                              !.direct = direct, !.reauth = ~direct]]
  /\ Release(r) /\ Returns(c)
  /\ UNCHANGED <<issued, faults, lost, signIn>>

MutantMarked(c) ==
  LET r == caller[c].reg IN
  /\ caller[c].at = "marking"
  /\ account' = [account EXCEPT ![r] = [caller[c].read EXCEPT !.reauth = TRUE]]
  /\ Returns(c)
  /\ UNCHANGED <<accountLock, issued, faults, lost, signIn>>

\* After invalid_grant.
Marked(c) ==
  LET r == caller[c].reg IN
  /\ caller[c].at = "marking"
  /\ account' = [account EXCEPT ![r] = [caller[c].read EXCEPT !.reauth = TRUE]]
  /\ Release(r) /\ Returns(c)
  /\ UNCHANGED <<issued, faults, lost, signIn>>

\* The lock file cannot be opened, the request fails, its answer is lost, cannot be parsed
\* or reported, the record cannot be written, or the process dies, which frees its lock.
ResolveFails(c) ==
  /\ Fault
  /\ caller[c].at # "idle"
  /\ lost' = IF caller[c].at = "writing" THEN lost \cup {caller[c].read.grant} ELSE lost
  /\ accountLock' = [r \in Registrations |-> IF accountLock[r] = c THEN None ELSE accountLock[r]]
  /\ Returns(c)
  /\ UNCHANGED <<account, issued, signIn>>

-----------------------------------------------------------------------------
(* Signing in.                                                             *)

resolving == <<caller, issued, lost>>
Goes(a, at) == attempt' = [attempt EXCEPT ![a].at = at]
Over(a) == [Unused EXCEPT !.at = "over", !.reg = attempt[a].reg]
Ends(a) == attempt' = [attempt EXCEPT ![a] = Over(a)]

\* The registrations whose sign-in did not finish.
Unbound == {r \in Registrations : registered[r] # None /\ ~Bound(r)}

\* begin signs in again to a registration that is there, its account or not; else it takes
\* up an unbound one, and makes one if there is none.
Begin(a, r) ==
  /\ attempt[a].at = "none"
  /\ \/ Bound(r) \/ registered[r] # None
     \/ Unbound = {} /\ \A b \in Attempts : attempt[b].reg # r
  /\ attempt' = [attempt EXCEPT ![a].at = "host", ![a].reg = r,
                   ![a].client = IF Bound(r) THEN account[r].client ELSE registered[r]]
  /\ UNCHANGED <<files, resolving, faults, replaced, cancelled>>

\* readHostId under host.lock.
HostRead(a) ==
  /\ attempt[a].at = "host" /\ hostLock = None
  /\ IF hostId # None
     THEN /\ attempt' = [attempt EXCEPT ![a].at = "pending", ![a].host = hostId]
          /\ UNCHANGED hostLock
     ELSE Goes(a, "hostWrite") /\ hostLock' = a
  /\ UNCHANGED <<account, accountLock, registered, selection, hostId, resolving,
                 faults, replaced, cancelled>>

HostWritten(a) ==
  /\ attempt[a].at = "hostWrite"
  /\ hostId' = a /\ hostLock' = None
  /\ attempt' = [attempt EXCEPT ![a].at = "pending", ![a].host = a]
  /\ UNCHANGED <<account, accountLock, registered, selection, resolving,
                 faults, replaced, cancelled>>

\* complete, with the callback of a user who signed in as s.  The client id of a first
\* sign-in is issued to it; a later one must bring the client id it was begun with.
Complete(a, s) ==
  /\ attempt[a].at = "pending"
  /\ attempt' = [attempt EXCEPT ![a].at = "register", ![a].subject = s,
                                ![a].client = IF @ = None THEN a ELSE @]
  /\ UNCHANGED <<files, resolving, faults, replaced, cancelled>>

\* saveRegistration
Registered(a) ==
  LET r == attempt[a].reg IN
  /\ attempt[a].at = "register"
  /\ registered' = [registered EXCEPT ![r] = attempt[a].client]
  /\ Goes(a, "exchange")
  /\ UNCHANGED <<account, accountLock, selection, hostId, hostLock, resolving,
                 faults, replaced, cancelled>>

MutantLoginLocked(a) ==
  LET r == attempt[a].reg IN
  /\ attempt[a].at = "exchange"
  /\ IF Bound(r) /\ account[r].subject # attempt[a].subject THEN Ends(a) ELSE Goes(a, "write")
  /\ UNCHANGED <<files, resolving, faults, replaced, cancelled>>

\* The code is exchanged for tokens and the identity is verified, before the lock.  A
\* registration keeps the account it was first bound to.
LoginLocked(a) ==
  LET r == attempt[a].reg IN
  /\ attempt[a].at = "exchange" /\ accountLock[r] = None
  /\ IF Bound(r) /\ account[r].subject # attempt[a].subject
     THEN Ends(a) /\ UNCHANGED accountLock
     ELSE Goes(a, "write") /\ Hold(r, a)
  /\ UNCHANGED <<account, registered, selection, hostId, hostLock, resolving,
                 faults, replaced, cancelled>>

LoginWritten(a, direct) ==
  LET x == attempt[a]  r == x.reg IN
  /\ x.at = "write"
  /\ account' = [account EXCEPT ![r] = Signed(x.subject, x.client, a, direct)]
  /\ replaced' = replaced \cup ({account[r].grant} \ {None})
  /\ Release(r) /\ Goes(a, "look")
  /\ UNCHANGED <<registered, selection, hostId, hostLock, resolving,
                 faults, cancelled>>

\* The first account is selected, in two steps.
Looks(a) ==
  /\ attempt[a].at = "look"
  /\ IF selection = None THEN Goes(a, "select") ELSE Ends(a)
  /\ UNCHANGED <<files, resolving, faults, replaced, cancelled>>

Selects(a) ==
  /\ attempt[a].at = "select"
  /\ selection' = attempt[a].reg /\ Ends(a)
  /\ UNCHANGED <<account, accountLock, registered, hostId, hostLock, resolving,
                 faults, replaced, cancelled>>

Freed(lock, S) == IF lock \in S THEN None ELSE lock

Drops(S) ==
  /\ attempt' = [a \in Attempts |-> IF a \in S THEN Over(a) ELSE attempt[a]]
  /\ accountLock' = [r \in Registrations |-> Freed(accountLock[r], S)]
  /\ hostLock' = Freed(hostLock, S)

\* An await of begin or complete throws.
LoginFails(a) ==
  /\ Fault /\ attempt[a].at \in Working
  /\ Drops({a})
  /\ UNCHANGED <<account, registered, selection, hostId, resolving,
                 replaced, cancelled>>

\* The Core dies and is started again: its attempts were in memory.
CoreDies ==
  /\ Fault
  /\ Drops({a \in Attempts : attempt[a].at # "none"})
  /\ UNCHANGED <<account, registered, selection, hostId, resolving,
                 replaced, cancelled>>

\* cancel throws while the sign-in is being completed.  It accepts every other: one that
\* is over, completed or not, is not known any more and stays as it is.
Cancel(a) ==
  /\ attempt[a].at \in {"pending", "over"}
  /\ Ends(a)
  /\ cancelled' = cancelled \cup {a}
  /\ UNCHANGED <<files, resolving, faults, replaced>>

Select(r) ==
  /\ Bound(r) /\ selection # r
  /\ selection' = r
  /\ UNCHANGED <<account, accountLock, registered, hostId, hostLock, resolving,
                 attempt, faults, replaced, cancelled>>

-----------------------------------------------------------------------------
(* Time and the provider.                                                  *)

Expire(r) ==
  /\ Usable(account[r]) /\ account[r].fresh /\ account[r].token < MaxToken
  /\ account' = [account EXCEPT ![r].fresh = FALSE]
  /\ UNCHANGED <<accountLock, issued, caller, faults, lost, signIn>>

\* The user or the provider withdraws a grant.
Revoke(g) ==
  /\ Fault /\ issued[g] # -1 /\ \E r \in Registrations : account[r].grant = g
  /\ issued' = [issued EXCEPT ![g] = -1]
  /\ lost' = lost \cup {g}
  /\ UNCHANGED <<account, accountLock, caller, signIn>>

-----------------------------------------------------------------------------

ResolveGoesOn(c) ==
  ProviderAnswers(c) \/ (\E direct \in BOOLEAN : Refreshed(c, direct)) \/ Marked(c)
LoginGoesOn(a) ==
  \/ HostWritten(a) \/ Registered(a) \/ (\E direct \in BOOLEAN : LoginWritten(a, direct))
  \/ Looks(a) \/ Selects(a)

Next ==
  \/ \E c \in Callers :
       (\E r \in Registrations : Resolve(c, r)) \/ Locked(c) \/ ResolveGoesOn(c) \/ ResolveFails(c)
  \/ \E a \in Attempts :
       \/ \E r \in Registrations : Begin(a, r)
       \/ \E s \in Subjects : Complete(a, s)
       \/ HostRead(a) \/ LoginLocked(a) \/ LoginGoesOn(a) \/ LoginFails(a) \/ Cancel(a)
  \/ \E r \in Registrations : Select(r) \/ Expire(r)
  \/ \E g \in Attempts : Revoke(g)
  \/ CoreDies

Spec == Init /\ [][Next]_vars

System ==
  \/ \E c \in Callers : Locked(c) \/ ResolveGoesOn(c)
  \/ \E a \in Attempts : HostRead(a) \/ LoginLocked(a) \/ LoginGoesOn(a)

\* Requests to the provider are answered or fail, files are written, and a lock that is
\* free is granted to somebody who waits for it.
FairSpec == Spec /\ WF_vars(System)

-----------------------------------------------------------------------------
(* Properties.                                                             *)

\* The refresh token saved is the one the provider accepts, and an account is marked for
\* a new sign-in only when its grant was withdrawn, did not cover the plan, or its newest
\* token was lost: two processes that find the same token expired never spend it twice.
TokensAreSpentOnce ==
  \A r \in Registrations : LET x == account[r] IN
    Bound(r) /\ x.grant \notin lost =>
      /\ x.reauth => ~x.direct
      /\ \/ x.token = issued[x.grant]
         \/ \E c \in Callers : accountLock[r] = c /\ caller[c].at = "writing"

\* Every sign-in tells the provider the same host, whatever raced to make it; and the
\* account that is selected exists.
SignInsAgree ==
  /\ \A a \in Attempts : attempt[a].host \in {None, hostId}
  /\ selection # None => Bound(selection)

\* No two processes work on one record, and what is saved agrees with what they know.
CredentialInvariant == TypeOK /\ TokensAreSpentOnce /\ SignInsAgree

\* A registration stays with the account and the client it was bound to, a refresh never
\* puts back an older token, and never the tokens a sign-in has replaced meanwhile.  From
\* an accepted cancel on, a sign-in binds nothing; what it has bound before stays.
RecordsMoveForward ==
  [][\A r \in Registrations :
       /\ Bound(r) =>
            /\ account'[r].subject = account[r].subject
            /\ account'[r].client = account[r].client /\ registered'[r] = account[r].client
            /\ account'[r].grant \notin replaced
            /\ account'[r].grant = account[r].grant => account'[r].token >= account[r].token
       /\ account'[r].grant # account[r].grant => account'[r].grant \notin cancelled
       /\ registered'[r] # registered[r] => registered'[r] \notin cancelled]_vars

\* Every resolve and every begin and complete ends, also when the process that held the
\* lock died: again and again nobody waits.
AuthConverges ==
  []<>(/\ \A c \in Callers : caller[c] = Idle
       /\ \A a \in Attempts : attempt[a].at \notin Working)

=============================================================================
