-------------------------- MODULE ChatGptAuth_proofs --------------------------
(***************************************************************************)
(* Proofs about ChatGptAuth, for any number of processes, sign-ins,        *)
(* registrations, refreshes and faults.                                    *)
(***************************************************************************)
EXTENDS ChatGptAuth, TLAPS

-----------------------------------------------------------------------------
(* The shape of the state.                                                 *)

Records ==
  [subject : Subjects \cup {None}, client : Attempts \cup {None},
   grant : Attempts \cup {None}, token : 0 .. MaxToken,
   fresh : BOOLEAN, direct : BOOLEAN, reauth : BOOLEAN]

Calls == [at : {"idle", "waiting", "requesting", "writing", "marking"},
          reg : Registrations \cup {None}, read : Records]

SignIns == [at : Working \cup {"none", "pending", "over"}, reg : Registrations \cup {None},
            client : Attempts \cup {None}, host : Attempts \cup {None},
            subject : Subjects \cup {None}]

\* What TypeOK says of the fields, as sets of functions and records.
Shapes ==
  /\ account \in [Registrations -> Records]
  /\ accountLock \in [Registrations -> Callers \cup Attempts \cup {None}]
  /\ registered \in [Registrations -> Attempts \cup {None}]
  /\ selection \in Registrations \cup {None}
  /\ hostId \in Attempts \cup {None} /\ hostLock \in Attempts \cup {None}
  /\ issued \in [Attempts -> -1 .. MaxToken]
  /\ caller \in [Callers -> Calls]
  /\ attempt \in [Attempts -> SignIns]
  /\ faults \in 0 .. MaxFaults
  /\ lost \subseteq Attempts /\ replaced \subseteq Attempts /\ cancelled \subseteq Attempts

-----------------------------------------------------------------------------
(* The locks.                                                              *)

Holding == {"requesting", "writing", "marking"}

\* A caller past its wait owns the lock of its registration, and nobody has changed the
\* expired record it read there.
CallersOwnLocks ==
  /\ \A c \in Callers : caller[c].at # "idle" => caller[c].reg \in Registrations
  /\ \A c \in Callers : caller[c].at \in Holding =>
       /\ accountLock[caller[c].reg] = c
       /\ account[caller[c].reg] = caller[c].read
       /\ Usable(caller[c].read) /\ ~caller[c].read.fresh
  /\ \A r \in Registrations : accountLock[r] \in Callers =>
       caller[accountLock[r]].at \in Holding /\ caller[accountLock[r]].reg = r

\* A sign-in owns an account's lock while it writes the account, and the host's lock
\* while it makes the host.
SignInsOwnLocks ==
  /\ \A a \in Attempts : attempt[a].at \notin {"none", "over"} => attempt[a].reg \in Registrations
  /\ \A a \in Attempts : attempt[a].at = "write" => accountLock[attempt[a].reg] = a
  /\ \A r \in Registrations : accountLock[r] \in Attempts =>
       attempt[accountLock[r]].at = "write" /\ attempt[accountLock[r]].reg = r
  /\ \A a \in Attempts : attempt[a].at = "hostWrite" <=> hostLock = a
  /\ hostLock # None => hostId = None

-----------------------------------------------------------------------------
(* The tokens.                                                             *)

\* How far the provider is ahead of what is saved.
TokensFollowProvider ==
  /\ \A r \in Registrations : Bound(r) /\ ~account[r].fresh => account[r].token < MaxToken
  /\ \A c \in Callers : caller[c].at = "writing" =>
       \/ caller[c].read.grant \in lost
       \/ issued[caller[c].read.grant] = caller[c].read.token + 1
  /\ \A c \in Callers : caller[c].at = "marking" => caller[c].read.grant \in lost

\* The sign-ins whose tokens are not saved yet.
Unsaved == {"none", "host", "hostWrite", "pending", "register", "exchange", "write"}

\* A grant is saved once, by its own sign-in, with the registration of that sign-in.
GrantsAreOwned ==
  /\ \A r \in Registrations : Bound(r) =>
       /\ account[r].grant \in Attempts \ replaced
       /\ attempt[account[r].grant].reg = r
       /\ attempt[account[r].grant].at \notin Unsaved
  /\ \A g \in replaced : attempt[g].at \notin Unsaved
  /\ \A a \in Attempts : attempt[a].at \in Unsaved => issued[a] = 0

-----------------------------------------------------------------------------
(* The registrations.                                                      *)

\* What a sign-in knows is what is saved, from begin to its end.
SignInsKnowTheirRegistration ==
  /\ \A r \in Registrations : Bound(r) =>
       account[r].client \in Attempts /\ registered[r] = account[r].client
  /\ \A r \in Registrations : registered[r] = None =>
       \A a, b \in Attempts : attempt[a].reg = r /\ attempt[b].reg = r => a = b
  /\ \A a \in Attempts :
       /\ attempt[a].at \in {"host", "hostWrite", "pending"} =>
            attempt[a].client = registered[attempt[a].reg]
       /\ attempt[a].at = "register" =>
            /\ attempt[a].client # None
            /\ registered[attempt[a].reg] \in {None, attempt[a].client}
            /\ registered[attempt[a].reg] = None => attempt[a].client = a
       /\ attempt[a].at \in {"exchange", "write", "look", "select"} =>
            attempt[a].client # None /\ registered[attempt[a].reg] = attempt[a].client
       /\ attempt[a].at = "write" /\ Bound(attempt[a].reg) =>
            account[attempt[a].reg].subject = attempt[a].subject
       /\ attempt[a].at \in {"look", "select"} => Bound(attempt[a].reg)

\* What was cancelled does not go on.
CancelledAreOver == \A a \in cancelled : attempt[a].at = "over"

CredentialsInduct ==
  /\ Shapes /\ CallersOwnLocks /\ SignInsOwnLocks
  /\ TokensFollowProvider /\ TokensAreSpentOnce /\ GrantsAreOwned
  /\ SignInsKnowTheirRegistration /\ CancelledAreOver /\ SignInsAgree


-----------------------------------------------------------------------------
(* What a step does, without EXCEPT.                                       *)

OtherCalls(c) == \A d \in Callers \ {c} : caller'[d] = caller[d]
CallEnds(c) == OtherCalls(c) /\ caller'[c].at = "idle"
CallMoves(c, at) ==
  OtherCalls(c) /\ caller'[c].at = at /\ caller'[c].reg = caller[c].reg
                /\ caller'[c].read = caller[c].read

OtherSignIns(a) == \A b \in Attempts \ {a} : attempt'[b] = attempt[b]
SignInKeeps(a) ==
  /\ attempt'[a].reg = attempt[a].reg /\ attempt'[a].client = attempt[a].client
  /\ attempt'[a].host = attempt[a].host /\ attempt'[a].subject = attempt[a].subject
SignInMoves(a, at) == OtherSignIns(a) /\ SignInKeeps(a) /\ attempt'[a].at = at
SignInEnds(a) ==
  OtherSignIns(a) /\ attempt'[a].at = "over" /\ attempt'[a].reg = attempt[a].reg
                  /\ attempt'[a].client = None /\ attempt'[a].host = None
SignInsDrop(S) ==
  \A a \in Attempts :
    /\ a \notin S => attempt'[a] = attempt[a]
    /\ a \in S => /\ attempt'[a].at = "over" /\ attempt'[a].reg = attempt[a].reg
                  /\ attempt'[a].client = None /\ attempt'[a].host = None

LockGoesTo(r, holder) ==
  accountLock'[r] = holder /\ \A q \in Registrations \ {r} : accountLock'[q] = accountLock[q]
RecordKept(r, x) ==
  account'[r].subject = x.subject /\ account'[r].client = x.client /\ account'[r].grant = x.grant
OtherRecords(r) == \A q \in Registrations \ {r} : account'[q] = account[q]

\* What RecordsMoveForward says of one step.
RecordsForward ==
  \A r \in Registrations :
    /\ Bound(r) =>
         /\ account'[r].subject = account[r].subject
         /\ account'[r].client = account[r].client /\ registered'[r] = account[r].client
         /\ account'[r].grant \notin replaced
         /\ account'[r].grant = account[r].grant => account'[r].token >= account[r].token
    /\ account'[r].grant # account[r].grant => account'[r].grant \notin cancelled
    /\ registered'[r] # registered[r] => registered'[r] \notin cancelled

\* What tells an account from NoAccount.
LEMMA NoAccountFields ==
  NoAccount.grant = None /\ NoAccount.client = None /\ ~NoAccount.fresh /\ ~NoAccount.direct
  BY DEF NoAccount

\* The types of single fields.
LEMMA FieldTypes ==
  ASSUME Shapes
  PROVE  /\ replaced \subseteq Attempts /\ cancelled \subseteq Attempts
         /\ \A r \in Registrations : registered[r] \in Attempts \cup {None}
         /\ \A r \in Registrations : account[r].token \in Nat /\ account[r].fresh \in BOOLEAN
         /\ \A a \in Attempts : attempt[a].client \in Attempts \cup {None}
         /\ \A a \in Attempts : attempt[a].host \in Attempts \cup {None}
         /\ \A g \in Attempts : issued[g] \in Int
         /\ \A c \in Callers : caller[c].read.token \in Nat
         /\ selection \in Registrations \cup {None} /\ MaxToken \in Nat
  BY BoundsAssumption DEF Shapes, Records, Calls, SignIns

\* Goes, Ends, Returns, Hold and Drops without EXCEPT.
LEMMA GoesMoves ==
  ASSUME Shapes, NEW a \in Attempts, NEW at \in Working \cup {"pending"}, Goes(a, at)
  PROVE  SignInMoves(a, at) /\ attempt' \in [Attempts -> SignIns]
  <1>1. SignInMoves(a, at)
    BY DEF Shapes, SignIns, Goes, SignInMoves, OtherSignIns, SignInKeeps
  <1>2. QED
    BY <1>1 DEF Shapes, SignIns, Goes

\* A sign-in that ends keeps its registration and forgets the rest.
LEMMA EndsSignIn ==
  ASSUME Shapes, NEW a \in Attempts, Ends(a)
  PROVE  SignInEnds(a) /\ attempt' \in [Attempts -> SignIns]
  <1>1. SignInEnds(a)
    BY DEF Shapes, SignIns, Ends, Over, Unused, SignInEnds, OtherSignIns
  <1>2. Over(a) \in SignIns
    BY DEF Shapes, SignIns, Over, Unused
  <1>3. QED
    BY <1>1, <1>2 DEF Shapes, Ends

\* A resolve that returns is idle again, and no other is touched.
LEMMA ReturnsEnds ==
  ASSUME Shapes, NEW c \in Callers, Returns(c)
  PROVE  CallEnds(c) /\ caller' \in [Callers -> Calls]
  <1>1. Idle \in Calls
    BY BoundsAssumption DEF Idle, Calls, Records, NoAccount
  <1>2. QED
    BY <1>1 DEF Shapes, Returns, Idle, CallEnds, OtherCalls

\* One lock changes hands, the others stay.
LEMMA HoldGoes ==
  ASSUME Shapes, NEW r \in Registrations, NEW holder \in Callers \cup Attempts \cup {None},
         Hold(r, holder)
  PROVE  /\ LockGoesTo(r, holder)
         /\ accountLock' \in [Registrations -> Callers \cup Attempts \cup {None}]
  BY DEF Shapes, Hold, LockGoesTo

\* The sign-ins of a process that throws or dies are over, and their locks are free.
LEMMA DropsSignIns ==
  ASSUME Shapes, NEW S \in SUBSET Attempts, Drops(S)
  PROVE  /\ SignInsDrop(S) /\ attempt' \in [Attempts -> SignIns]
         /\ accountLock' \in [Registrations -> Callers \cup Attempts \cup {None}]
         /\ \A r \in Registrations :
              accountLock'[r] = IF accountLock[r] \in S THEN None ELSE accountLock[r]
         /\ hostLock' = IF hostLock \in S THEN None ELSE hostLock
         /\ hostLock' \in Attempts \cup {None}
  <1>1. SignInsDrop(S)
    BY DEF Shapes, SignIns, Drops, Over, Unused, SignInsDrop
  <1>2. \A a \in Attempts : Over(a) \in SignIns
    BY DEF Shapes, SignIns, Over, Unused
  <1>3. attempt' \in [Attempts -> SignIns]
    BY <1>2 DEF Shapes, Drops
  <1>4. QED
    BY <1>1, <1>3 DEF Shapes, Drops, Freed

-----------------------------------------------------------------------------
(* Every action keeps the invariant.                                       *)

\* A resolve that has to wait takes no lock and changes no file.
LEMMA ResolveKeeps ==
  ASSUME CredentialsInduct, NEW c \in Callers, NEW r \in Registrations, Resolve(c, r)
  PROVE  CredentialsInduct' /\ RecordsForward
  <1> USE BoundsAssumption DEF CredentialsInduct
  <1>1. /\ caller[c].at = "idle" /\ caller'[c].at = "waiting" /\ caller'[c].reg = r
        /\ OtherCalls(c)
        /\ UNCHANGED <<account, accountLock, issued, faults, lost>>
        /\ UNCHANGED <<registered, selection, hostId, hostLock, attempt, replaced, cancelled>>
    BY DEF Shapes, Records, Calls, SignIns, NoAccount, CallersOwnLocks, SignInsOwnLocks, Holding,
       Resolve, Idle, signIn, OtherCalls
  <1>2. Shapes'
    <2>1. caller' \in [Callers -> Calls]
      <3>1. Idle \in Calls
        BY BoundsAssumption DEF Idle, Calls, Records, NoAccount
      <3>2. \A x \in Calls, y \in Records :
              [x EXCEPT !.at = "waiting", !.reg = r, !.read = y] \in Calls
        BY DEF Calls
      <3>3. [Idle EXCEPT !.at = "waiting", !.reg = r, !.read = account[r]] \in Calls
        BY <3>1, <3>2 DEF Shapes
      <3>4. QED
        BY <3>3 DEF Resolve, Shapes
    <2>2. QED
      BY <1>1, <2>1 DEF Shapes
  <1>3. CallersOwnLocks' /\ SignInsOwnLocks'
    BY <1>1, FieldTypes DEF CallersOwnLocks, SignInsOwnLocks, Holding, Usable, Working, OtherCalls
  <1>4. TokensFollowProvider'
    BY <1>1, FieldTypes, NoAccountFields DEF CallersOwnLocks, SignInsOwnLocks,
       TokensFollowProvider, TokensAreSpentOnce, GrantsAreOwned, Holding, Bound, Usable, Unsaved,
       OtherCalls
  <1>5. TokensAreSpentOnce'
    BY <1>1, FieldTypes, NoAccountFields DEF CallersOwnLocks, SignInsOwnLocks,
       TokensFollowProvider, TokensAreSpentOnce, GrantsAreOwned, Holding, Bound, Usable, Unsaved,
       OtherCalls
  <1>6. GrantsAreOwned'
    BY <1>1, FieldTypes, NoAccountFields DEF CallersOwnLocks, SignInsOwnLocks, GrantsAreOwned,
       Holding, Bound, Usable, Unsaved, Working, OtherCalls
  <1>7. SignInsKnowTheirRegistration' /\ CancelledAreOver'
    BY <1>1, FieldTypes, NoAccountFields DEF CallersOwnLocks, SignInsOwnLocks, GrantsAreOwned,
       SignInsKnowTheirRegistration, Holding, Bound, Usable, Unsaved, CancelledAreOver,
       Working, OtherCalls
  <1>8. SignInsAgree' /\ RecordsForward
    BY <1>1, FieldTypes, NoAccountFields DEF CallersOwnLocks, SignInsOwnLocks, SignInsAgree,
       SignInsKnowTheirRegistration, GrantsAreOwned, CancelledAreOver, Bound, Unsaved,
       Holding, Usable, Working, RecordsForward, OtherCalls
  <1>9. QED
    BY <1>2, <1>3, <1>4, <1>5, <1>6, <1>7, <1>8

\* Whoever gets the lock reads the record under it, and nobody else writes it from then on.
LEMMA LockedKeeps ==
  ASSUME CredentialsInduct, NEW c \in Callers, Locked(c)
  PROVE  CredentialsInduct' /\ RecordsForward
  <1> USE BoundsAssumption DEF CredentialsInduct
  <1>1. /\ caller[c].at = "waiting" /\ accountLock[caller[c].reg] = None
        /\ \/ /\ Usable(account[caller[c].reg]) /\ ~account[caller[c].reg].fresh
              /\ LockGoesTo(caller[c].reg, c)
              /\ OtherCalls(c) /\ caller'[c].at = "requesting"
              /\ caller'[c].reg = caller[c].reg /\ caller'[c].read = account[caller[c].reg]
           \/ CallEnds(c) /\ UNCHANGED accountLock
        /\ UNCHANGED <<account, issued, faults, lost>>
        /\ UNCHANGED <<registered, selection, hostId, hostLock, attempt, replaced, cancelled>>
    <2>1. caller[c].at = "waiting" /\ caller[c].reg \in Registrations
      BY DEF Locked, CallersOwnLocks
    <2>2. CASE Usable(account[caller[c].reg]) /\ ~account[caller[c].reg].fresh
      <3>1. caller' = [caller EXCEPT ![c].at = "requesting", ![c].read = account[caller[c].reg]]
        BY <2>2 DEF Locked
      <3>2. /\ OtherCalls(c) /\ caller'[c].at = "requesting"
            /\ caller'[c].reg = caller[c].reg /\ caller'[c].read = account[caller[c].reg]
        BY <3>1 DEF Shapes, Calls, OtherCalls
      <3>3. /\ accountLock[caller[c].reg] = None /\ LockGoesTo(caller[c].reg, c)
            /\ UNCHANGED <<account, issued, faults, lost, registered, selection, hostId, hostLock,
                          attempt, replaced, cancelled>>
        BY <2>1, <2>2, HoldGoes DEF Locked, signIn
      <3>4. QED
        BY <2>1, <2>2, <3>2, <3>3
    <2>3. CASE ~(Usable(account[caller[c].reg]) /\ ~account[caller[c].reg].fresh)
      BY <2>3, ReturnsEnds DEF Locked, signIn
    <2>4. QED
      BY <2>2, <2>3
  <1>2. Shapes'
    <2>1. caller' \in [Callers -> Calls]
      <3>1. CASE Usable(account[caller[c].reg]) /\ ~account[caller[c].reg].fresh
        <4>1. account[caller[c].reg] \in Records
          BY <1>1 DEF CallersOwnLocks, Shapes
        <4>2. \A x \in Calls, y \in Records : [x EXCEPT !.at = "requesting", !.read = y] \in Calls
          BY DEF Calls
        <4>3. caller' = [caller EXCEPT ![c] =
                           [caller[c] EXCEPT !.at = "requesting", !.read = account[caller[c].reg]]]
          BY <3>1 DEF Locked
        <4>4. QED
          BY <4>1, <4>2, <4>3 DEF Shapes
      <3>2. CASE ~(Usable(account[caller[c].reg]) /\ ~account[caller[c].reg].fresh)
        BY <3>2, ReturnsEnds DEF Locked
      <3>3. QED
        BY <3>1, <3>2
    <2>2. accountLock' \in [Registrations -> Callers \cup Attempts \cup {None}]
      BY HoldGoes, ReturnsEnds DEF Shapes, Records, Calls, SignIns, Working, Fault,
         CallersOwnLocks, SignInsOwnLocks, Holding, Locked, Idle, signIn
    <2>3. QED
      BY <1>1, <2>1, <2>2 DEF Shapes
  <1>3. CallersOwnLocks' /\ SignInsOwnLocks'
    BY <1>1, FieldTypes DEF CallersOwnLocks, SignInsOwnLocks, Holding, Usable, Working,
       OtherCalls, CallEnds, LockGoesTo
  <1>4. TokensFollowProvider'
    BY <1>1, FieldTypes, NoAccountFields DEF CallersOwnLocks, SignInsOwnLocks,
       TokensFollowProvider, TokensAreSpentOnce, GrantsAreOwned, Holding, Bound, Usable, Unsaved,
       OtherCalls, CallEnds, LockGoesTo
  <1>5. TokensAreSpentOnce'
    BY <1>1, FieldTypes, NoAccountFields DEF CallersOwnLocks, SignInsOwnLocks,
       TokensFollowProvider, TokensAreSpentOnce, GrantsAreOwned, Holding, Bound, Usable, Unsaved,
       OtherCalls, CallEnds, LockGoesTo
  <1>6. GrantsAreOwned'
    BY <1>1, FieldTypes, NoAccountFields DEF CallersOwnLocks, SignInsOwnLocks, GrantsAreOwned,
       Holding, Bound, Usable, Unsaved, Working, OtherCalls, CallEnds, LockGoesTo
  <1>7. SignInsKnowTheirRegistration' /\ CancelledAreOver'
    BY <1>1, FieldTypes, NoAccountFields DEF CallersOwnLocks, SignInsOwnLocks, GrantsAreOwned,
       SignInsKnowTheirRegistration, Holding, Bound, Usable, Unsaved, CancelledAreOver,
       Working, OtherCalls, CallEnds, LockGoesTo
  <1>8. SignInsAgree' /\ RecordsForward
    BY <1>1, FieldTypes, NoAccountFields DEF CallersOwnLocks, SignInsOwnLocks, SignInsAgree,
       SignInsKnowTheirRegistration, GrantsAreOwned, CancelledAreOver, Bound, Unsaved,
       Holding, Usable, Working, RecordsForward, OtherCalls, CallEnds, LockGoesTo
  <1>9. QED
    BY <1>2, <1>3, <1>4, <1>5, <1>6, <1>7, <1>8

\* The provider is asked by the holder of the lock, so it takes the token that is saved.
LEMMA ProviderAnswersKeeps ==
  ASSUME CredentialsInduct, NEW c \in Callers, ProviderAnswers(c)
  PROVE  CredentialsInduct' /\ RecordsForward
  <1> USE BoundsAssumption DEF CredentialsInduct
  <1>1. /\ caller[c].at = "requesting"
        /\ \/ /\ caller[c].read.token = issued[caller[c].read.grant]
              /\ issued'[caller[c].read.grant] = issued[caller[c].read.grant] + 1
              /\ \A g \in Attempts \ {caller[c].read.grant} : issued'[g] = issued[g]
              /\ CallMoves(c, "writing")
           \/ /\ caller[c].read.token # issued[caller[c].read.grant]
              /\ CallMoves(c, "marking") /\ UNCHANGED issued
        /\ UNCHANGED <<account, accountLock, faults, lost>>
        /\ UNCHANGED <<registered, selection, hostId, hostLock, attempt, replaced, cancelled>>
    <2>1. caller[c].at = "requesting" /\ caller[c].read.grant \in Attempts
      BY NoAccountFields DEF ProviderAnswers, CallersOwnLocks, Holding, Usable, Bound,
         GrantsAreOwned
    <2>2. CASE caller[c].read.token = issued[caller[c].read.grant]
      BY <2>1, <2>2 DEF ProviderAnswers, Shapes, Calls, signIn, OtherCalls, CallMoves
    <2>3. CASE caller[c].read.token # issued[caller[c].read.grant]
      BY <2>1, <2>3 DEF ProviderAnswers, Shapes, Calls, signIn, OtherCalls, CallMoves
    <2>4. QED
      BY <2>2, <2>3
  <1>2. Shapes'
    <2>1. caller' \in [Callers -> Calls]
      <3>1. \A at \in {"writing", "marking"}, x \in Calls : [x EXCEPT !.at = at] \in Calls
        BY DEF Calls
      <3>2. PICK at \in {"writing", "marking"} :
              caller' = [caller EXCEPT ![c] = [caller[c] EXCEPT !.at = at]]
        BY DEF ProviderAnswers
      <3>3. QED
        BY <3>1, <3>2 DEF Shapes
    <2>2. issued' \in [Attempts -> -1 .. MaxToken]
      <3>1. Bound(caller[c].reg) /\ caller[c].read.token < MaxToken
        BY <1>1, NoAccountFields DEF CallersOwnLocks, Holding, Usable, Bound, TokensFollowProvider
      <3>2. caller[c].read.token + 1 \in -1 .. MaxToken
        BY <3>1, FieldTypes
      <3>3. CASE caller[c].read.token = issued[caller[c].read.grant]
        <4>1. issued' = [issued EXCEPT ![caller[c].read.grant] = caller[c].read.token + 1]
          BY <3>3 DEF ProviderAnswers
        <4>2. QED
          BY <3>2, <4>1 DEF Shapes
      <3>4. CASE caller[c].read.token # issued[caller[c].read.grant]
        BY <3>4 DEF ProviderAnswers, Shapes
      <3>5. QED
        BY <3>3, <3>4
    <2>3. QED
      BY <1>1, <2>1, <2>2 DEF Shapes
  <1>3. CallersOwnLocks' /\ SignInsOwnLocks'
    BY <1>1, FieldTypes DEF CallersOwnLocks, SignInsOwnLocks, Holding, Usable, Working, CallMoves,
       OtherCalls
  <1>4. TokensFollowProvider'
    BY <1>1, FieldTypes, NoAccountFields DEF CallersOwnLocks, SignInsOwnLocks,
       TokensFollowProvider, TokensAreSpentOnce, GrantsAreOwned, Holding, Bound, Usable, Unsaved,
       CallMoves, OtherCalls
  <1>5. TokensAreSpentOnce'
    BY <1>1, FieldTypes, NoAccountFields DEF CallersOwnLocks, SignInsOwnLocks,
       TokensFollowProvider, TokensAreSpentOnce, GrantsAreOwned, Holding, Bound, Usable, Unsaved,
       CallMoves, OtherCalls
  <1>6. GrantsAreOwned'
    BY <1>1, FieldTypes, NoAccountFields DEF CallersOwnLocks, SignInsOwnLocks, GrantsAreOwned,
       Holding, Bound, Usable, Unsaved, Working, CallMoves, OtherCalls
  <1>7. SignInsKnowTheirRegistration' /\ CancelledAreOver'
    BY <1>1, FieldTypes, NoAccountFields DEF CallersOwnLocks, SignInsOwnLocks, GrantsAreOwned,
       SignInsKnowTheirRegistration, Holding, Bound, Usable, Unsaved, CancelledAreOver,
       Working, CallMoves, OtherCalls
  <1>8. SignInsAgree' /\ RecordsForward
    BY <1>1, FieldTypes, NoAccountFields DEF CallersOwnLocks, SignInsOwnLocks, SignInsAgree,
       SignInsKnowTheirRegistration, GrantsAreOwned, CancelledAreOver, Bound, Unsaved,
       Holding, Usable, Working, RecordsForward, CallMoves, OtherCalls
  <1>9. QED
    BY <1>2, <1>3, <1>4, <1>5, <1>6, <1>7, <1>8

\* The record is written with the token the provider has issued, before the lock is freed.
LEMMA RefreshedKeeps ==
  ASSUME CredentialsInduct, NEW c \in Callers, NEW direct \in BOOLEAN, Refreshed(c, direct)
  PROVE  CredentialsInduct' /\ RecordsForward
  <1> USE BoundsAssumption DEF CredentialsInduct
  <1>1. /\ caller[c].at = "writing" /\ CallEnds(c) /\ LockGoesTo(caller[c].reg, None)
        /\ RecordKept(caller[c].reg, caller[c].read)
        /\ account'[caller[c].reg].token = caller[c].read.token + 1
        /\ account'[caller[c].reg].fresh
        /\ account'[caller[c].reg].direct = direct /\ account'[caller[c].reg].reauth = ~direct
        /\ OtherRecords(caller[c].reg)
        /\ UNCHANGED <<issued, faults, lost>>
        /\ UNCHANGED <<registered, selection, hostId, hostLock, attempt, replaced, cancelled>>
    BY HoldGoes, ReturnsEnds DEF Shapes, Records, Calls, SignIns, NoAccount, CallersOwnLocks,
       SignInsOwnLocks, Holding, Refreshed, Release, signIn, OtherRecords, RecordKept
  <1>2. Shapes'
    <2>1. account' \in [Registrations -> Records]
      <3>1. Bound(caller[c].reg) /\ caller[c].read.token < MaxToken /\ caller[c].read \in Records
        BY <1>1, NoAccountFields DEF CallersOwnLocks, Holding, Usable, Bound,
           TokensFollowProvider, Shapes, Calls
      <3>2. caller[c].read.token + 1 \in 0 .. MaxToken
        BY <3>1, BoundsAssumption DEF Records
      <3>3. \A x \in Records, n \in 0 .. MaxToken, b \in BOOLEAN :
              [x EXCEPT !.token = n, !.fresh = TRUE, !.direct = direct, !.reauth = b] \in Records
        BY DEF Records
      <3>4. account' = [account EXCEPT ![caller[c].reg] =
              [caller[c].read EXCEPT !.token = caller[c].read.token + 1, !.fresh = TRUE,
                                     !.direct = direct, !.reauth = ~direct]]
        BY DEF Refreshed
      <3>5. (~direct) \in BOOLEAN
        OBVIOUS
      <3>6. QED
        BY <3>1, <3>2, <3>3, <3>4, <3>5 DEF Shapes
    <2>2. accountLock' \in [Registrations -> Callers \cup Attempts \cup {None}]
      BY HoldGoes, ReturnsEnds DEF Shapes, Records, Calls, SignIns, Working, Fault,
         CallersOwnLocks, SignInsOwnLocks, Holding, Refreshed, Release, signIn
    <2>3. caller' \in [Callers -> Calls]
      BY HoldGoes, ReturnsEnds DEF Shapes, Records, Calls, SignIns, Working, Fault,
         CallersOwnLocks, SignInsOwnLocks, Holding, Refreshed, Release, signIn
    <2>4. QED
      BY <1>1, <2>1, <2>2, <2>3 DEF Shapes
  <1>3. \A r \in Registrations :
          /\ Bound(r) <=> Bound(r)'
          /\ RecordKept(r, account[r])
    BY <1>1, NoAccountFields DEF CallersOwnLocks, GrantsAreOwned, Holding, Usable, Bound,
       RecordKept, OtherRecords
  <1>4. CallersOwnLocks' /\ SignInsOwnLocks'
    BY <1>1, <1>3, FieldTypes DEF CallersOwnLocks, SignInsOwnLocks, Holding, Usable, Working,
       CallEnds, LockGoesTo, OtherRecords, RecordKept, OtherCalls
  <1>5. TokensFollowProvider'
    BY <1>1, <1>3, FieldTypes, NoAccountFields DEF CallersOwnLocks, SignInsOwnLocks,
       TokensFollowProvider, TokensAreSpentOnce, GrantsAreOwned, Holding, Bound, Usable, Unsaved,
       CallEnds, LockGoesTo, OtherRecords, RecordKept, OtherCalls
  <1>6. TokensAreSpentOnce'
    BY <1>1, <1>3, FieldTypes, NoAccountFields DEF CallersOwnLocks, SignInsOwnLocks,
       TokensFollowProvider, TokensAreSpentOnce, GrantsAreOwned, Holding, Bound, Usable, Unsaved,
       CallEnds, LockGoesTo, OtherRecords, RecordKept, OtherCalls
  <1>7. GrantsAreOwned'
    BY <1>1, <1>3, FieldTypes, NoAccountFields DEF CallersOwnLocks, SignInsOwnLocks,
       GrantsAreOwned, Holding, Bound, Usable, Unsaved, Working, CallEnds, LockGoesTo,
       OtherRecords, RecordKept, OtherCalls
  <1>8. SignInsKnowTheirRegistration' /\ CancelledAreOver'
    BY <1>1, <1>3, FieldTypes, NoAccountFields DEF CallersOwnLocks, SignInsOwnLocks,
       GrantsAreOwned, SignInsKnowTheirRegistration, Holding, Bound, Usable, Unsaved,
       CancelledAreOver, Working, CallEnds, LockGoesTo, OtherRecords, RecordKept,
       OtherCalls
  <1>9. SignInsAgree' /\ RecordsForward
    BY <1>1, <1>3, FieldTypes, NoAccountFields DEF CallersOwnLocks, SignInsOwnLocks, SignInsAgree,
       SignInsKnowTheirRegistration, GrantsAreOwned, CancelledAreOver, Bound, Unsaved,
       Holding, Usable, Working, RecordsForward, CallEnds, LockGoesTo, OtherRecords, RecordKept,
       OtherCalls
  <1>10. QED
    BY <1>2, <1>4, <1>5, <1>6, <1>7, <1>8, <1>9

\* An account is marked after invalid_grant, which the lock leaves to grants that are lost.
LEMMA MarkedKeeps ==
  ASSUME CredentialsInduct, NEW c \in Callers, Marked(c)
  PROVE  CredentialsInduct' /\ RecordsForward
  <1> USE BoundsAssumption DEF CredentialsInduct
  <1>1. /\ caller[c].at = "marking" /\ CallEnds(c) /\ LockGoesTo(caller[c].reg, None)
        /\ RecordKept(caller[c].reg, caller[c].read)
        /\ account'[caller[c].reg].token = caller[c].read.token
        /\ account'[caller[c].reg].fresh = caller[c].read.fresh
        /\ OtherRecords(caller[c].reg)
        /\ UNCHANGED <<issued, faults, lost>>
        /\ UNCHANGED <<registered, selection, hostId, hostLock, attempt, replaced, cancelled>>
    BY HoldGoes, ReturnsEnds DEF Shapes, Records, Calls, SignIns, NoAccount, CallersOwnLocks,
       SignInsOwnLocks, Holding, Marked, Release, signIn, OtherRecords, RecordKept
  <1>2. Shapes'
    <2>1. account' \in [Registrations -> Records]
      <3>1. caller[c].read \in Records
        BY DEF Shapes, Calls
      <3>2. \A x \in Records : [x EXCEPT !.reauth = TRUE] \in Records
        BY DEF Records
      <3>3. QED
        BY <3>1, <3>2 DEF Marked, Shapes
    <2>2. accountLock' \in [Registrations -> Callers \cup Attempts \cup {None}]
      BY HoldGoes, ReturnsEnds DEF Shapes, Records, Calls, SignIns, Working, Fault,
         CallersOwnLocks, SignInsOwnLocks, Holding, Marked, Release, signIn
    <2>3. caller' \in [Callers -> Calls]
      BY HoldGoes, ReturnsEnds DEF Shapes, Records, Calls, SignIns, Working, Fault,
         CallersOwnLocks, SignInsOwnLocks, Holding, Marked, Release, signIn
    <2>4. QED
      BY <1>1, <2>1, <2>2, <2>3 DEF Shapes
  <1>3. \A r \in Registrations :
          /\ Bound(r) <=> Bound(r)'
          /\ RecordKept(r, account[r])
    BY <1>1, NoAccountFields DEF CallersOwnLocks, GrantsAreOwned, Holding, Usable, Bound,
       RecordKept, OtherRecords
  <1>4. CallersOwnLocks' /\ SignInsOwnLocks'
    BY <1>1, <1>3, FieldTypes DEF CallersOwnLocks, SignInsOwnLocks, Holding, Usable, Working,
       CallEnds, LockGoesTo, OtherRecords, RecordKept, OtherCalls
  <1>5. TokensFollowProvider'
    BY <1>1, <1>3, FieldTypes, NoAccountFields DEF CallersOwnLocks, SignInsOwnLocks,
       TokensFollowProvider, TokensAreSpentOnce, GrantsAreOwned, Holding, Bound, Usable, Unsaved,
       CallEnds, LockGoesTo, OtherRecords, RecordKept, OtherCalls
  <1>6. TokensAreSpentOnce'
    BY <1>1, <1>3, FieldTypes, NoAccountFields DEF CallersOwnLocks, SignInsOwnLocks,
       TokensFollowProvider, TokensAreSpentOnce, GrantsAreOwned, Holding, Bound, Usable, Unsaved,
       CallEnds, LockGoesTo, OtherRecords, RecordKept, OtherCalls
  <1>7. GrantsAreOwned'
    BY <1>1, <1>3, FieldTypes, NoAccountFields DEF CallersOwnLocks, SignInsOwnLocks,
       GrantsAreOwned, Holding, Bound, Usable, Unsaved, Working, CallEnds, LockGoesTo,
       OtherRecords, RecordKept, OtherCalls
  <1>8. SignInsKnowTheirRegistration' /\ CancelledAreOver'
    BY <1>1, <1>3, FieldTypes, NoAccountFields DEF CallersOwnLocks, SignInsOwnLocks,
       GrantsAreOwned, SignInsKnowTheirRegistration, Holding, Bound, Usable, Unsaved,
       CancelledAreOver, Working, CallEnds, LockGoesTo, OtherRecords, RecordKept,
       OtherCalls
  <1>9. SignInsAgree' /\ RecordsForward
    BY <1>1, <1>3, FieldTypes, NoAccountFields DEF CallersOwnLocks, SignInsOwnLocks, SignInsAgree,
       SignInsKnowTheirRegistration, GrantsAreOwned, CancelledAreOver, Bound, Unsaved,
       Holding, Usable, Working, RecordsForward, CallEnds, LockGoesTo, OtherRecords, RecordKept,
       OtherCalls
  <1>10. QED
    BY <1>2, <1>4, <1>5, <1>6, <1>7, <1>8, <1>9

\* A resolve that fails frees its lock; past the answer of the provider the grant is lost.
LEMMA ResolveFailsKeeps ==
  ASSUME CredentialsInduct, NEW c \in Callers, ResolveFails(c)
  PROVE  CredentialsInduct' /\ RecordsForward
  <1> USE BoundsAssumption DEF CredentialsInduct
  <1>1. /\ CallEnds(c)
        /\ lost' = IF caller[c].at = "writing" THEN lost \cup {caller[c].read.grant} ELSE lost
        /\ \A r \in Registrations :
             accountLock'[r] = IF accountLock[r] = c THEN None ELSE accountLock[r]
        /\ UNCHANGED <<account, issued>>
        /\ UNCHANGED <<registered, selection, hostId, hostLock, attempt, replaced, cancelled>>
    BY ReturnsEnds DEF Shapes, Records, Calls, SignIns, NoAccount, CallersOwnLocks,
       SignInsOwnLocks, Holding, ResolveFails, signIn
  <1>2. Shapes'
    <2>1. caller' \in [Callers -> Calls]
      BY ReturnsEnds DEF Shapes, Records, Calls, SignIns, Working, Fault, CallersOwnLocks,
         SignInsOwnLocks, Holding, ResolveFails, signIn
    <2>2. accountLock' \in [Registrations -> Callers \cup Attempts \cup {None}]
      BY ReturnsEnds DEF Shapes, Records, Calls, SignIns, Working, Fault, CallersOwnLocks,
         SignInsOwnLocks, Holding, ResolveFails, signIn
    <2>3. lost' \in SUBSET Attempts
      BY ReturnsEnds DEF Shapes, Records, Calls, SignIns, Working, Fault, CallersOwnLocks,
         SignInsOwnLocks, Holding, ResolveFails, signIn, GrantsAreOwned, Bound, Usable, NoAccount
    <2>4. faults' \in 0 .. MaxFaults
      BY ReturnsEnds DEF Shapes, Records, Calls, SignIns, Working, Fault, CallersOwnLocks,
         SignInsOwnLocks, Holding, ResolveFails, signIn
    <2>5. QED
      BY <1>1, <2>1, <2>2, <2>3, <2>4 DEF Shapes
  <1>3. CallersOwnLocks' /\ SignInsOwnLocks'
    BY <1>1, FieldTypes DEF CallersOwnLocks, SignInsOwnLocks, Holding, Usable, Working, CallEnds,
       OtherCalls
  <1>4. TokensFollowProvider'
    BY <1>1, FieldTypes, NoAccountFields DEF CallersOwnLocks, SignInsOwnLocks,
       TokensFollowProvider, TokensAreSpentOnce, GrantsAreOwned, Holding, Bound, Usable, Unsaved,
       CallEnds, OtherCalls
  <1>5. TokensAreSpentOnce'
    BY <1>1, FieldTypes, NoAccountFields DEF CallersOwnLocks, SignInsOwnLocks,
       TokensFollowProvider, TokensAreSpentOnce, GrantsAreOwned, Holding, Bound, Usable, Unsaved,
       CallEnds, OtherCalls
  <1>6. GrantsAreOwned'
    BY <1>1, FieldTypes, NoAccountFields DEF CallersOwnLocks, SignInsOwnLocks, GrantsAreOwned,
       Holding, Bound, Usable, Unsaved, Working, CallEnds, OtherCalls
  <1>7. SignInsKnowTheirRegistration' /\ CancelledAreOver'
    BY <1>1, FieldTypes, NoAccountFields DEF CallersOwnLocks, SignInsOwnLocks, GrantsAreOwned,
       SignInsKnowTheirRegistration, Holding, Bound, Usable, Unsaved, CancelledAreOver,
       Working, CallEnds, OtherCalls
  <1>8. SignInsAgree' /\ RecordsForward
    BY <1>1, FieldTypes, NoAccountFields DEF CallersOwnLocks, SignInsOwnLocks, SignInsAgree,
       SignInsKnowTheirRegistration, GrantsAreOwned, CancelledAreOver, Bound, Unsaved,
       Holding, Usable, Working, RecordsForward, CallEnds, OtherCalls
  <1>9. QED
    BY <1>2, <1>3, <1>4, <1>5, <1>6, <1>7, <1>8

\* A sign-in begins at a registration of its own, or with the client id that is there.
LEMMA BeginKeeps ==
  ASSUME CredentialsInduct, NEW a \in Attempts, NEW r \in Registrations, Begin(a, r)
  PROVE  CredentialsInduct' /\ RecordsForward
  <1> USE BoundsAssumption DEF CredentialsInduct
  <1>1. /\ attempt[a].at = "none" /\ OtherSignIns(a)
        /\ attempt'[a].at = "host" /\ attempt'[a].reg = r
        /\ attempt'[a].client = IF Bound(r) THEN account[r].client ELSE registered[r]
        /\ attempt'[a].host = attempt[a].host
        /\ Bound(r) \/ registered[r] # None \/ \A b \in Attempts : attempt[b].reg # r
        /\ UNCHANGED <<files, caller, issued, lost, faults, replaced, cancelled>>
    BY DEF Shapes, Records, Calls, SignIns, NoAccount, CallersOwnLocks, SignInsOwnLocks, Holding,
       Begin, Unbound, files, resolving, OtherSignIns
  <1>2. Shapes'
    <2>1. attempt' \in [Attempts -> SignIns]
      <3>1. (IF Bound(r) THEN account[r].client ELSE registered[r]) \in Attempts \cup {None}
        BY DEF Shapes, Records
      <3>2. \A x \in SignIns, y \in Attempts \cup {None} :
              [x EXCEPT !.at = "host", !.reg = r, !.client = y] \in SignIns
        BY DEF SignIns, Working
      <3>3. attempt' = [attempt EXCEPT ![a] = [attempt[a] EXCEPT !.at = "host", !.reg = r,
                          !.client = IF Bound(r) THEN account[r].client ELSE registered[r]]]
        BY DEF Begin
      <3>4. QED
        BY <3>1, <3>2, <3>3 DEF Shapes
    <2>2. QED
      BY <1>1, <2>1 DEF Shapes, files
  <1>3. CallersOwnLocks' /\ SignInsOwnLocks'
    BY <1>1, FieldTypes DEF CallersOwnLocks, SignInsOwnLocks, Holding, Usable, Working,
       OtherSignIns, files
  <1>4. TokensFollowProvider' /\ TokensAreSpentOnce'
    BY <1>1, FieldTypes, NoAccountFields DEF CallersOwnLocks, SignInsOwnLocks,
       TokensFollowProvider, TokensAreSpentOnce, GrantsAreOwned, Holding, Bound, Usable, Unsaved,
       OtherSignIns, files
  <1>5. GrantsAreOwned'
    BY <1>1, FieldTypes, NoAccountFields DEF CallersOwnLocks, SignInsOwnLocks, GrantsAreOwned,
       Holding, Bound, Usable, Unsaved, Working, OtherSignIns, files
  <1>6. SignInsKnowTheirRegistration'
    BY <1>1, FieldTypes, NoAccountFields DEF CallersOwnLocks, SignInsOwnLocks, GrantsAreOwned,
       SignInsKnowTheirRegistration, Holding, Bound, Usable, Unsaved, CancelledAreOver,
       Working, OtherSignIns, files
  <1>7. CancelledAreOver'
    BY <1>1, FieldTypes, NoAccountFields DEF CancelledAreOver, SignInsKnowTheirRegistration,
       Bound, SignInsOwnLocks, Working, OtherSignIns, files
  <1>8. SignInsAgree' /\ RecordsForward
    BY <1>1, FieldTypes, NoAccountFields DEF CallersOwnLocks, SignInsOwnLocks, SignInsAgree,
       SignInsKnowTheirRegistration, GrantsAreOwned, CancelledAreOver, Bound, Unsaved,
       Holding, Usable, Working, RecordsForward, OtherSignIns, files
  <1>9. QED
    BY <1>2, <1>3, <1>4, <1>5, <1>6, <1>7, <1>8

\* The host is made by whoever finds none under its lock.
LEMMA HostReadKeeps ==
  ASSUME CredentialsInduct, NEW a \in Attempts, HostRead(a)
  PROVE  CredentialsInduct' /\ RecordsForward
  <1> USE BoundsAssumption DEF CredentialsInduct
  <1>1. /\ attempt[a].at = "host" /\ hostLock = None
        /\ \/ /\ hostId # None /\ OtherSignIns(a) /\ UNCHANGED hostLock
              /\ attempt'[a].at = "pending" /\ attempt'[a].host = hostId
              /\ attempt'[a].reg = attempt[a].reg /\ attempt'[a].client = attempt[a].client
           \/ hostId = None /\ SignInMoves(a, "hostWrite") /\ hostLock' = a
        /\ UNCHANGED <<account, accountLock, registered, selection, hostId, faults, replaced,
                       cancelled>>
        /\ UNCHANGED <<caller, issued, lost>>
    <2>1. CASE hostId # None
      <3>1. attempt' = [attempt EXCEPT ![a].at = "pending", ![a].host = hostId]
        BY <2>1 DEF HostRead
      <3>2. /\ OtherSignIns(a) /\ attempt'[a].at = "pending" /\ attempt'[a].host = hostId
            /\ attempt'[a].reg = attempt[a].reg /\ attempt'[a].client = attempt[a].client
        BY <3>1 DEF Shapes, SignIns, OtherSignIns
      <3>3. /\ attempt[a].at = "host" /\ hostLock = None /\ UNCHANGED hostLock
            /\ UNCHANGED <<account, accountLock, registered, selection, hostId, faults, replaced,
                          cancelled, caller, issued, lost>>
        BY <2>1 DEF HostRead, resolving
      <3>4. QED
        BY <2>1, <3>2, <3>3
    <2>2. CASE hostId = None
      BY <2>2, GoesMoves DEF HostRead, resolving, Working
    <2>3. QED
      BY <2>1, <2>2
  <1>2. Shapes'
    <2>1. attempt' \in [Attempts -> SignIns]
      <3>1. CASE hostId # None
        <4>1. \A x \in SignIns, h \in Attempts \cup {None} :
                [x EXCEPT !.at = "pending", !.host = h] \in SignIns
          BY DEF SignIns
        <4>2. attempt' = [attempt EXCEPT ![a] =
                           [attempt[a] EXCEPT !.at = "pending", !.host = hostId]]
          BY <3>1 DEF HostRead
        <4>3. QED
          BY <4>1, <4>2 DEF Shapes
      <3>2. CASE hostId = None
        BY <3>2, GoesMoves DEF HostRead, Working
      <3>3. QED
        BY <3>1, <3>2
    <2>2. hostLock' \in Attempts \cup {None}
      BY GoesMoves DEF Shapes, Records, Calls, SignIns, Working, Fault, CallersOwnLocks,
         SignInsOwnLocks, Holding, HostRead, resolving
    <2>3. QED
      BY <1>1, <2>1, <2>2 DEF Shapes
  <1>3. CallersOwnLocks' /\ SignInsOwnLocks'
    BY <1>1, FieldTypes DEF CallersOwnLocks, SignInsOwnLocks, Holding, Usable, Working,
       OtherSignIns, SignInMoves, SignInKeeps
  <1>4. TokensFollowProvider' /\ TokensAreSpentOnce'
    BY <1>1, FieldTypes, NoAccountFields DEF CallersOwnLocks, SignInsOwnLocks,
       TokensFollowProvider, TokensAreSpentOnce, GrantsAreOwned, Holding, Bound, Usable, Unsaved,
       OtherSignIns, SignInMoves, SignInKeeps
  <1>5. GrantsAreOwned'
    BY <1>1, FieldTypes, NoAccountFields DEF CallersOwnLocks, SignInsOwnLocks, GrantsAreOwned,
       Holding, Bound, Usable, Unsaved, Working, OtherSignIns, SignInMoves, SignInKeeps
  <1>6. SignInsKnowTheirRegistration'
    BY <1>1, FieldTypes, NoAccountFields DEF CallersOwnLocks, SignInsOwnLocks, GrantsAreOwned,
       SignInsKnowTheirRegistration, Holding, Bound, Usable, Unsaved, CancelledAreOver,
       Working, OtherSignIns, SignInMoves, SignInKeeps
  <1>7. CancelledAreOver'
    BY <1>1, FieldTypes, NoAccountFields DEF CancelledAreOver, SignInsKnowTheirRegistration,
       Bound, SignInsOwnLocks, Working, OtherSignIns, SignInMoves, SignInKeeps
  <1>8. SignInsAgree' /\ RecordsForward
    BY <1>1, FieldTypes, NoAccountFields DEF CallersOwnLocks, SignInsOwnLocks, SignInsAgree,
       SignInsKnowTheirRegistration, GrantsAreOwned, CancelledAreOver, Bound, Unsaved,
       Holding, Usable, Working, RecordsForward, OtherSignIns, SignInMoves, SignInKeeps
  <1>9. QED
    BY <1>2, <1>3, <1>4, <1>5, <1>6, <1>7, <1>8

\* No other sign-in has used a host before there is one.
LEMMA HostWrittenKeeps ==
  ASSUME CredentialsInduct, NEW a \in Attempts, HostWritten(a)
  PROVE  CredentialsInduct' /\ RecordsForward
  <1> USE BoundsAssumption DEF CredentialsInduct
  <1>1. /\ attempt[a].at = "hostWrite" /\ OtherSignIns(a) /\ hostId' = a /\ hostLock' = None
        /\ attempt'[a].at = "pending" /\ attempt'[a].host = a
        /\ attempt'[a].reg = attempt[a].reg /\ attempt'[a].client = attempt[a].client
        /\ UNCHANGED <<account, accountLock, registered, selection, faults, replaced, cancelled>>
        /\ UNCHANGED <<caller, issued, lost>>
    BY DEF Shapes, Records, Calls, SignIns, NoAccount, CallersOwnLocks, SignInsOwnLocks, Holding,
       HostWritten, resolving, OtherSignIns
  <1>2. Shapes'
    <2>1. attempt' \in [Attempts -> SignIns]
      <3>1. \A x \in SignIns : [x EXCEPT !.at = "pending", !.host = a] \in SignIns
        BY DEF SignIns
      <3>2. attempt' = [attempt EXCEPT ![a] = [attempt[a] EXCEPT !.at = "pending", !.host = a]]
        BY DEF HostWritten
      <3>3. QED
        BY <3>1, <3>2 DEF Shapes
    <2>2. hostId' \in Attempts \cup {None}
      BY DEF Shapes, Records, Calls, SignIns, Working, Fault, CallersOwnLocks, SignInsOwnLocks,
         Holding, HostWritten, resolving
    <2>3. hostLock' \in Attempts \cup {None}
      BY DEF Shapes, Records, Calls, SignIns, Working, Fault, CallersOwnLocks, SignInsOwnLocks,
         Holding, HostWritten, resolving
    <2>4. QED
      BY <1>1, <2>1, <2>2, <2>3 DEF Shapes
  <1>3. CallersOwnLocks' /\ SignInsOwnLocks'
    BY <1>1, FieldTypes DEF CallersOwnLocks, SignInsOwnLocks, Holding, Usable, Working,
       OtherSignIns
  <1>4. TokensFollowProvider' /\ TokensAreSpentOnce'
    BY <1>1, FieldTypes, NoAccountFields DEF CallersOwnLocks, SignInsOwnLocks,
       TokensFollowProvider, TokensAreSpentOnce, GrantsAreOwned, Holding, Bound, Usable, Unsaved,
       OtherSignIns
  <1>5. GrantsAreOwned'
    BY <1>1, FieldTypes, NoAccountFields DEF CallersOwnLocks, SignInsOwnLocks, GrantsAreOwned,
       Holding, Bound, Usable, Unsaved, Working, OtherSignIns
  <1>6. SignInsKnowTheirRegistration'
    BY <1>1, FieldTypes, NoAccountFields DEF CallersOwnLocks, SignInsOwnLocks, GrantsAreOwned,
       SignInsKnowTheirRegistration, Holding, Bound, Usable, Unsaved, CancelledAreOver,
       Working, OtherSignIns
  <1>7. CancelledAreOver'
    BY <1>1, FieldTypes, NoAccountFields DEF CancelledAreOver, SignInsKnowTheirRegistration,
       Bound, SignInsOwnLocks, Working, OtherSignIns
  <1>8. SignInsAgree' /\ RecordsForward
    BY <1>1, FieldTypes, NoAccountFields DEF CallersOwnLocks, SignInsOwnLocks, SignInsAgree,
       SignInsKnowTheirRegistration, GrantsAreOwned, CancelledAreOver, Bound, Unsaved,
       Holding, Usable, Working, RecordsForward, OtherSignIns
  <1>9. QED
    BY <1>2, <1>3, <1>4, <1>5, <1>6, <1>7, <1>8

\* The client id of a first sign-in is its own.
LEMMA CompleteKeeps ==
  ASSUME CredentialsInduct, NEW a \in Attempts, NEW s \in Subjects, Complete(a, s)
  PROVE  CredentialsInduct' /\ RecordsForward
  <1> USE BoundsAssumption DEF CredentialsInduct
  <1>1. /\ attempt[a].at = "pending" /\ OtherSignIns(a) /\ attempt'[a].at = "register"
        /\ attempt'[a].client = IF attempt[a].client = None THEN a ELSE attempt[a].client
        /\ attempt'[a].reg = attempt[a].reg /\ attempt'[a].host = attempt[a].host
        /\ UNCHANGED <<files, caller, issued, lost, faults, replaced, cancelled>>
    BY DEF Shapes, Records, Calls, SignIns, NoAccount, CallersOwnLocks, SignInsOwnLocks, Holding,
       Complete, files, resolving, OtherSignIns
  <1>2. Shapes'
    <2>1. attempt' \in [Attempts -> SignIns]
      <3>1. \A x \in SignIns : [x EXCEPT !.at = "register", !.subject = s,
                                          !.client = IF @ = None THEN a ELSE @] \in SignIns
        BY DEF SignIns, Working
      <3>2. attempt' = [attempt EXCEPT ![a] = [attempt[a] EXCEPT !.at = "register", !.subject = s,
                          !.client = IF @ = None THEN a ELSE @]]
        BY DEF Complete
      <3>3. QED
        BY <3>1, <3>2 DEF Shapes
    <2>2. QED
      BY <1>1, <2>1 DEF Shapes, files
  <1>3. CallersOwnLocks' /\ SignInsOwnLocks'
    BY <1>1, FieldTypes DEF CallersOwnLocks, SignInsOwnLocks, Holding, Usable, Working,
       OtherSignIns, files
  <1>4. TokensFollowProvider' /\ TokensAreSpentOnce'
    BY <1>1, FieldTypes, NoAccountFields DEF CallersOwnLocks, SignInsOwnLocks,
       TokensFollowProvider, TokensAreSpentOnce, GrantsAreOwned, Holding, Bound, Usable, Unsaved,
       OtherSignIns, files
  <1>5. GrantsAreOwned'
    BY <1>1, FieldTypes, NoAccountFields DEF CallersOwnLocks, SignInsOwnLocks, GrantsAreOwned,
       Holding, Bound, Usable, Unsaved, Working, OtherSignIns, files
  <1>6. SignInsKnowTheirRegistration'
    BY <1>1, FieldTypes, NoAccountFields DEF CallersOwnLocks, SignInsOwnLocks, GrantsAreOwned,
       SignInsKnowTheirRegistration, Holding, Bound, Usable, Unsaved, CancelledAreOver,
       Working, OtherSignIns, files
  <1>7. CancelledAreOver'
    BY <1>1, FieldTypes, NoAccountFields DEF CancelledAreOver, SignInsKnowTheirRegistration,
       Bound, SignInsOwnLocks, Working, OtherSignIns, files
  <1>8. SignInsAgree' /\ RecordsForward
    BY <1>1, FieldTypes, NoAccountFields DEF CallersOwnLocks, SignInsOwnLocks, SignInsAgree,
       SignInsKnowTheirRegistration, GrantsAreOwned, CancelledAreOver, Bound, Unsaved,
       Holding, Usable, Working, RecordsForward, OtherSignIns, files
  <1>9. QED
    BY <1>2, <1>3, <1>4, <1>5, <1>6, <1>7, <1>8

\* The client id that is saved is the one every sign-in of the registration knows.
LEMMA RegisteredKeeps ==
  ASSUME CredentialsInduct, NEW a \in Attempts, Registered(a)
  PROVE  CredentialsInduct' /\ RecordsForward
  <1> USE BoundsAssumption DEF CredentialsInduct
  <1>1. /\ attempt[a].at = "register" /\ SignInMoves(a, "exchange")
        /\ registered'[attempt[a].reg] = attempt[a].client
        /\ \A q \in Registrations \ {attempt[a].reg} : registered'[q] = registered[q]
        /\ UNCHANGED <<account, accountLock, selection, hostId, hostLock, faults, replaced,
                       cancelled>>
        /\ UNCHANGED <<caller, issued, lost>>
    <2>1. attempt[a].at = "register" /\ attempt[a].reg \in Registrations
      BY DEF Registered, SignInsOwnLocks
    <2>2. SignInMoves(a, "exchange")
      BY GoesMoves DEF Registered, Working
    <2>3. QED
      BY <2>1, <2>2 DEF Registered, Shapes, resolving
  <1>2. Shapes'
    <2>1. attempt' \in [Attempts -> SignIns]
      BY GoesMoves DEF Shapes, Records, Calls, SignIns, Working, Fault, CallersOwnLocks,
         SignInsOwnLocks, Holding, Registered, resolving
    <2>2. registered' \in [Registrations -> Attempts \cup {None}]
      BY GoesMoves DEF Shapes, Records, Calls, SignIns, Working, Fault, CallersOwnLocks,
         SignInsOwnLocks, Holding, Registered, resolving
    <2>3. QED
      BY <1>1, <2>1, <2>2 DEF Shapes
  <1>3. CallersOwnLocks' /\ SignInsOwnLocks'
    BY <1>1, FieldTypes DEF CallersOwnLocks, SignInsOwnLocks, Holding, Usable, Working,
       SignInMoves, OtherSignIns, SignInKeeps
  <1>4. TokensFollowProvider' /\ TokensAreSpentOnce'
    BY <1>1, FieldTypes, NoAccountFields DEF CallersOwnLocks, SignInsOwnLocks,
       TokensFollowProvider, TokensAreSpentOnce, GrantsAreOwned, Holding, Bound, Usable, Unsaved,
       SignInMoves, OtherSignIns, SignInKeeps
  <1>5. GrantsAreOwned'
    BY <1>1, FieldTypes, NoAccountFields DEF CallersOwnLocks, SignInsOwnLocks, GrantsAreOwned,
       Holding, Bound, Usable, Unsaved, Working, SignInMoves, OtherSignIns, SignInKeeps
  <1>6. SignInsKnowTheirRegistration'
    BY <1>1, FieldTypes, NoAccountFields DEF CallersOwnLocks, SignInsOwnLocks, GrantsAreOwned,
       SignInsKnowTheirRegistration, Holding, Bound, Usable, Unsaved, CancelledAreOver,
       Working, SignInMoves, OtherSignIns, SignInKeeps
  <1>7. CancelledAreOver'
    BY <1>1, FieldTypes, NoAccountFields DEF CancelledAreOver, SignInsKnowTheirRegistration,
       Bound, SignInsOwnLocks, Working, SignInMoves, OtherSignIns, SignInKeeps
  <1>8. SignInsAgree' /\ RecordsForward
    BY <1>1, FieldTypes, NoAccountFields DEF CallersOwnLocks, SignInsOwnLocks, SignInsAgree,
       SignInsKnowTheirRegistration, GrantsAreOwned, CancelledAreOver, Bound, Unsaved,
       Holding, Usable, Working, RecordsForward, SignInMoves, OtherSignIns, SignInKeeps
  <1>9. QED
    BY <1>2, <1>3, <1>4, <1>5, <1>6, <1>7, <1>8

\* Under the lock the registration is found bound to the same account, or to none.
LEMMA LoginLockedKeeps ==
  ASSUME CredentialsInduct, NEW a \in Attempts, LoginLocked(a)
  PROVE  CredentialsInduct' /\ RecordsForward
  <1> USE BoundsAssumption DEF CredentialsInduct
  <1>1. /\ attempt[a].at = "exchange" /\ accountLock[attempt[a].reg] = None
        /\ \/ SignInEnds(a) /\ UNCHANGED accountLock
           \/ /\ Bound(attempt[a].reg) => account[attempt[a].reg].subject = attempt[a].subject
              /\ SignInMoves(a, "write") /\ LockGoesTo(attempt[a].reg, a)
        /\ UNCHANGED <<account, registered, selection, hostId, hostLock, faults, replaced,
                       cancelled>>
        /\ UNCHANGED <<caller, issued, lost>>
    BY GoesMoves, EndsSignIn, HoldGoes DEF Shapes, Records, Calls, SignIns, NoAccount,
       CallersOwnLocks, SignInsOwnLocks, Holding, LoginLocked, resolving, Working
  <1>2. Shapes'
    <2>1. attempt' \in [Attempts -> SignIns]
      BY GoesMoves, EndsSignIn, HoldGoes DEF Shapes, Records, Calls, SignIns, Working, Fault,
         CallersOwnLocks, SignInsOwnLocks, Holding, LoginLocked, resolving
    <2>2. accountLock' \in [Registrations -> Callers \cup Attempts \cup {None}]
      BY GoesMoves, EndsSignIn, HoldGoes DEF Shapes, Records, Calls, SignIns, Working, Fault,
         CallersOwnLocks, SignInsOwnLocks, Holding, LoginLocked, resolving
    <2>3. QED
      BY <1>1, <2>1, <2>2 DEF Shapes
  <1>3. CallersOwnLocks' /\ SignInsOwnLocks'
    BY <1>1, FieldTypes DEF CallersOwnLocks, SignInsOwnLocks, Holding, Usable, Working,
       SignInMoves, SignInEnds, LockGoesTo, OtherSignIns, SignInKeeps
  <1>4. TokensFollowProvider' /\ TokensAreSpentOnce'
    BY <1>1, FieldTypes, NoAccountFields DEF CallersOwnLocks, SignInsOwnLocks,
       TokensFollowProvider, TokensAreSpentOnce, GrantsAreOwned, Holding, Bound, Usable, Unsaved,
       SignInMoves, SignInEnds, LockGoesTo, OtherSignIns, SignInKeeps
  <1>5. GrantsAreOwned'
    BY <1>1, FieldTypes, NoAccountFields DEF CallersOwnLocks, SignInsOwnLocks, GrantsAreOwned,
       Holding, Bound, Usable, Unsaved, Working, SignInMoves, SignInEnds, LockGoesTo,
       OtherSignIns, SignInKeeps
  <1>6. SignInsKnowTheirRegistration'
    BY <1>1, FieldTypes, NoAccountFields DEF CallersOwnLocks, SignInsOwnLocks, GrantsAreOwned,
       SignInsKnowTheirRegistration, Holding, Bound, Usable, Unsaved, CancelledAreOver,
       Working, SignInMoves, SignInEnds, LockGoesTo, OtherSignIns, SignInKeeps
  <1>7. CancelledAreOver'
    BY <1>1, FieldTypes, NoAccountFields DEF CancelledAreOver, SignInsKnowTheirRegistration,
       Bound, SignInsOwnLocks, Working, SignInMoves, SignInEnds, LockGoesTo,
       OtherSignIns, SignInKeeps
  <1>8. SignInsAgree' /\ RecordsForward
    BY <1>1, FieldTypes, NoAccountFields DEF CallersOwnLocks, SignInsOwnLocks, SignInsAgree,
       SignInsKnowTheirRegistration, GrantsAreOwned, CancelledAreOver, Bound, Unsaved,
       Holding, Usable, Working, RecordsForward, SignInMoves, SignInEnds, LockGoesTo,
       OtherSignIns, SignInKeeps
  <1>9. QED
    BY <1>2, <1>3, <1>4, <1>5, <1>6, <1>7, <1>8

\* A grant is saved for the first time, by its sign-in, with its first token.
LEMMA LoginWrittenKeeps ==
  ASSUME CredentialsInduct, NEW a \in Attempts, NEW direct \in BOOLEAN, LoginWritten(a, direct)
  PROVE  CredentialsInduct' /\ RecordsForward
  <1> USE BoundsAssumption DEF CredentialsInduct
  <1>1. /\ attempt[a].at = "write" /\ SignInMoves(a, "look") /\ LockGoesTo(attempt[a].reg, None)
        /\ account'[attempt[a].reg].subject = attempt[a].subject
        /\ account'[attempt[a].reg].client = attempt[a].client /\ account'[attempt[a].reg].grant = a
        /\ account'[attempt[a].reg].token = 0 /\ account'[attempt[a].reg].fresh
        /\ account'[attempt[a].reg].direct = direct /\ account'[attempt[a].reg].reauth = ~direct
        /\ OtherRecords(attempt[a].reg)
        /\ replaced' = replaced \cup ({account[attempt[a].reg].grant} \ {None})
        /\ UNCHANGED <<registered, selection, hostId, hostLock, faults, cancelled>>
        /\ UNCHANGED <<caller, issued, lost>>
    <2>1. /\ attempt[a].at = "write" /\ attempt[a].reg \in Registrations
          /\ SignInMoves(a, "look") /\ LockGoesTo(attempt[a].reg, None)
          /\ UNCHANGED <<registered, selection, hostId, hostLock, faults, cancelled, caller,
                         issued, lost>>
          /\ replaced' = replaced \cup ({account[attempt[a].reg].grant} \ {None})
      BY GoesMoves, HoldGoes DEF LoginWritten, SignInsOwnLocks, Release, resolving, Working
    <2>2. /\ account'[attempt[a].reg] = Signed(attempt[a].subject, attempt[a].client, a, direct)
          /\ OtherRecords(attempt[a].reg)
      BY <2>1 DEF LoginWritten, Shapes, OtherRecords
    <2>3. QED
      BY <2>1, <2>2 DEF Signed
  <1>2. Shapes'
    <2>1. account' \in [Registrations -> Records]
      <3>1. Signed(attempt[a].subject, attempt[a].client, a, direct) \in Records
        BY BoundsAssumption DEF Signed, Records, Shapes, SignIns
      <3>2. QED
        BY <3>1 DEF LoginWritten, Shapes
    <2>2. attempt' \in [Attempts -> SignIns]
      BY GoesMoves, HoldGoes DEF Shapes, Records, Calls, SignIns, Working, Fault, CallersOwnLocks,
         SignInsOwnLocks, Holding, LoginWritten, Signed, Release, resolving
    <2>3. accountLock' \in [Registrations -> Callers \cup Attempts \cup {None}]
      <3>1. attempt[a].reg \in Registrations /\ Release(attempt[a].reg)
        BY <1>1 DEF SignInsOwnLocks, LoginWritten
      <3>2. QED
        BY <3>1, HoldGoes DEF Release
    <2>4. replaced' \in SUBSET Attempts
      <3>1. account[attempt[a].reg].grant \in Attempts \cup {None}
        BY <1>1 DEF SignInsOwnLocks, Shapes, Records
      <3>2. QED
        BY <1>1, <3>1 DEF Shapes
    <2>5. QED
      BY <1>1, <2>1, <2>2, <2>3, <2>4 DEF Shapes
  <1>3. /\ attempt[a].reg \in Registrations /\ account'[attempt[a].reg] # NoAccount
        /\ \A q \in Registrations : Bound(q) => Bound(q)'
        /\ issued[a] = 0
    <2>1. attempt[a].reg \in Registrations /\ issued[a] = 0
      BY <1>1 DEF SignInsOwnLocks, GrantsAreOwned, Unsaved
    <2>2. account'[attempt[a].reg] # NoAccount
      BY <1>1, NoAccountFields, BoundsAssumption
    <2>3. \A q \in Registrations : Bound(q) => Bound(q)'
      <3>1. TAKE q \in Registrations
      <3>2. CASE q = attempt[a].reg
        BY <2>2, <3>2 DEF Bound
      <3>3. CASE q # attempt[a].reg
        BY <1>1, <3>3 DEF Bound, OtherRecords
      <3>4. QED
        BY <3>2, <3>3
    <2>4. QED
      BY <2>1, <2>2, <2>3 DEF Bound
  <1>4. CallersOwnLocks' /\ SignInsOwnLocks'
    BY <1>1, <1>3, FieldTypes DEF CallersOwnLocks, SignInsOwnLocks, Holding, Usable, Working,
       SignInMoves, LockGoesTo, OtherRecords, OtherSignIns, SignInKeeps
  <1>5. TokensFollowProvider'
    BY <1>1, <1>3, FieldTypes, NoAccountFields DEF CallersOwnLocks, SignInsOwnLocks,
       TokensFollowProvider, TokensAreSpentOnce, GrantsAreOwned, Holding, Bound, Usable, Unsaved,
       SignInMoves, LockGoesTo, OtherRecords, OtherSignIns, SignInKeeps
  <1>6. TokensAreSpentOnce'
    <2>1. SUFFICES ASSUME NEW q \in Registrations, Bound(q)', account'[q].grant \notin lost
                   PROVE  /\ account'[q].reauth => ~account'[q].direct
                          /\ \/ account'[q].token = issued[account'[q].grant]
                             \/ \E c \in Callers : accountLock'[q] = c /\ caller[c].at = "writing"
      BY <1>1 DEF TokensAreSpentOnce
    <2>2. CASE q = attempt[a].reg
      BY <1>1, <1>3, <2>2
    <2>3. CASE q # attempt[a].reg
      BY <1>1, <2>1, <2>3 DEF TokensAreSpentOnce, Bound, OtherRecords, LockGoesTo
    <2>4. QED
      BY <2>2, <2>3
  <1>7. GrantsAreOwned'
    BY <1>1, <1>3, FieldTypes, NoAccountFields DEF CallersOwnLocks, SignInsOwnLocks,
       GrantsAreOwned, Holding, Bound, Usable, Unsaved, Working, SignInMoves, LockGoesTo,
       OtherRecords, OtherSignIns, SignInKeeps
  <1>8. SignInsKnowTheirRegistration'
    BY <1>1, <1>3, FieldTypes, NoAccountFields DEF CallersOwnLocks, SignInsOwnLocks,
       GrantsAreOwned, SignInsKnowTheirRegistration, Holding, Bound, Usable, Unsaved,
       CancelledAreOver, Working, SignInMoves, LockGoesTo, OtherRecords, OtherSignIns,
       SignInKeeps
  <1>9. CancelledAreOver'
    BY <1>1, <1>3, FieldTypes, NoAccountFields DEF CancelledAreOver,
       SignInsKnowTheirRegistration, Bound, SignInsOwnLocks, Working, SignInMoves,
       LockGoesTo, OtherRecords, OtherSignIns, SignInKeeps
  <1>10. SignInsAgree' /\ RecordsForward
    BY <1>1, <1>3, FieldTypes, NoAccountFields DEF CallersOwnLocks, SignInsOwnLocks, SignInsAgree,
       SignInsKnowTheirRegistration, GrantsAreOwned, CancelledAreOver, Bound, Unsaved,
       Holding, Usable, Working, RecordsForward, SignInMoves, LockGoesTo, OtherRecords,
       OtherSignIns, SignInKeeps
  <1>11. QED
    BY <1>2, <1>4, <1>5, <1>6, <1>7, <1>8, <1>9, <1>10

\* Only an account that exists may be selected by its sign-in.
LEMMA LooksKeeps ==
  ASSUME CredentialsInduct, NEW a \in Attempts, Looks(a)
  PROVE  CredentialsInduct' /\ RecordsForward
  <1> USE BoundsAssumption DEF CredentialsInduct
  <1>1. /\ attempt[a].at = "look" /\ (SignInMoves(a, "select") \/ SignInEnds(a))
        /\ UNCHANGED <<files, caller, issued, lost, faults, replaced, cancelled>>
    BY GoesMoves, EndsSignIn DEF Shapes, Records, Calls, SignIns, NoAccount, CallersOwnLocks,
       SignInsOwnLocks, Holding, Looks, files, resolving, Working
  <1>2. Shapes'
    <2>1. attempt' \in [Attempts -> SignIns]
      BY GoesMoves, EndsSignIn DEF Shapes, Records, Calls, SignIns, Working, Fault,
         CallersOwnLocks, SignInsOwnLocks, Holding, Looks, files, resolving
    <2>2. QED
      BY <1>1, <2>1 DEF Shapes, files
  <1>3. CallersOwnLocks' /\ SignInsOwnLocks'
    BY <1>1, FieldTypes DEF CallersOwnLocks, SignInsOwnLocks, Holding, Usable, Working,
       SignInMoves, SignInEnds, files, OtherSignIns, SignInKeeps
  <1>4. TokensFollowProvider' /\ TokensAreSpentOnce'
    BY <1>1, FieldTypes, NoAccountFields DEF CallersOwnLocks, SignInsOwnLocks,
       TokensFollowProvider, TokensAreSpentOnce, GrantsAreOwned, Holding, Bound, Usable, Unsaved,
       SignInMoves, SignInEnds, files, OtherSignIns, SignInKeeps
  <1>5. GrantsAreOwned'
    BY <1>1, FieldTypes, NoAccountFields DEF CallersOwnLocks, SignInsOwnLocks, GrantsAreOwned,
       Holding, Bound, Usable, Unsaved, Working, SignInMoves, SignInEnds, files, OtherSignIns,
       SignInKeeps
  <1>6. SignInsKnowTheirRegistration'
    BY <1>1, FieldTypes, NoAccountFields DEF CallersOwnLocks, SignInsOwnLocks, GrantsAreOwned,
       SignInsKnowTheirRegistration, Holding, Bound, Usable, Unsaved, CancelledAreOver,
       Working, SignInMoves, SignInEnds, files, OtherSignIns, SignInKeeps
  <1>7. CancelledAreOver'
    BY <1>1, FieldTypes, NoAccountFields DEF CancelledAreOver, SignInsKnowTheirRegistration,
       Bound, SignInsOwnLocks, Working, SignInMoves, SignInEnds, files, OtherSignIns,
       SignInKeeps
  <1>8. SignInsAgree' /\ RecordsForward
    BY <1>1, FieldTypes, NoAccountFields DEF CallersOwnLocks, SignInsOwnLocks, SignInsAgree,
       SignInsKnowTheirRegistration, GrantsAreOwned, CancelledAreOver, Bound, Unsaved,
       Holding, Usable, Working, RecordsForward, SignInMoves, SignInEnds, files, OtherSignIns,
       SignInKeeps
  <1>9. QED
    BY <1>2, <1>3, <1>4, <1>5, <1>6, <1>7, <1>8

\* The account is still there when it is selected.
LEMMA SelectsKeeps ==
  ASSUME CredentialsInduct, NEW a \in Attempts, Selects(a)
  PROVE  CredentialsInduct' /\ RecordsForward
  <1> USE BoundsAssumption DEF CredentialsInduct
  <1>1. /\ attempt[a].at = "select" /\ selection' = attempt[a].reg /\ SignInEnds(a)
        /\ UNCHANGED <<account, accountLock, registered, hostId, hostLock, faults, replaced,
                       cancelled>>
        /\ UNCHANGED <<caller, issued, lost>>
    BY EndsSignIn DEF Shapes, Records, Calls, SignIns, NoAccount, CallersOwnLocks,
       SignInsOwnLocks, Holding, Selects, resolving
  <1>2. Shapes'
    <2>1. attempt' \in [Attempts -> SignIns]
      BY EndsSignIn DEF Shapes, Records, Calls, SignIns, Working, Fault, CallersOwnLocks,
         SignInsOwnLocks, Holding, Selects, resolving
    <2>2. selection' \in Registrations \cup {None}
      BY EndsSignIn DEF Shapes, Records, Calls, SignIns, Working, Fault, CallersOwnLocks,
         SignInsOwnLocks, Holding, Selects, resolving
    <2>3. QED
      BY <1>1, <2>1, <2>2 DEF Shapes
  <1>3. CallersOwnLocks' /\ SignInsOwnLocks'
    BY <1>1, FieldTypes DEF CallersOwnLocks, SignInsOwnLocks, Holding, Usable, Working,
       SignInEnds, OtherSignIns
  <1>4. TokensFollowProvider' /\ TokensAreSpentOnce'
    BY <1>1, FieldTypes, NoAccountFields DEF CallersOwnLocks, SignInsOwnLocks,
       TokensFollowProvider, TokensAreSpentOnce, GrantsAreOwned, Holding, Bound, Usable, Unsaved,
       SignInEnds, OtherSignIns
  <1>5. GrantsAreOwned'
    BY <1>1, FieldTypes, NoAccountFields DEF CallersOwnLocks, SignInsOwnLocks, GrantsAreOwned,
       Holding, Bound, Usable, Unsaved, Working, SignInEnds, OtherSignIns
  <1>6. SignInsKnowTheirRegistration'
    BY <1>1, FieldTypes, NoAccountFields DEF CallersOwnLocks, SignInsOwnLocks, GrantsAreOwned,
       SignInsKnowTheirRegistration, Holding, Bound, Usable, Unsaved, CancelledAreOver,
       Working, SignInEnds, OtherSignIns
  <1>7. CancelledAreOver'
    BY <1>1, FieldTypes, NoAccountFields DEF CancelledAreOver, SignInsKnowTheirRegistration,
       Bound, SignInsOwnLocks, Working, SignInEnds, OtherSignIns
  <1>8. SignInsAgree' /\ RecordsForward
    BY <1>1, FieldTypes, NoAccountFields DEF CallersOwnLocks, SignInsOwnLocks, SignInsAgree,
       SignInsKnowTheirRegistration, GrantsAreOwned, CancelledAreOver, Bound, Unsaved,
       Holding, Usable, Working, RecordsForward, SignInEnds, OtherSignIns
  <1>9. QED
    BY <1>2, <1>3, <1>4, <1>5, <1>6, <1>7, <1>8

\* A sign-in that throws frees its locks and is over.
LEMMA LoginFailsKeeps ==
  ASSUME CredentialsInduct, NEW a \in Attempts, LoginFails(a)
  PROVE  CredentialsInduct' /\ RecordsForward
  <1> USE BoundsAssumption DEF CredentialsInduct
  <1>1. /\ attempt[a].at \in Working /\ SignInsDrop({a})
        /\ \A r \in Registrations :
             accountLock'[r] = IF accountLock[r] = a THEN None ELSE accountLock[r]
        /\ hostLock' = IF hostLock = a THEN None ELSE hostLock
        /\ UNCHANGED <<account, registered, selection, hostId, replaced, cancelled>>
        /\ UNCHANGED <<caller, issued, lost>>
    BY DropsSignIns DEF Shapes, Records, Calls, SignIns, NoAccount, CallersOwnLocks,
       SignInsOwnLocks, Holding, LoginFails, resolving
  <1>2. Shapes'
    <2>1. attempt' \in [Attempts -> SignIns]
      BY DropsSignIns DEF Shapes, Records, Calls, SignIns, Working, Fault, CallersOwnLocks,
         SignInsOwnLocks, Holding, LoginFails, resolving
    <2>2. accountLock' \in [Registrations -> Callers \cup Attempts \cup {None}]
      BY DropsSignIns DEF Shapes, Records, Calls, SignIns, Working, Fault, CallersOwnLocks,
         SignInsOwnLocks, Holding, LoginFails, resolving
    <2>3. hostLock' \in Attempts \cup {None}
      BY DropsSignIns DEF Shapes, Records, Calls, SignIns, Working, Fault, CallersOwnLocks,
         SignInsOwnLocks, Holding, LoginFails, resolving
    <2>4. faults' \in 0 .. MaxFaults
      BY DropsSignIns DEF Shapes, Records, Calls, SignIns, Working, Fault, CallersOwnLocks,
         SignInsOwnLocks, Holding, LoginFails, resolving
    <2>5. QED
      BY <1>1, <2>1, <2>2, <2>3, <2>4 DEF Shapes
  <1>3. CallersOwnLocks' /\ SignInsOwnLocks'
    BY <1>1, FieldTypes DEF CallersOwnLocks, SignInsOwnLocks, Holding, Usable, Working,
       SignInsDrop
  <1>4. TokensFollowProvider' /\ TokensAreSpentOnce'
    BY <1>1, FieldTypes, NoAccountFields DEF CallersOwnLocks, SignInsOwnLocks,
       TokensFollowProvider, TokensAreSpentOnce, GrantsAreOwned, Holding, Bound, Usable, Unsaved,
       SignInsDrop
  <1>5. GrantsAreOwned'
    BY <1>1, FieldTypes, NoAccountFields DEF CallersOwnLocks, SignInsOwnLocks, GrantsAreOwned,
       Holding, Bound, Usable, Unsaved, Working, SignInsDrop
  <1>6. SignInsKnowTheirRegistration'
    BY <1>1, FieldTypes, NoAccountFields DEF CallersOwnLocks, SignInsOwnLocks, GrantsAreOwned,
       SignInsKnowTheirRegistration, Holding, Bound, Usable, Unsaved, CancelledAreOver,
       Working, SignInsDrop
  <1>7. CancelledAreOver'
    BY <1>1, FieldTypes, NoAccountFields DEF CancelledAreOver, SignInsKnowTheirRegistration,
       Bound, SignInsOwnLocks, Working, SignInsDrop
  <1>8. SignInsAgree' /\ RecordsForward
    BY <1>1, FieldTypes, NoAccountFields DEF CallersOwnLocks, SignInsOwnLocks, SignInsAgree,
       SignInsKnowTheirRegistration, GrantsAreOwned, CancelledAreOver, Bound, Unsaved,
       Holding, Usable, Working, RecordsForward, SignInsDrop
  <1>9. QED
    BY <1>2, <1>3, <1>4, <1>5, <1>6, <1>7, <1>8

\* A Core that dies frees the locks of its sign-ins, which are over.
LEMMA CoreDiesKeeps ==
  ASSUME CredentialsInduct, CoreDies
  PROVE  CredentialsInduct' /\ RecordsForward
  <1> USE BoundsAssumption DEF CredentialsInduct
  <1>1. /\ SignInsDrop({a \in Attempts : attempt[a].at # "none"})
        /\ \A r \in Registrations :
           accountLock'[r] = IF accountLock[r] \in {a \in Attempts : attempt[a].at # "none"}
                             THEN None ELSE accountLock[r]
        /\ hostLock' = IF hostLock \in {a \in Attempts : attempt[a].at # "none"}
                     THEN None ELSE hostLock
        /\ UNCHANGED <<account, registered, selection, hostId, replaced, cancelled>>
        /\ UNCHANGED <<caller, issued, lost>>
    BY DropsSignIns DEF Shapes, Records, Calls, SignIns, NoAccount, CallersOwnLocks,
       SignInsOwnLocks, Holding, CoreDies, resolving
  <1>2. Shapes'
    <2>1. attempt' \in [Attempts -> SignIns]
      BY DropsSignIns DEF Shapes, Records, Calls, SignIns, Working, Fault, CallersOwnLocks,
         SignInsOwnLocks, Holding, CoreDies, resolving
    <2>2. accountLock' \in [Registrations -> Callers \cup Attempts \cup {None}]
      BY DropsSignIns DEF Shapes, Records, Calls, SignIns, Working, Fault, CallersOwnLocks,
         SignInsOwnLocks, Holding, CoreDies, resolving
    <2>3. hostLock' \in Attempts \cup {None}
      BY DropsSignIns DEF Shapes, Records, Calls, SignIns, Working, Fault, CallersOwnLocks,
         SignInsOwnLocks, Holding, CoreDies, resolving
    <2>4. faults' \in 0 .. MaxFaults
      BY DropsSignIns DEF Shapes, Records, Calls, SignIns, Working, Fault, CallersOwnLocks,
         SignInsOwnLocks, Holding, CoreDies, resolving
    <2>5. QED
      BY <1>1, <2>1, <2>2, <2>3, <2>4 DEF Shapes
  <1>3. CallersOwnLocks' /\ SignInsOwnLocks'
    BY <1>1, FieldTypes DEF CallersOwnLocks, SignInsOwnLocks, Holding, Usable, Working,
       SignInsDrop
  <1>4. TokensFollowProvider' /\ TokensAreSpentOnce'
    BY <1>1, FieldTypes, NoAccountFields DEF CallersOwnLocks, SignInsOwnLocks,
       TokensFollowProvider, TokensAreSpentOnce, GrantsAreOwned, Holding, Bound, Usable, Unsaved,
       SignInsDrop
  <1>5. GrantsAreOwned'
    BY <1>1, FieldTypes, NoAccountFields DEF CallersOwnLocks, SignInsOwnLocks, GrantsAreOwned,
       Holding, Bound, Usable, Unsaved, Working, SignInsDrop
  <1>6. SignInsKnowTheirRegistration'
    BY <1>1, FieldTypes, NoAccountFields DEF CallersOwnLocks, SignInsOwnLocks, GrantsAreOwned,
       SignInsKnowTheirRegistration, Holding, Bound, Usable, Unsaved, CancelledAreOver,
       Working, SignInsDrop
  <1>7. CancelledAreOver'
    BY <1>1, FieldTypes, NoAccountFields DEF CancelledAreOver, SignInsKnowTheirRegistration,
       Bound, SignInsOwnLocks, Working, SignInsDrop
  <1>8. SignInsAgree' /\ RecordsForward
    BY <1>1, FieldTypes, NoAccountFields DEF CallersOwnLocks, SignInsOwnLocks, SignInsAgree,
       SignInsKnowTheirRegistration, GrantsAreOwned, CancelledAreOver, Bound, Unsaved,
       Holding, Usable, Working, RecordsForward, SignInsDrop
  <1>9. QED
    BY <1>2, <1>3, <1>4, <1>5, <1>6, <1>7, <1>8

\* A pending sign-in has bound and issued nothing yet, one that is over stays as it is.
LEMMA CancelKeeps ==
  ASSUME CredentialsInduct, NEW a \in Attempts, Cancel(a)
  PROVE  CredentialsInduct' /\ RecordsForward
  <1> USE BoundsAssumption DEF CredentialsInduct
  <1>1. /\ attempt[a].at \in {"pending", "over"}
        /\ SignInEnds(a) /\ cancelled' = cancelled \cup {a}
        /\ UNCHANGED <<files, caller, issued, lost, faults, replaced>>
    BY EndsSignIn DEF Shapes, Records, Calls, SignIns, NoAccount, CallersOwnLocks,
       SignInsOwnLocks, Holding, Cancel, files, resolving
  <1>2. Shapes'
    <2>1. attempt' \in [Attempts -> SignIns]
      BY EndsSignIn DEF Shapes, Records, Calls, SignIns, Working, Fault, CallersOwnLocks,
         SignInsOwnLocks, Holding, Cancel, files, resolving
    <2>2. cancelled' \in SUBSET Attempts
      BY EndsSignIn DEF Shapes, Records, Calls, SignIns, Working, Fault, CallersOwnLocks,
         SignInsOwnLocks, Holding, Cancel, files, resolving
    <2>3. QED
      BY <1>1, <2>1, <2>2 DEF Shapes, files
  <1>3. CallersOwnLocks' /\ SignInsOwnLocks'
    BY <1>1, FieldTypes DEF CallersOwnLocks, SignInsOwnLocks, Holding, Usable, Working,
       SignInEnds, files, OtherSignIns
  <1>4. TokensFollowProvider' /\ TokensAreSpentOnce'
    BY <1>1, FieldTypes, NoAccountFields DEF CallersOwnLocks, SignInsOwnLocks,
       TokensFollowProvider, TokensAreSpentOnce, GrantsAreOwned, Holding, Bound, Usable, Unsaved,
       SignInEnds, files, OtherSignIns
  <1>5. GrantsAreOwned'
    BY <1>1, FieldTypes, NoAccountFields DEF CallersOwnLocks, SignInsOwnLocks, GrantsAreOwned,
       Holding, Bound, Usable, Unsaved, Working, SignInEnds, files, OtherSignIns
  <1>6. SignInsKnowTheirRegistration'
    BY <1>1, FieldTypes, NoAccountFields DEF CallersOwnLocks, SignInsOwnLocks, GrantsAreOwned,
       SignInsKnowTheirRegistration, Holding, Bound, Usable, Unsaved, CancelledAreOver,
       Working, SignInEnds, files, OtherSignIns
  <1>7. CancelledAreOver'
    BY <1>1, FieldTypes, NoAccountFields DEF CancelledAreOver, SignInsKnowTheirRegistration,
       Bound, SignInsOwnLocks, Working, SignInEnds, files, OtherSignIns
  <1>8. SignInsAgree' /\ RecordsForward
    BY <1>1, FieldTypes, NoAccountFields DEF CallersOwnLocks, SignInsOwnLocks, SignInsAgree,
       SignInsKnowTheirRegistration, GrantsAreOwned, CancelledAreOver, Bound, Unsaved,
       Holding, Usable, Working, RecordsForward, SignInEnds, files, OtherSignIns
  <1>9. QED
    BY <1>2, <1>3, <1>4, <1>5, <1>6, <1>7, <1>8

\* The user selects among the accounts that exist.
LEMMA SelectKeeps ==
  ASSUME CredentialsInduct, NEW r \in Registrations, Select(r)
  PROVE  CredentialsInduct' /\ RecordsForward
  <1> USE BoundsAssumption DEF CredentialsInduct
  <1>1. /\ Bound(r) /\ selection' = r
        /\ UNCHANGED <<account, accountLock, registered, hostId, hostLock, attempt, faults,
                       replaced, cancelled>>
        /\ UNCHANGED <<caller, issued, lost>>
    BY DEF Shapes, Records, Calls, SignIns, NoAccount, CallersOwnLocks, SignInsOwnLocks, Holding,
       Select, resolving
  <1>2. Shapes'
    <2>1. selection' \in Registrations \cup {None}
      BY DEF Shapes, Records, Calls, SignIns, Working, Fault, CallersOwnLocks, SignInsOwnLocks,
         Holding, Select, resolving
    <2>2. QED
      BY <1>1, <2>1 DEF Shapes
  <1>3. CallersOwnLocks' /\ SignInsOwnLocks'
    BY <1>1, FieldTypes DEF CallersOwnLocks, SignInsOwnLocks, Holding, Usable, Working
  <1>4. TokensFollowProvider' /\ TokensAreSpentOnce'
    BY <1>1, FieldTypes, NoAccountFields DEF CallersOwnLocks, SignInsOwnLocks,
       TokensFollowProvider, TokensAreSpentOnce, GrantsAreOwned, Holding, Bound, Usable, Unsaved
  <1>5. GrantsAreOwned'
    BY <1>1, FieldTypes, NoAccountFields DEF CallersOwnLocks, SignInsOwnLocks, GrantsAreOwned,
       Holding, Bound, Usable, Unsaved, Working
  <1>6. SignInsKnowTheirRegistration'
    BY <1>1, FieldTypes, NoAccountFields DEF CallersOwnLocks, SignInsOwnLocks, GrantsAreOwned,
       SignInsKnowTheirRegistration, Holding, Bound, Usable, Unsaved, CancelledAreOver,
       Working
  <1>7. CancelledAreOver'
    BY <1>1, FieldTypes, NoAccountFields DEF CancelledAreOver, SignInsKnowTheirRegistration,
       Bound, SignInsOwnLocks, Working
  <1>8. SignInsAgree' /\ RecordsForward
    BY <1>1, FieldTypes, NoAccountFields DEF CallersOwnLocks, SignInsOwnLocks, SignInsAgree,
       SignInsKnowTheirRegistration, GrantsAreOwned, CancelledAreOver, Bound, Unsaved,
       Holding, Usable, Working, RecordsForward
  <1>9. QED
    BY <1>2, <1>3, <1>4, <1>5, <1>6, <1>7, <1>8

\* A record that expires was fresh, so no holder of its lock has read it.
LEMMA ExpireKeeps ==
  ASSUME CredentialsInduct, NEW r \in Registrations, Expire(r)
  PROVE  CredentialsInduct' /\ RecordsForward
  <1> USE BoundsAssumption DEF CredentialsInduct
  <1>1. /\ account[r].fresh /\ account[r].token < MaxToken /\ Usable(account[r])
        /\ RecordKept(r, account[r])
        /\ account'[r].token = account[r].token /\ ~account'[r].fresh
        /\ account'[r].direct = account[r].direct /\ account'[r].reauth = account[r].reauth
        /\ OtherRecords(r)
        /\ UNCHANGED <<accountLock, issued, caller, faults, lost>>
        /\ UNCHANGED <<registered, selection, hostId, hostLock, attempt, replaced, cancelled>>
    BY DEF Shapes, Records, Calls, SignIns, NoAccount, CallersOwnLocks, SignInsOwnLocks, Holding,
       Expire, signIn, OtherRecords, RecordKept
  <1>2. Shapes'
    <2>1. account' \in [Registrations -> Records]
      <3>1. \A x \in Records : [x EXCEPT !.fresh = FALSE] \in Records
        BY DEF Records
      <3>2. account' = [account EXCEPT ![r] = [account[r] EXCEPT !.fresh = FALSE]]
        BY DEF Expire
      <3>3. QED
        BY <3>1, <3>2 DEF Shapes
    <2>2. QED
      BY <1>1, <2>1 DEF Shapes
  <1>3. \A q \in Registrations :
          /\ Bound(q) <=> Bound(q)'
          /\ RecordKept(q, account[q])
    BY <1>1, NoAccountFields, BoundsAssumption DEF GrantsAreOwned, Usable, Bound, RecordKept,
       OtherRecords
  <1>4. CallersOwnLocks' /\ SignInsOwnLocks'
    BY <1>1, <1>3, FieldTypes DEF CallersOwnLocks, SignInsOwnLocks, Holding, Usable, Working,
       OtherRecords, RecordKept
  <1>5. TokensFollowProvider'
    BY <1>1, <1>3, FieldTypes, NoAccountFields DEF CallersOwnLocks, SignInsOwnLocks,
       TokensFollowProvider, TokensAreSpentOnce, GrantsAreOwned, Holding, Bound, Usable, Unsaved,
       OtherRecords, RecordKept
  <1>6. TokensAreSpentOnce'
    BY <1>1, <1>3, FieldTypes, NoAccountFields DEF CallersOwnLocks, SignInsOwnLocks,
       TokensFollowProvider, TokensAreSpentOnce, GrantsAreOwned, Holding, Bound, Usable, Unsaved,
       OtherRecords, RecordKept
  <1>7. GrantsAreOwned'
    BY <1>1, <1>3, FieldTypes, NoAccountFields DEF CallersOwnLocks, SignInsOwnLocks,
       GrantsAreOwned, Holding, Bound, Usable, Unsaved, Working, OtherRecords, RecordKept
  <1>8. SignInsKnowTheirRegistration' /\ CancelledAreOver'
    BY <1>1, <1>3, FieldTypes, NoAccountFields DEF CallersOwnLocks, SignInsOwnLocks,
       GrantsAreOwned, SignInsKnowTheirRegistration, Holding, Bound, Usable, Unsaved,
       CancelledAreOver, Working, OtherRecords, RecordKept
  <1>9. SignInsAgree' /\ RecordsForward
    BY <1>1, <1>3, FieldTypes, NoAccountFields DEF CallersOwnLocks, SignInsOwnLocks, SignInsAgree,
       SignInsKnowTheirRegistration, GrantsAreOwned, CancelledAreOver, Bound, Unsaved,
       Holding, Usable, Working, RecordsForward, OtherRecords, RecordKept
  <1>10. QED
    BY <1>2, <1>4, <1>5, <1>6, <1>7, <1>8, <1>9

\* A grant that is withdrawn is lost.
LEMMA RevokeKeeps ==
  ASSUME CredentialsInduct, NEW g \in Attempts, Revoke(g)
  PROVE  CredentialsInduct' /\ RecordsForward
  <1> USE BoundsAssumption DEF CredentialsInduct
  <1>1. /\ issued'[g] = -1 /\ \A h \in Attempts \ {g} : issued'[h] = issued[h]
        /\ lost' = lost \cup {g}
        /\ \E r \in Registrations : account[r].grant = g
        /\ UNCHANGED <<account, accountLock, caller>>
        /\ UNCHANGED <<registered, selection, hostId, hostLock, attempt, replaced, cancelled>>
    BY DEF Shapes, Records, Calls, SignIns, NoAccount, CallersOwnLocks, SignInsOwnLocks, Holding,
       Revoke, signIn
  <1>2. Shapes'
    <2>1. issued' \in [Attempts -> -1 .. MaxToken]
      BY DEF Shapes, Records, Calls, SignIns, Working, Fault, CallersOwnLocks, SignInsOwnLocks,
         Holding, Revoke, signIn, TokensFollowProvider, Bound, Usable, NoAccount
    <2>2. lost' \in SUBSET Attempts
      BY DEF Shapes, Records, Calls, SignIns, Working, Fault, CallersOwnLocks, SignInsOwnLocks,
         Holding, Revoke, signIn, GrantsAreOwned, Bound, Usable, NoAccount
    <2>3. faults' \in 0 .. MaxFaults
      BY DEF Shapes, Records, Calls, SignIns, Working, Fault, CallersOwnLocks, SignInsOwnLocks,
         Holding, Revoke, signIn
    <2>4. QED
      BY <1>1, <2>1, <2>2, <2>3 DEF Shapes
  <1>3. CallersOwnLocks' /\ SignInsOwnLocks'
    BY <1>1, FieldTypes DEF CallersOwnLocks, SignInsOwnLocks, Holding, Usable, Working
  <1>4. TokensFollowProvider'
    BY <1>1, FieldTypes, NoAccountFields DEF CallersOwnLocks, SignInsOwnLocks,
       TokensFollowProvider, TokensAreSpentOnce, GrantsAreOwned, Holding, Bound, Usable, Unsaved
  <1>5. TokensAreSpentOnce'
    BY <1>1, FieldTypes, NoAccountFields DEF CallersOwnLocks, SignInsOwnLocks,
       TokensFollowProvider, TokensAreSpentOnce, GrantsAreOwned, Holding, Bound, Usable, Unsaved
  <1>6. GrantsAreOwned'
    BY <1>1, FieldTypes, NoAccountFields DEF CallersOwnLocks, SignInsOwnLocks, GrantsAreOwned,
       Holding, Bound, Usable, Unsaved, Working
  <1>7. SignInsKnowTheirRegistration' /\ CancelledAreOver'
    BY <1>1, FieldTypes, NoAccountFields DEF CallersOwnLocks, SignInsOwnLocks, GrantsAreOwned,
       SignInsKnowTheirRegistration, Holding, Bound, Usable, Unsaved, CancelledAreOver,
       Working
  <1>8. SignInsAgree' /\ RecordsForward
    BY <1>1, FieldTypes, NoAccountFields DEF CallersOwnLocks, SignInsOwnLocks, SignInsAgree,
       SignInsKnowTheirRegistration, GrantsAreOwned, CancelledAreOver, Bound, Unsaved,
       Holding, Usable, Working, RecordsForward
  <1>9. QED
    BY <1>2, <1>3, <1>4, <1>5, <1>6, <1>7, <1>8

\* Nothing happens.
LEMMA StutterKeeps ==
  ASSUME CredentialsInduct, UNCHANGED vars
  PROVE  CredentialsInduct' /\ RecordsForward
  <1> USE DEF CredentialsInduct, vars, files, history, Bound
  <1>1. Shapes' /\ CallersOwnLocks' /\ SignInsOwnLocks'
    BY DEF Shapes, CallersOwnLocks, SignInsOwnLocks
  <1>2. TokensFollowProvider' /\ TokensAreSpentOnce' /\ GrantsAreOwned'
    BY DEF TokensFollowProvider, TokensAreSpentOnce, GrantsAreOwned
  <1>3. SignInsKnowTheirRegistration' /\ CancelledAreOver' /\ SignInsAgree'
    BY DEF SignInsKnowTheirRegistration, CancelledAreOver, SignInsAgree
  <1>4. RecordsForward
    BY FieldTypes DEF RecordsForward, GrantsAreOwned, SignInsKnowTheirRegistration
  <1>5. QED
    BY <1>1, <1>2, <1>3, <1>4

-----------------------------------------------------------------------------
(* The invariant, and what it says for every number of processes.          *)

\* Nothing is saved, locked or issued at first.
LEMMA InvariantAtStart == Init => CredentialsInduct
  <1> SUFFICES ASSUME Init PROVE CredentialsInduct
    OBVIOUS
  <1> USE BoundsAssumption, NoAccountFields DEF Init
  <1>1. NoAccount \in Records /\ Idle \in Calls /\ Unused \in SignIns
    BY DEF NoAccount, Records, Idle, Calls, Unused, SignIns
  <1>2. Shapes
    BY <1>1 DEF Shapes
  <1>3. CallersOwnLocks /\ SignInsOwnLocks
    BY DEF CallersOwnLocks, SignInsOwnLocks, Idle, Unused, Holding
  <1>4. TokensFollowProvider /\ TokensAreSpentOnce /\ GrantsAreOwned
    BY DEF TokensFollowProvider, TokensAreSpentOnce, GrantsAreOwned, Bound, Idle, Unused
  <1>5. SignInsKnowTheirRegistration /\ CancelledAreOver /\ SignInsAgree
    BY DEF SignInsKnowTheirRegistration, CancelledAreOver, SignInsAgree, Bound, Unused
  <1>6. QED
    BY <1>2, <1>3, <1>4, <1>5 DEF CredentialsInduct

\* Every step of a resolve, a sign-in, the user, time or the provider keeps the invariant
\* and lets no record go back.
LEMMA InvariantKept == CredentialsInduct /\ [Next]_vars => CredentialsInduct' /\ RecordsForward
  <1> SUFFICES ASSUME CredentialsInduct, [Next]_vars PROVE CredentialsInduct' /\ RecordsForward
    OBVIOUS

  <1>1. ASSUME NEW c \in Callers,
               \/ \E r \in Registrations : Resolve(c, r)
               \/ Locked(c) \/ ResolveGoesOn(c) \/ ResolveFails(c)
        PROVE  CredentialsInduct' /\ RecordsForward
    BY <1>1, ResolveKeeps, LockedKeeps, ProviderAnswersKeeps, RefreshedKeeps, MarkedKeeps,
       ResolveFailsKeeps DEF ResolveGoesOn
  <1>2. ASSUME NEW a \in Attempts,
               \/ \E r \in Registrations : Begin(a, r)
               \/ \E s \in Subjects : Complete(a, s)
               \/ HostRead(a) \/ LoginLocked(a) \/ LoginGoesOn(a) \/ LoginFails(a) \/ Cancel(a)
        PROVE  CredentialsInduct' /\ RecordsForward
    BY <1>2, BeginKeeps, HostReadKeeps, HostWrittenKeeps, CompleteKeeps, RegisteredKeeps,
       LoginLockedKeeps, LoginWrittenKeeps, LooksKeeps, SelectsKeeps, LoginFailsKeeps, CancelKeeps
       DEF LoginGoesOn
  <1>3. ASSUME NEW r \in Registrations, Select(r) \/ Expire(r)
        PROVE  CredentialsInduct' /\ RecordsForward
    BY <1>3, SelectKeeps, ExpireKeeps
  <1>4. ASSUME NEW g \in Attempts, Revoke(g)
        PROVE  CredentialsInduct' /\ RecordsForward
    BY <1>4, RevokeKeeps
  <1>5. CASE CoreDies
    BY <1>5, CoreDiesKeeps
  <1>6. CASE UNCHANGED vars
    BY <1>6, StutterKeeps
  <1>7. QED
    BY <1>1, <1>2, <1>3, <1>4, <1>5, <1>6 DEF Next

\* The inductive invariant holds, however the processes interleave and whichever of
\* their steps fails.
THEOREM InvariantHolds == Spec => []CredentialsInduct
  BY InvariantAtStart, InvariantKept, PTL DEF Spec

\* A refresh token is spent once and what is saved is what the provider accepts, all
\* sign-ins agree on the host, and nothing that was cancelled is bound.
THEOREM CredentialsCorrect == Spec => []CredentialInvariant
  <1>1. Shapes => TypeOK
    BY DEF Shapes, Records, Calls, SignIns, TypeOK
  <1>2. CredentialsInduct => CredentialInvariant
    BY <1>1 DEF CredentialsInduct, CredentialInvariant
  <1>3. QED
    BY <1>2, InvariantHolds, PTL

\* A registration keeps its account and its client, and no refresh puts back an older
\* token or one that a sign-in has replaced.
THEOREM RecordsNeverGoBack == Spec => RecordsMoveForward
  <1>1. CredentialsInduct /\ [Next]_vars => RecordsForward
    BY InvariantKept
  <1>2. QED
    BY <1>1, InvariantHolds, PTL DEF Spec, RecordsMoveForward, RecordsForward

=============================================================================
