--------------------------- MODULE PerimeterProofs ---------------------------
(***************************************************************************)
(* Proofs that the properties of Perimeter hold for every number of        *)
(* addresses and concurrent requests, every setting and every clock.       *)
(*                                                                         *)
(* Type correctness is inductive as it stands.  LockMatchesFailures is     *)
(* inductive on top of it.  GuessesBounded needs both: a check that meets  *)
(* failures at the threshold meets a lock, so no request joins the ones    *)
(* being judged.  RequestBudget needs the tokens left in the bucket on its *)
(* left-hand side.                                                         *)
(***************************************************************************)
EXTENDS Perimeter, FiniteSetTheorems, TLAPS

-----------------------------------------------------------------------------
\* Lemmas about the helpers: each keeps an entry an entry.

LEMMA ElapsedType ==
  ASSUME NEW then \in Nat, NEW now \in Nat
  PROVE  Elapsed(then, now) \in Nat
BY DEF Elapsed

LEMMA EntryType ==
  ASSUME TypeOK, NEW a \in Address, NEW now \in Nat
  PROVE  Entry(a, now) \in ClientState
BY SettingsAssumption DEF TypeOK, Entry, InsertedAt, ClientState

LEMMA ForgivenType ==
  ASSUME NEW c \in ClientState, NEW now \in Nat
  PROVE  Forgiven(c, now) \in ClientState
BY DEF Forgiven, ClientState

LEMMA RefilledType ==
  ASSUME NEW c \in ClientState, NEW now \in Nat
  PROVE  /\ Refilled(c, now) \in ClientState
         /\ Refilled(c, now).lastSeen = now
         /\ Refilled(c, now).failures = c.failures
         /\ Refilled(c, now).lockedUntil = c.lockedUntil
         /\ Refilled(c, now).tokens <= c.tokens + Elapsed(c.lastSeen, now)
<1> DEFINE earned == c.tokens + Elapsed(c.lastSeen, now)
           left == IF earned < Capacity THEN earned ELSE Capacity
<1>1. c.tokens \in Nat /\ c.lastSeen \in Nat
  BY SettingsAssumption DEF ClientState
<1>2. earned \in Nat
  <2>1. Elapsed(c.lastSeen, now) \in Nat
    BY <1>1, ElapsedType
  <2> QED BY <1>1, <2>1
<1>3. left \in 0..Capacity /\ left <= earned
  BY <1>2, SettingsAssumption
<1>4. Refilled(c, now) = [c EXCEPT !.tokens = left, !.lastSeen = now]
  BY DEF Refilled
<1> HIDE DEF left
<1>5. /\ Refilled(c, now) \in ClientState
      /\ Refilled(c, now).tokens = left
      /\ Refilled(c, now).lastSeen = now
      /\ Refilled(c, now).failures = c.failures
      /\ Refilled(c, now).lockedUntil = c.lockedUntil
  BY <1>3, <1>4 DEF ClientState
<1> QED BY <1>3, <1>5

LEMMA FailedType ==
  ASSUME NEW c \in ClientState, NEW now \in Nat
  PROVE  Failed(c, now) \in ClientState
<1> DEFINE until == IF c.failures + 1 >= Threshold /\ c.lockedUntil = 0
                    THEN now + Lockout ELSE c.lockedUntil
<1>1. c.failures + 1 \in Nat /\ until \in Nat
  BY SettingsAssumption DEF ClientState
<1>2. Failed(c, now) =
        [c EXCEPT !.failures = c.failures + 1, !.lastSeen = now, !.lockedUntil = until]
  BY DEF Failed
<1> QED BY <1>1, <1>2 DEF ClientState

LEMMA ChargedType ==
  ASSUME TypeOK, NEW a \in Address, NEW now \in Nat, NEW n \in Nat
  PROVE  Charged(a, now, n) \in Ledger
<1>1. client[a].lastSeen \in Nat /\ ledger[a] \in Ledger
  BY DEF TypeOK, ClientState
<1>2. Elapsed(now, client[a].lastSeen) \in Nat
  BY <1>1, ElapsedType
<1>3. CASE a \in tracked
  <2>1. Charged(a, now, n) =
          [ledger[a] EXCEPT !.admitted = ledger[a].admitted + n,
                            !.rewound = ledger[a].rewound + Elapsed(now, client[a].lastSeen)]
    BY <1>3 DEF Charged
  <2>2. /\ ledger[a].admitted + n \in Nat
        /\ ledger[a].rewound + Elapsed(now, client[a].lastSeen) \in Nat
    BY <1>1, <1>2 DEF Ledger
  <2> QED BY <1>1, <2>1, <2>2 DEF Ledger
<1>4. CASE a \notin tracked
  BY <1>4 DEF Charged, Ledger
<1> QED BY <1>3, <1>4

LEMMA DropType ==
  ASSUME NEW S, NEW f \in [Address -> S], NEW gone, NEW blank \in S
  PROVE  Drop(f, gone, blank) \in [Address -> S]
BY DEF Drop

LEMMA BlankTypes ==
  ASSUME NEW now \in Nat
  PROVE  InsertedAt(now) \in ClientState /\ OpenedAt(now) \in Ledger
BY SettingsAssumption DEF InsertedAt, OpenedAt, ClientState, Ledger

\* A request in flight names an address and carries an instant.
LEMMA RequestType ==
  ASSUME TypeOK, NEW r \in Request, request[r].stage \in {"stamped", "allowed"}
  PROVE  /\ request[r].address \in Address
         /\ request[r].now \in Nat
         /\ [request EXCEPT ![r] = NoRequest] \in [Request -> RequestState]
         /\ [request EXCEPT ![r].stage = "allowed"] \in [Request -> RequestState]
BY DEF TypeOK, RequestState, NoRequest

-----------------------------------------------------------------------------
\* Types.

LEMMA TypeOKInit == Init => TypeOK
BY BlankTypes DEF Init, TypeOK, RequestState

LEMMA TypeOKStep == TypeOK /\ [Next]_vars => TypeOK'
<1> SUFFICES ASSUME TypeOK, [Next]_vars PROVE TypeOK'
  OBVIOUS
<1>1. ASSUME NEW r \in Request, Arrive(r) PROVE TypeOK'
  BY <1>1 DEF Arrive, TypeOK, RequestState, NoRequest
<1>2. ASSUME NEW r \in Request, RefuseLocked(r) PROVE TypeOK'
  BY <1>2, RequestType DEF RefuseLocked, TypeOK
<1>3. ASSUME NEW r \in Request, RefuseRate(r) PROVE TypeOK'
  <2> DEFINE a == request[r].address
             now == request[r].now
  <2>1. a \in Address /\ now \in Nat
    BY <1>3, RequestType DEF RefuseRate
  <2>2. Refilled(Forgiven(Entry(a, now), now), now) \in ClientState
    BY <2>1, EntryType, ForgivenType, RefilledType
  <2>3. Charged(a, now, 0) \in Ledger
    BY <2>1, ChargedType
  <2> QED BY <1>3, <2>1, <2>2, <2>3, RequestType DEF RefuseRate, TypeOK
<1>4. ASSUME NEW r \in Request, Allow(r) PROVE TypeOK'
  <2> DEFINE a == request[r].address
             now == request[r].now
             c == Refilled(Forgiven(Entry(a, now), now), now)
  <2>1. a \in Address /\ now \in Nat
    BY <1>4, RequestType DEF Allow
  <2>2. c \in ClientState /\ c.tokens >= 1
    BY <1>4, <2>1, EntryType, ForgivenType, RefilledType DEF Allow
  <2>3. [c EXCEPT !.tokens = @ - 1] \in ClientState
    BY <2>2, SettingsAssumption DEF ClientState
  <2>4. Charged(a, now, 1) \in Ledger
    BY <2>1, ChargedType
  <2>5. PICK gone \in Evictions(a) :
          /\ tracked' = (tracked \ gone) \cup {a}
          /\ client' = [Drop(client, gone, InsertedAt(0)) EXCEPT ![a] = [c EXCEPT !.tokens = @ - 1]]
          /\ ledger' = [Drop(ledger, gone, OpenedAt(0)) EXCEPT ![a] = Charged(a, now, 1)]
    BY <1>4 DEF Allow
  <2>6. /\ Drop(client, gone, InsertedAt(0)) \in [Address -> ClientState]
        /\ Drop(ledger, gone, OpenedAt(0)) \in [Address -> Ledger]
    BY DropType, BlankTypes DEF TypeOK
  <2>7. tracked' \subseteq Address
    BY <2>1, <2>5 DEF TypeOK
  <2>8. client' \in [Address -> ClientState] /\ ledger' \in [Address -> Ledger]
    BY <2>3, <2>4, <2>5, <2>6
  <2>9. request' \in [Request -> RequestState] /\ UNCHANGED <<clock, apiToken>>
    BY <1>4, RequestType DEF Allow
  <2> QED BY <2>7, <2>8, <2>9 DEF TypeOK
<1>5. ASSUME NEW r \in Request, PassTokenless(r) PROVE TypeOK'
  BY <1>5, RequestType DEF PassTokenless, TypeOK
<1>6. ASSUME NEW r \in Request, RejectCredential(r) PROVE TypeOK'
  <2> DEFINE a == request[r].address
             now == request[r].now
  <2>1. a \in Address /\ now \in Nat
    BY <1>6, RequestType DEF RejectCredential
  <2>2. Failed(Entry(a, now), now) \in ClientState
    BY <2>1, EntryType, FailedType
  <2>3. Charged(a, now, 0) \in Ledger
    BY <2>1, ChargedType
  <2> QED BY <1>6, <2>1, <2>2, <2>3, RequestType DEF RejectCredential, TypeOK
<1>7. ASSUME NEW r \in Request, AcceptCredential(r) PROVE TypeOK'
  <2>1. request[r].address \in Address
    BY <1>7, RequestType DEF AcceptCredential
  <2>2. client' \in [Address -> ClientState]
    BY <1>7, <2>1 DEF AcceptCredential, TypeOK, ClientState
  <2> QED BY <1>7, <2>2, RequestType DEF AcceptCredential, TypeOK
<1>8. ASSUME Prune PROVE TypeOK'
  BY <1>8, DropType, BlankTypes DEF Prune, TypeOK
<1>9. ASSUME Tick PROVE TypeOK'
  BY <1>9 DEF Tick, TypeOK
<1>10. ASSUME UNCHANGED vars PROVE TypeOK'
  BY <1>10 DEF vars, TypeOK
<1> QED BY <1>1, <1>2, <1>3, <1>4, <1>5, <1>6, <1>7, <1>8, <1>9, <1>10 DEF Next, Handle

\* The table's entries, the requests in flight and the history keep their
\* types in every behaviour of the perimeter.
THEOREM TypeCorrect == Spec => []TypeOK
BY TypeOKInit, TypeOKStep, PTL DEF Spec

-----------------------------------------------------------------------------
\* Lock and failures.

LockMatches(c) == c.lockedUntil # 0 <=> c.failures >= Threshold

\* An entry that check does not refuse for its lock leaves check unlocked.
LEMMA ForgivenUnlocked ==
  ASSUME NEW c \in ClientState, NEW now \in Nat, LockMatches(c), ~LockedOut(c, now)
  PROVE  /\ Forgiven(c, now).lockedUntil = 0
         /\ Forgiven(c, now).failures < Threshold
         /\ Forgiven(c, now).failures <= c.failures
         /\ Forgiven(c, now).tokens = c.tokens
         /\ Forgiven(c, now).lastSeen = c.lastSeen
BY SettingsAssumption DEF LockMatches, LockedOut, Forgiven, ClientState

LEMMA FailedMatches ==
  ASSUME NEW c \in ClientState, NEW now \in Nat, LockMatches(c)
  PROVE  LockMatches(Failed(c, now))
BY SettingsAssumption DEF LockMatches, Failed, ClientState

LEMMA EntryMatches ==
  ASSUME TypeOK, LockMatchesFailures, NEW a \in Address, NEW now \in Nat
  PROVE  LockMatches(Entry(a, now))
BY SettingsAssumption DEF LockMatchesFailures, LockMatches, Entry, InsertedAt, TypeOK

\* What check leaves in the entry of an address it does not find locked.
Checked(a, now) == Refilled(Forgiven(Entry(a, now), now), now)

LEMMA CheckedUnlocked ==
  ASSUME TypeOK, LockMatchesFailures, NEW a \in Address, NEW now \in Nat,
         ~LockedOut(Entry(a, now), now)
  PROVE  /\ Checked(a, now) \in ClientState
         /\ Checked(a, now).lockedUntil = 0
         /\ Checked(a, now).failures < Threshold
         /\ Checked(a, now).lastSeen = now
         /\ Checked(a, now).tokens <= Entry(a, now).tokens + Elapsed(Entry(a, now).lastSeen, now)
<1>1. /\ Entry(a, now) \in ClientState
      /\ LockMatches(Entry(a, now))
      /\ Forgiven(Entry(a, now), now) \in ClientState
  BY EntryType, EntryMatches, ForgivenType
<1> QED BY <1>1, ForgivenUnlocked, RefilledType DEF Checked

LEMMA LockStep == TypeOK /\ LockMatchesFailures /\ [Next]_vars => LockMatchesFailures'
<1> SUFFICES ASSUME TypeOK, LockMatchesFailures, [Next]_vars,
                    NEW b \in tracked'
             PROVE  LockMatches(client'[b])
  BY DEF LockMatchesFailures, LockMatches
<1> DEFINE Kept == b \in tracked /\ client'[b] = client[b]
<1>0. Kept => LockMatches(client'[b])
  BY DEF LockMatchesFailures, LockMatches
<1>1. ASSUME NEW r \in Request, RefuseRate(r) PROVE LockMatches(client'[b])
  <2> DEFINE a == request[r].address
             now == request[r].now
  <2>1. a \in Address /\ now \in Nat
    BY <1>1, RequestType DEF RefuseRate
  <2>2. client' = [client EXCEPT ![a] = Checked(a, now)] /\ tracked' = tracked
    BY <1>1 DEF RefuseRate, Checked
  <2>3. CASE b = a
    <3>1. /\ Checked(a, now) \in ClientState
          /\ Checked(a, now).lockedUntil = 0
          /\ Checked(a, now).failures < Threshold
      BY <1>1, <2>1, CheckedUnlocked DEF RefuseRate
    <3> QED BY <2>1, <2>2, <2>3, <3>1, SettingsAssumption DEF LockMatches, ClientState, TypeOK
  <2>4. CASE b # a
    BY <1>0, <2>2, <2>4 DEF TypeOK
  <2> QED BY <2>3, <2>4
<1>2. ASSUME NEW r \in Request, Allow(r) PROVE LockMatches(client'[b])
  <2> DEFINE a == request[r].address
             now == request[r].now
  <2>1. a \in Address /\ now \in Nat
    BY <1>2, RequestType DEF Allow
  <2>2. PICK gone \in Evictions(a) :
          /\ tracked' = (tracked \ gone) \cup {a}
          /\ client' = [Drop(client, gone, InsertedAt(0))
                          EXCEPT ![a] = [Checked(a, now) EXCEPT !.tokens = @ - 1]]
    BY <1>2 DEF Allow, Checked
  <2>3. CASE b = a
    <3>1. /\ Checked(a, now) \in ClientState
          /\ Checked(a, now).lockedUntil = 0
          /\ Checked(a, now).failures < Threshold
      BY <1>2, <2>1, CheckedUnlocked DEF Allow
    <3>2. client'[b] = [Checked(a, now) EXCEPT !.tokens = @ - 1]
      BY <2>1, <2>2, <2>3 DEF Drop
    <3> QED BY <3>1, <3>2, SettingsAssumption DEF LockMatches, ClientState
  <2>4. CASE b # a
    BY <1>0, <2>1, <2>2, <2>4 DEF TypeOK, Drop
  <2> QED BY <2>3, <2>4
<1>3. ASSUME NEW r \in Request, RejectCredential(r) PROVE LockMatches(client'[b])
  <2> DEFINE a == request[r].address
             now == request[r].now
  <2>1. a \in Address /\ now \in Nat
    BY <1>3, RequestType DEF RejectCredential
  <2>2. /\ tracked' = tracked \cup {a}
        /\ client' = [client EXCEPT ![a] = Failed(Entry(a, now), now)]
    BY <1>3 DEF RejectCredential
  <2>3. CASE b = a
    BY <2>1, <2>2, <2>3, EntryType, EntryMatches, FailedMatches DEF TypeOK
  <2>4. CASE b # a
    BY <1>0, <2>2, <2>4 DEF TypeOK
  <2> QED BY <2>3, <2>4
<1>4. ASSUME NEW r \in Request, AcceptCredential(r) PROVE LockMatches(client'[b])
  BY <1>0, <1>4, SettingsAssumption DEF AcceptCredential, TypeOK, ClientState, LockMatches
<1>5. ASSUME Prune PROVE LockMatches(client'[b])
  BY <1>0, <1>5 DEF Prune, TypeOK, Drop
<1>6. ASSUME \/ \E r \in Request : Arrive(r) \/ RefuseLocked(r) \/ PassTokenless(r)
             \/ Tick
             \/ UNCHANGED vars
      PROVE  LockMatches(client'[b])
  BY <1>0, <1>6 DEF Arrive, RefuseLocked, PassTokenless, Tick, vars
<1> QED BY <1>1, <1>2, <1>3, <1>4, <1>5, <1>6 DEF Next, Handle

\* An address is locked exactly while its failures have reached the threshold,
\* for any number of addresses and of concurrent requests.
THEOREM LockTheorem == Spec => []LockMatchesFailures
<1>1. Init => LockMatchesFailures
  BY DEF Init, LockMatchesFailures
<1> QED BY <1>1, TypeCorrect, LockStep, PTL DEF Spec

-----------------------------------------------------------------------------
\* Guesses.

LEMMA RequestSubset ==
  ASSUME NEW S \in SUBSET Request
  PROVE  /\ IsFiniteSet(S)
         /\ Cardinality(S) \in Nat
         /\ Cardinality(Request) \in Nat
         /\ Cardinality(S) <= Cardinality(Request)
BY SizeAssumption, FS_Subset, FS_CardinalityType

\* Fewer than Threshold failures leave room for every request there can be.
LEMMA GuessesBelow ==
  ASSUME NEW n \in Nat, n < Threshold, NEW S \in SUBSET Request
  PROVE  n + Cardinality(S) <= Threshold - 1 + Cardinality(Request)
BY RequestSubset, SettingsAssumption

LEMMA GuessStep ==
  TypeOK /\ LockMatchesFailures /\ GuessesBounded /\ [Next]_vars => GuessesBounded'
<1> SUFFICES ASSUME TypeOK, LockMatchesFailures, GuessesBounded, [Next]_vars,
                    NEW b \in tracked'
             PROVE  client'[b].failures + Cardinality(Judging(b)')
                      <= Threshold - 1 + Cardinality(Request)
  BY DEF GuessesBounded
<1> DEFINE Goal == client'[b].failures + Cardinality(Judging(b)')
                     <= Threshold - 1 + Cardinality(Request)
<1>a. Judging(b) \in SUBSET Request /\ Judging(b)' \in SUBSET Request
  BY DEF Judging
<1>b. b \in Address /\ client'[b].failures \in Nat
  BY TypeOKStep DEF TypeOK, ClientState
<1>c. ASSUME b \in tracked, client'[b] = client[b], Judging(b)' \subseteq Judging(b)
      PROVE  Goal
  <2>1. Cardinality(Judging(b)') <= Cardinality(Judging(b))
    BY <1>a, <1>c, RequestSubset, FS_Subset
  <2>2. client[b].failures + Cardinality(Judging(b)) <= Threshold - 1 + Cardinality(Request)
    BY <1>c DEF GuessesBounded
  <2> QED BY <1>a, <1>b, <1>c, <2>1, <2>2, RequestSubset, SettingsAssumption
<1>d. ASSUME client'[b].failures < Threshold PROVE Goal
  BY <1>a, <1>b, <1>d, GuessesBelow
<1>1. ASSUME NEW r \in Request, Arrive(r) \/ RefuseLocked(r) \/ PassTokenless(r) PROVE Goal
  BY <1>1, <1>c DEF Arrive, RefuseLocked, PassTokenless, Judging, TypeOK, NoRequest
<1>2. ASSUME NEW r \in Request, RefuseRate(r) PROVE Goal
  <2> DEFINE a == request[r].address
             now == request[r].now
  <2>1. a \in Address /\ now \in Nat
    BY <1>2, RequestType DEF RefuseRate
  <2>2. CASE b = a
    <3>1. client'[b] = Checked(a, now)
      BY <1>2, <2>1, <2>2 DEF RefuseRate, Checked, TypeOK
    <3> QED BY <1>2, <1>d, <2>1, <3>1, CheckedUnlocked DEF RefuseRate
  <2>3. CASE b # a
    BY <1>2, <1>c, <2>3 DEF RefuseRate, Judging, TypeOK, NoRequest
  <2> QED BY <2>2, <2>3
<1>3. ASSUME NEW r \in Request, Allow(r) PROVE Goal
  <2> DEFINE a == request[r].address
             now == request[r].now
  <2>1. a \in Address /\ now \in Nat
    BY <1>3, RequestType DEF Allow
  <2>2. PICK gone \in Evictions(a) :
          /\ tracked' = (tracked \ gone) \cup {a}
          /\ client' = [Drop(client, gone, InsertedAt(0))
                          EXCEPT ![a] = [Checked(a, now) EXCEPT !.tokens = @ - 1]]
    BY <1>3 DEF Allow, Checked
  <2>3. CASE b = a
    <3>1. client'[b] = [Checked(a, now) EXCEPT !.tokens = @ - 1]
      BY <2>1, <2>2, <2>3 DEF Drop
    <3>2. Checked(a, now) \in ClientState /\ Checked(a, now).failures < Threshold
      BY <1>3, <2>1, CheckedUnlocked DEF Allow
    <3> QED BY <1>d, <3>1, <3>2 DEF ClientState
  <2>4. CASE b # a
    <3>1. b \in tracked /\ client'[b] = client[b]
      BY <2>1, <2>2, <2>4 DEF TypeOK, Drop
    <3>2. Judging(b)' \subseteq Judging(b)
      BY <1>3, <2>4 DEF Allow, Judging, TypeOK
    <3> QED BY <1>c, <3>1, <3>2
  <2> QED BY <2>3, <2>4
<1>4. ASSUME NEW r \in Request, RejectCredential(r) PROVE Goal
  <2> DEFINE a == request[r].address
             now == request[r].now
  <2>1. a \in Address /\ now \in Nat
    BY <1>4, RequestType DEF RejectCredential
  <2>2. CASE b = a
    <3>1. r \in Judging(b) /\ Judging(b)' = Judging(b) \ {r}
      BY <1>4, <2>2 DEF RejectCredential, Judging, TypeOK, NoRequest
    <3>2. Cardinality(Judging(b)') = Cardinality(Judging(b)) - 1
      BY <1>a, <3>1, RequestSubset, FS_RemoveElement
    <3>3. client'[b].failures = Entry(a, now).failures + 1
      <4>1. client'[b] = Failed(Entry(a, now), now)
        BY <1>4, <2>1, <2>2 DEF RejectCredential, TypeOK
      <4>2. Entry(a, now) \in ClientState
        BY <2>1, EntryType
      <4> QED BY <4>1, <4>2 DEF Failed, ClientState
    <3>4. CASE a \in tracked
      <4>1. client[a].failures + Cardinality(Judging(b)) <= Threshold - 1 + Cardinality(Request)
        BY <2>2, <3>4 DEF GuessesBounded
      <4>2. Entry(a, now).failures = client[a].failures /\ client[a].failures \in Nat
        BY <2>1, <3>4 DEF Entry, TypeOK, ClientState
      <4> QED BY <1>a, <3>2, <3>3, <4>1, <4>2, RequestSubset, SettingsAssumption
    <3>5. CASE a \notin tracked
      <4>1. Entry(a, now).failures = 0
        BY <3>5 DEF Entry, InsertedAt
      <4> QED BY <1>a, <3>2, <3>3, <4>1, RequestSubset, SettingsAssumption
    <3> QED BY <3>4, <3>5
  <2>3. CASE b # a
    <3>1. b \in tracked /\ client'[b] = client[b]
      BY <1>4, <2>3 DEF RejectCredential, TypeOK
    <3>2. Judging(b)' \subseteq Judging(b)
      BY <1>4 DEF RejectCredential, Judging, TypeOK, NoRequest
    <3> QED BY <1>c, <3>1, <3>2
  <2> QED BY <2>2, <2>3
<1>5. ASSUME NEW r \in Request, AcceptCredential(r) PROVE Goal
  <2>1. Judging(b)' \subseteq Judging(b) /\ b \in tracked
    BY <1>5 DEF AcceptCredential, Judging, TypeOK, NoRequest
  <2>2. CASE b = request[r].address
    <3>1. client'[b].failures = 0
      BY <1>5, <1>b, <2>1, <2>2 DEF AcceptCredential, TypeOK, ClientState
    <3> QED BY <1>d, <3>1, SettingsAssumption
  <2>3. CASE b # request[r].address
    <3>1. client'[b] = client[b]
      BY <1>5, <1>b, <2>3 DEF AcceptCredential, TypeOK
    <3> QED BY <1>c, <2>1, <3>1
  <2> QED BY <2>2, <2>3
<1>6. ASSUME Prune \/ Tick \/ UNCHANGED vars PROVE Goal
  BY <1>6, <1>b, <1>c DEF Prune, Tick, vars, Judging, TypeOK, Drop
<1> QED BY <1>1, <1>2, <1>3, <1>4, <1>5, <1>6 DEF Next, Handle

\* However many requests race the lock, an address never gets more than
\* Threshold - 1 wrong guesses plus the requests in flight.
THEOREM GuessTheorem == Spec => []GuessesBounded
<1>1. Init => GuessesBounded
  BY DEF Init, GuessesBounded
<1> QED BY <1>1, TypeCorrect, LockTheorem, GuessStep, PTL DEF Spec

-----------------------------------------------------------------------------
\* The request budget.

\* RequestBudget with the tokens still in the bucket: what an entry has
\* admitted and may yet admit never exceeds what it has earned.
Balanced(c, l) == l.admitted + l.since + c.tokens <= Capacity + c.lastSeen + l.rewound
Balance == \A a \in tracked : Balanced(client[a], ledger[a])

LEMMA BalanceImpliesBudget == TypeOK /\ Balance => RequestBudget
BY SettingsAssumption DEF Balance, Balanced, RequestBudget, TypeOK, ClientState, Ledger

\* Moving last_seen to now and recording how far that turned it back leaves
\* at least what lay between the two.
LEMMA ElapsedMove ==
  ASSUME NEW then \in Nat, NEW now \in Nat
  PROVE  now + Elapsed(now, then) = then + Elapsed(then, now)
BY DEF Elapsed

\* Touching an entry at now keeps it balanced, as long as it gains no more
\* tokens than the elapsed time earns and loses the ones it spends.
LEMMA TouchBalanced ==
  ASSUME TypeOK, Balance, NEW a \in Address, NEW now \in Nat,
         NEW n \in Nat, NEW c \in ClientState, c.lastSeen = now,
         c.tokens + n <= Entry(a, now).tokens + Elapsed(Entry(a, now).lastSeen, now)
  PROVE  Balanced(c, Charged(a, now, n))
<1>1. c.tokens \in Nat
  BY SettingsAssumption DEF ClientState
<1>2. CASE a \in tracked
  <2> DEFINE e == client[a]
             l == ledger[a]
  <2>1. /\ e.tokens \in Nat /\ e.lastSeen \in Nat /\ l \in Ledger
        /\ l.admitted \in Nat /\ l.since \in Nat /\ l.rewound \in Nat
    BY SettingsAssumption DEF TypeOK, ClientState, Ledger
  <2>2. /\ Elapsed(e.lastSeen, now) \in Nat
        /\ Elapsed(now, e.lastSeen) \in Nat
        /\ now + Elapsed(now, e.lastSeen) = e.lastSeen + Elapsed(e.lastSeen, now)
    BY <2>1, ElapsedType, ElapsedMove
  <2>3. /\ Charged(a, now, n).admitted = l.admitted + n
        /\ Charged(a, now, n).since = l.since
        /\ Charged(a, now, n).rewound = l.rewound + Elapsed(now, e.lastSeen)
    BY <1>2, <2>1 DEF Charged, Ledger
  <2>4. l.admitted + l.since + e.tokens <= Capacity + e.lastSeen + l.rewound
    BY <1>2 DEF Balance, Balanced
  <2>5. c.tokens + n <= e.tokens + Elapsed(e.lastSeen, now)
    BY <1>2 DEF Entry
  <2> HIDE DEF e, l
  <2> QED BY <1>1, <2>1, <2>2, <2>3, <2>4, <2>5, SettingsAssumption DEF Balanced
<1>3. CASE a \notin tracked
  <2>1. Charged(a, now, n) = [since |-> now, admitted |-> n, rewound |-> 0]
    BY <1>3 DEF Charged
  <2>2. c.tokens + n <= Capacity
    <3>1. Entry(a, now).tokens = Capacity /\ Entry(a, now).lastSeen = now
      BY <1>3 DEF Entry, InsertedAt
    <3>2. Elapsed(now, now) = 0
      BY DEF Elapsed
    <3> QED BY <1>1, <3>1, <3>2, SettingsAssumption
  <2> QED BY <1>1, <2>1, <2>2, SettingsAssumption DEF Balanced
<1> QED BY <1>2, <1>3

LEMMA BalanceStep == TypeOK /\ LockMatchesFailures /\ Balance /\ [Next]_vars => Balance'
<1> SUFFICES ASSUME TypeOK, LockMatchesFailures, Balance, [Next]_vars, NEW b \in tracked'
             PROVE  Balanced(client'[b], ledger'[b])
  BY DEF Balance, Balanced
<1> DEFINE Goal == Balanced(client'[b], ledger'[b])
<1>0. ASSUME b \in tracked, client'[b] = client[b], ledger'[b] = ledger[b] PROVE Goal
  BY <1>0 DEF Balance
<1>1. ASSUME NEW r \in Request, RefuseRate(r) PROVE Goal
  <2> DEFINE a == request[r].address
             now == request[r].now
  <2>1. a \in Address /\ now \in Nat
    BY <1>1, RequestType DEF RefuseRate
  <2>2. /\ tracked' = tracked
        /\ client' = [client EXCEPT ![a] = Checked(a, now)]
        /\ ledger' = [ledger EXCEPT ![a] = Charged(a, now, 0)]
    BY <1>1 DEF RefuseRate, Checked
  <2>3. CASE b = a
    <3>1. /\ Checked(a, now) \in ClientState
          /\ Checked(a, now).lastSeen = now
          /\ Checked(a, now).tokens
               <= Entry(a, now).tokens + Elapsed(Entry(a, now).lastSeen, now)
      BY <1>1, <2>1, CheckedUnlocked DEF RefuseRate
    <3>2. Checked(a, now).tokens + 0 = Checked(a, now).tokens
      BY <3>1, SettingsAssumption DEF ClientState
    <3>3. Balanced(Checked(a, now), Charged(a, now, 0))
      BY <2>1, <3>1, <3>2, TouchBalanced
    <3> QED BY <2>1, <2>2, <2>3, <3>3 DEF TypeOK
  <2>4. CASE b # a
    BY <1>0, <2>2, <2>4 DEF TypeOK
  <2> QED BY <2>3, <2>4
<1>2. ASSUME NEW r \in Request, Allow(r) PROVE Goal
  <2> DEFINE a == request[r].address
             now == request[r].now
             c == [Checked(a, now) EXCEPT !.tokens = @ - 1]
  <2>1. a \in Address /\ now \in Nat
    BY <1>2, RequestType DEF Allow
  <2>2. PICK gone \in Evictions(a) :
          /\ tracked' = (tracked \ gone) \cup {a}
          /\ client' = [Drop(client, gone, InsertedAt(0)) EXCEPT ![a] = c]
          /\ ledger' = [Drop(ledger, gone, OpenedAt(0)) EXCEPT ![a] = Charged(a, now, 1)]
    BY <1>2 DEF Allow, Checked
  <2>3. CASE b = a
    <3>1. /\ Checked(a, now) \in ClientState
          /\ Checked(a, now).lastSeen = now
          /\ Checked(a, now).tokens
               <= Entry(a, now).tokens + Elapsed(Entry(a, now).lastSeen, now)
          /\ Checked(a, now).tokens >= 1
      BY <1>2, <2>1, CheckedUnlocked DEF Allow, Checked
    <3>2. /\ c \in ClientState
          /\ c.lastSeen = now
          /\ c.tokens + 1 = Checked(a, now).tokens
      BY <3>1, SettingsAssumption DEF ClientState
    <3>3. c.tokens + 1 <= Entry(a, now).tokens + Elapsed(Entry(a, now).lastSeen, now)
      BY <3>1, <3>2
    <3> HIDE DEF c
    <3>4. Balanced(c, Charged(a, now, 1))
      BY <2>1, <3>2, <3>3, TouchBalanced
    <3>5. client'[b] = c /\ ledger'[b] = Charged(a, now, 1)
      BY <2>1, <2>2, <2>3 DEF Drop
    <3> QED BY <3>4, <3>5
  <2>4. CASE b # a
    BY <1>0, <2>1, <2>2, <2>4 DEF TypeOK, Drop
  <2> QED BY <2>3, <2>4
<1>3. ASSUME NEW r \in Request, RejectCredential(r) PROVE Goal
  <2> DEFINE a == request[r].address
             now == request[r].now
  <2>1. a \in Address /\ now \in Nat
    BY <1>3, RequestType DEF RejectCredential
  <2>2. /\ tracked' = tracked \cup {a}
        /\ client' = [client EXCEPT ![a] = Failed(Entry(a, now), now)]
        /\ ledger' = [ledger EXCEPT ![a] = Charged(a, now, 0)]
    BY <1>3 DEF RejectCredential
  <2>3. CASE b = a
    <3>1. Entry(a, now) \in ClientState /\ Failed(Entry(a, now), now) \in ClientState
      BY <2>1, EntryType, FailedType
    <3>2. /\ Failed(Entry(a, now), now).lastSeen = now
          /\ Failed(Entry(a, now), now).tokens = Entry(a, now).tokens
      BY <3>1 DEF Failed, ClientState
    <3>3. Elapsed(Entry(a, now).lastSeen, now) \in Nat /\ Entry(a, now).tokens \in Nat
      <4>1. Entry(a, now).lastSeen \in Nat /\ Entry(a, now).tokens \in Nat
        BY <3>1, SettingsAssumption DEF ClientState
      <4> QED BY <2>1, <4>1, ElapsedType
    <3>4. Failed(Entry(a, now), now).tokens + 0
            <= Entry(a, now).tokens + Elapsed(Entry(a, now).lastSeen, now)
      BY <3>2, <3>3
    <3>5. Balanced(Failed(Entry(a, now), now), Charged(a, now, 0))
      BY <2>1, <3>1, <3>2, <3>4, TouchBalanced
    <3> QED BY <2>1, <2>2, <2>3, <3>5 DEF TypeOK
  <2>4. CASE b # a
    BY <1>0, <2>2, <2>4 DEF TypeOK
  <2> QED BY <2>3, <2>4
<1>4. ASSUME NEW r \in Request, AcceptCredential(r) PROVE Goal
  <2>1. b \in tracked /\ b \in Address /\ ledger'[b] = ledger[b]
    BY <1>4 DEF AcceptCredential, TypeOK
  <2>2. client'[b].tokens = client[b].tokens /\ client'[b].lastSeen = client[b].lastSeen
    BY <1>4, <2>1 DEF AcceptCredential, TypeOK, ClientState
  <2> QED BY <2>1, <2>2 DEF Balance, Balanced
<1>5. ASSUME Prune PROVE Goal
  BY <1>0, <1>5 DEF Prune, TypeOK, Drop
<1>6. ASSUME \/ \E r \in Request : Arrive(r) \/ RefuseLocked(r) \/ PassTokenless(r)
             \/ Tick
             \/ UNCHANGED vars
      PROVE  Goal
  BY <1>0, <1>6 DEF Arrive, RefuseLocked, PassTokenless, Tick, vars
<1> QED BY <1>1, <1>2, <1>3, <1>4, <1>5, <1>6 DEF Next, Handle

\* The bucket bounds what an address is admitted by its size, the time on the
\* entry's own clock, and what requests turned that clock back by.
THEOREM BudgetTheorem == Spec => []RequestBudget
<1>1. Init => Balance
  BY DEF Init, Balance
<1> QED BY <1>1, TypeCorrect, LockTheorem, BalanceStep, BalanceImpliesBudget, PTL DEF Spec

-----------------------------------------------------------------------------
\* Action properties.

\* A request was stamped in the past: its instant is never ahead of the clock.
StampsPast == \A r \in Request : request[r].now <= clock

LEMMA StampsStep == TypeOK /\ StampsPast /\ [Next]_vars => StampsPast'
<1> SUFFICES ASSUME TypeOK, StampsPast, [Next]_vars, NEW q \in Request
             PROVE  request'[q].now <= clock'
  BY DEF StampsPast
<1>0. /\ clock \in Nat
      /\ request[q].now \in Nat
      /\ request[q].now <= clock
  BY DEF TypeOK, RequestState, NoRequest, StampsPast
<1>1. ASSUME NEW r \in Request, Handle(r) PROVE request'[q].now <= clock'
  <2>1. \/ request'[q] = request[q]
        \/ request'[q] = NoRequest
        \/ request'[q] = [request[q] EXCEPT !.stage = "allowed"]
        \/ \E a \in Address : request'[q] = [stage |-> "stamped", address |-> a, now |-> clock]
    BY <1>1 DEF Handle, Arrive, RefuseLocked, RefuseRate, Allow, PassTokenless,
                RejectCredential, AcceptCredential, TypeOK
  <2>2. clock' = clock
    BY <1>1 DEF Handle, Arrive, RefuseLocked, RefuseRate, Allow, PassTokenless,
                RejectCredential, AcceptCredential
  <2>3. [request[q] EXCEPT !.stage = "allowed"].now = request[q].now
    BY DEF TypeOK, RequestState, NoRequest
  <2>4. NoRequest.now = 0
    BY DEF NoRequest
  <2>5. request'[q].now \in {request[q].now, 0, clock}
    <3>1. ASSUME NEW a \in Address,
                 request'[q] = [stage |-> "stamped", address |-> a, now |-> clock]
          PROVE  request'[q].now = clock
      BY <3>1
    <3> QED BY <2>1, <2>3, <2>4, <3>1
  <2> QED BY <1>0, <2>2, <2>5
<1>2. ASSUME Prune \/ Tick \/ UNCHANGED vars PROVE request'[q].now <= clock'
  BY <1>0, <1>2 DEF Prune, Tick, vars
<1> QED BY <1>1, <1>2 DEF Next

\* The action LockoutServed allows for one address.
ServedOn(b) ==
  client[b].lockedUntil > clock =>
    \/ b \in tracked' /\ client'[b].lockedUntil = client[b].lockedUntil
    \/ \E r \in Judging(b) : r \notin Judging(b)' /\ client'[b].failures = 0
    \/ b \notin tracked' /\ Cardinality(tracked) >= MaxClients

LEMMA ServedStep ==
  ASSUME TypeOK, StampsPast, [Next]_vars, NEW b \in tracked
  PROVE  ServedOn(b)
<1> SUFFICES ASSUME client[b].lockedUntil > clock PROVE ServedOn(b)
  BY DEF ServedOn
<1>0. /\ b \in Address
      /\ clock \in Nat
      /\ client[b] \in ClientState
      /\ client[b].lockedUntil \in Nat
  BY DEF TypeOK, ClientState
<1>1. ASSUME b \in tracked', client'[b].lockedUntil = client[b].lockedUntil PROVE ServedOn(b)
  BY <1>1 DEF ServedOn
<1>2. ASSUME NEW r \in Request, request[r].stage = "stamped", request[r].address = b
      PROVE  LockedOut(Entry(b, request[r].now), request[r].now)
  <2>1. request[r].now <= clock /\ request[r].now \in Nat
    BY <1>2, RequestType DEF StampsPast
  <2> QED BY <1>0, <2>1 DEF LockedOut, Entry
<1>3. ASSUME NEW r \in Request, RefuseRate(r) PROVE ServedOn(b)
  <2>1. request[r].address # b
    BY <1>2, <1>3 DEF RefuseRate
  <2> QED BY <1>1, <1>3, <2>1 DEF RefuseRate, TypeOK
<1>4. ASSUME NEW r \in Request, Allow(r) PROVE ServedOn(b)
  <2> DEFINE a == request[r].address
  <2>1. a # b /\ a \in Address
    BY <1>2, <1>4, RequestType DEF Allow
  <2>2. PICK gone \in Evictions(a) :
          /\ tracked' = (tracked \ gone) \cup {a}
          /\ b \notin gone => client'[b] = client[b]
    BY <1>0, <1>4, <2>1 DEF Allow, Drop
  <2>3. CASE b \in gone
    <3>1. b \notin tracked'
      BY <2>1, <2>2, <2>3
    <3>2. Cardinality(tracked) >= MaxClients
      BY <2>2, <2>3 DEF Evictions
    <3> QED BY <3>1, <3>2 DEF ServedOn
  <2>4. CASE b \notin gone
    BY <1>1, <2>2, <2>4
  <2> QED BY <2>3, <2>4
<1>5. ASSUME NEW r \in Request, RejectCredential(r) PROVE ServedOn(b)
  <2>1. b \in tracked'
    BY <1>5 DEF RejectCredential
  <2>2. CASE request[r].address = b
    <3>1. client'[b] = Failed(client[b], request[r].now)
      BY <1>0, <1>5, <2>2 DEF RejectCredential, TypeOK, Entry
    <3>2. client[b].lockedUntil # 0
      BY <1>0
    <3>3. client'[b].lockedUntil = client[b].lockedUntil
      BY <1>0, <3>1, <3>2 DEF Failed, ClientState
    <3> QED BY <1>1, <2>1, <3>3
  <2>3. CASE request[r].address # b
    BY <1>1, <1>5, <2>1, <2>3 DEF RejectCredential, TypeOK
  <2> QED BY <2>2, <2>3
<1>6. ASSUME NEW r \in Request, AcceptCredential(r) PROVE ServedOn(b)
  <2>1. CASE request[r].address = b
    <3>1. r \in Judging(b) /\ r \notin Judging(b)'
      BY <1>6, <2>1 DEF AcceptCredential, Judging, TypeOK, NoRequest
    <3>2. client'[b].failures = 0
      BY <1>0, <1>6, <2>1 DEF AcceptCredential, TypeOK, ClientState
    <3> QED BY <3>1, <3>2 DEF ServedOn
  <2>2. CASE request[r].address # b
    BY <1>0, <1>1, <1>6, <2>2 DEF AcceptCredential, TypeOK
  <2> QED BY <2>1, <2>2
<1>7. ASSUME Prune PROVE ServedOn(b)
  <2>1. b \in Retained(clock)
    BY DEF Retained, LockedOut
  <2> QED BY <1>0, <1>1, <1>7, <2>1 DEF Prune, Drop
<1>8. ASSUME \/ \E r \in Request : Arrive(r) \/ RefuseLocked(r) \/ PassTokenless(r)
             \/ Tick
             \/ UNCHANGED vars
      PROVE  ServedOn(b)
  BY <1>1, <1>8 DEF Arrive, RefuseLocked, PassTokenless, Tick, vars
<1> QED BY <1>3, <1>4, <1>5, <1>6, <1>7, <1>8 DEF Next, Handle

\* A lockout is served to its end: only a request of the same address that had
\* passed its check and carries the right credential, or eviction from a full
\* table, ends it early, and nothing extends it.
THEOREM LockoutTheorem == Spec => LockoutServed
<1>1. Init => StampsPast
  BY DEF Init, StampsPast, NoRequest
<1>2. TypeOK /\ StampsPast /\ [Next]_vars
        => [\A a \in tracked :
              client[a].lockedUntil > clock =>
                \/ a \in tracked' /\ client'[a].lockedUntil = client[a].lockedUntil
                \/ \E r \in Judging(a) : r \notin Judging(a)' /\ client'[a].failures = 0
                \/ a \notin tracked' /\ Cardinality(tracked) >= MaxClients]_vars
  BY ServedStep DEF ServedOn
<1> QED BY <1>1, <1>2, TypeCorrect, StampsStep, PTL DEF Spec, LockoutServed

\* The table is finite: every step adds one address at most.
TableIsFinite == IsFiniteSet(tracked)

LEMMA TableFinite == Spec => []TableIsFinite
<1>1. Init => TableIsFinite
  BY FS_EmptySet DEF Init, TableIsFinite
<1>2. TableIsFinite /\ [Next]_vars => TableIsFinite'
  <2> SUFFICES ASSUME IsFiniteSet(tracked), [Next]_vars PROVE IsFiniteSet(tracked')
    BY DEF TableIsFinite
  <2>1. \/ tracked' \subseteq tracked
        \/ \E a : tracked' \subseteq tracked \cup {a}
    BY DEF Next, Handle, Arrive, RefuseLocked, RefuseRate, Allow, PassTokenless,
           RejectCredential, AcceptCredential, Prune, Tick, vars
  <2>2. CASE tracked' \subseteq tracked
    BY <2>2, FS_Subset
  <2>3. ASSUME NEW a, tracked' \subseteq tracked \cup {a} PROVE IsFiniteSet(tracked')
    <3>1. IsFiniteSet(tracked \cup {a})
      BY FS_AddElement
    <3> QED BY <2>3, <3>1, FS_Subset
  <2> QED BY <2>1, <2>2, <2>3
<1> QED BY <1>1, <1>2, PTL DEF Spec

\* What GrowthBeyondLimit forbids of a step.
Unaccounted ==
  /\ Cardinality(tracked') > Cardinality(tracked)
  /\ Cardinality(tracked) >= MaxClients
  /\ ~\E r \in Request : /\ request[r].stage = "allowed"
                         /\ request[r].address \in tracked' \ tracked

LEMMA GrowthStep ==
  ASSUME TypeOK, TableIsFinite, [Next]_vars
  PROVE  ~Unaccounted
<1> USE DEF TableIsFinite
<1>1. Cardinality(tracked) \in Nat
  BY FS_CardinalityType
<1>2. ASSUME tracked' \subseteq tracked PROVE ~Unaccounted
  <2>1. Cardinality(tracked') <= Cardinality(tracked) /\ Cardinality(tracked') \in Nat
    BY <1>2, FS_Subset, FS_CardinalityType
  <2> QED BY <1>1, <2>1 DEF Unaccounted
<1>3. ASSUME NEW r \in Request, Allow(r), Cardinality(tracked) >= MaxClients
      PROVE  ~Unaccounted
  <2> DEFINE a == request[r].address
  <2>1. PICK gone \in Evictions(a) : tracked' = (tracked \ gone) \cup {a}
    BY <1>3 DEF Allow
  <2>2. CASE a \in tracked
    BY <1>2, <2>1, <2>2
  <2>3. CASE a \notin tracked
    <3>1. PICK v \in tracked : gone = {v}
      BY <1>3, <2>3 DEF Evictions, Oldest
    <3>2. IsFiniteSet(tracked \ {v}) /\ Cardinality(tracked \ {v}) = Cardinality(tracked) - 1
      BY FS_RemoveElement
    <3>3. Cardinality((tracked \ {v}) \cup {a}) = Cardinality(tracked \ {v}) + 1
      BY <2>3, <3>2, FS_AddElement
    <3>4. Cardinality(tracked') = Cardinality(tracked)
      BY <1>1, <2>1, <3>1, <3>2, <3>3
    <3> QED BY <1>1, <3>4 DEF Unaccounted
  <2> QED BY <2>2, <2>3
<1>4. ASSUME NEW r \in Request, RejectCredential(r) PROVE ~Unaccounted
  <2>1. CASE request[r].address \in tracked
    BY <1>2, <1>4, <2>1 DEF RejectCredential
  <2>2. CASE request[r].address \notin tracked
    BY <1>4, <2>2 DEF RejectCredential, Unaccounted
  <2> QED BY <2>1, <2>2
<1>5. ASSUME \/ \E r \in Request : \/ Arrive(r) \/ RefuseLocked(r) \/ RefuseRate(r)
                                  \/ PassTokenless(r) \/ AcceptCredential(r)
             \/ Prune \/ Tick \/ UNCHANGED vars
      PROVE  ~Unaccounted
  BY <1>2, <1>5 DEF Arrive, RefuseLocked, RefuseRate, PassTokenless, AcceptCredential, Prune,
                    Tick, vars
<1>6. ASSUME ~(Cardinality(tracked) >= MaxClients) PROVE ~Unaccounted
  BY <1>6 DEF Unaccounted
<1> QED BY <1>3, <1>4, <1>5, <1>6 DEF Next, Handle

\* A full table only ever grows by an address that was evicted or pruned between
\* the check and the verdict of its request (record_failure, evict_oldest).
THEOREM GrowthTheorem == Spec => GrowthBeyondLimit
<1>1. TypeOK /\ TableIsFinite /\ [Next]_vars
        => [Cardinality(tracked') > Cardinality(tracked) /\ Cardinality(tracked) >= MaxClients =>
              \E r \in Request : /\ request[r].stage = "allowed"
                                 /\ request[r].address \in tracked' \ tracked]_vars
  BY GrowthStep DEF Unaccounted
<1> QED BY <1>1, TypeCorrect, TableFinite, PTL DEF Spec, GrowthBeyondLimit
=============================================================================
