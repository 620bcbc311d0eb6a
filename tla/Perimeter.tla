------------------------------ MODULE Perimeter ------------------------------
(***************************************************************************)
(* The control plane's own perimeter (crates/rootcause-server/src/         *)
(* defense.rs) as the authentication middleware drives it (auth.rs): a     *)
(* token bucket and a credential lockout per address, in one table that a  *)
(* mutex guards and that the watchdog prunes.                              *)
(*                                                                         *)
(* Every method of `Perimeter` holds the mutex from its first line to its  *)
(* last, so each is one atomic action.  What interleaves is the middleware *)
(* around them: a request reads the clock, then checks its address, then   *)
(* has its credential compared, then records the verdict, and any number   *)
(* of requests are between two of those steps at once.  In particular the  *)
(* instant a request passes to `check` and to `record_failure` is older    *)
(* than the table it finds there.                                          *)
(*                                                                         *)
(* One tick of the clock is the time in which the bucket earns one token   *)
(* (60 / rate_limit_per_minute seconds), so tokens are whole numbers.      *)
(* Retry-After values, log lines and the persisted defence events are left *)
(* out.                                                                    *)
(***************************************************************************)
EXTENDS Naturals, FiniteSets

CONSTANTS
  Address,      \* client addresses
  Request,      \* request slots: at most this many requests in flight
  Capacity,     \* rate_limit_per_minute, the size of a full bucket
  Threshold,    \* lockout_threshold
  Lockout,      \* lockout_seconds, in ticks
  Idle,         \* the watchdog's prune window, in ticks
  MaxClients,   \* MAX_TRACKED_CLIENTS
  MaxTime       \* bound on the clock, for TLC only

\* `Perimeter::new` raises each setting to at least one.
ASSUME SettingsAssumption ==
  /\ Capacity \in Nat \ {0}
  /\ Threshold \in Nat \ {0}
  /\ Lockout \in Nat \ {0}

ASSUME SizeAssumption ==
  /\ Idle \in Nat
  /\ MaxClients \in Nat \ {0}
  /\ MaxTime \in Nat
  /\ IsFiniteSet(Request)

VARIABLES
  clock,        \* std::time::Instant, in ticks since start
  apiToken,     \* whether an API token is configured; never changes
  tracked,      \* the keys of the client table
  client,       \* the table's entries; meaningful for tracked addresses only
  request,      \* the request in each slot
  ledger        \* history: what each entry has admitted since it was created

vars == <<clock, apiToken, tracked, client, request, ledger>>

-----------------------------------------------------------------------------
\* State.  `locked_until: None` is 0: a lock is always set to now + Lockout > 0.

ClientState == [tokens : 0..Capacity, lastSeen : Nat, failures : Nat, lockedUntil : Nat]
InsertedAt(now) ==
  [tokens |-> Capacity, lastSeen |-> now, failures |-> 0, lockedUntil |-> 0]

NoRequest == [stage |-> "idle", address |-> "none", now |-> 0]
RequestState ==
  {NoRequest} \cup [stage : {"stamped", "allowed"}, address : Address, now : Nat]

Ledger == [since : Nat, admitted : Nat, rewound : Nat]
OpenedAt(now) == [since |-> now, admitted |-> 0, rewound |-> 0]

Init ==
  /\ clock = 0
  /\ apiToken \in BOOLEAN
  /\ tracked = {}
  /\ client = [a \in Address |-> InsertedAt(0)]
  /\ request = [r \in Request |-> NoRequest]
  /\ ledger = [a \in Address |-> OpenedAt(0)]

-----------------------------------------------------------------------------
\* Helpers of `check` and `record_failure`.

\* now.saturating_duration_since(then)
Elapsed(then, now) == IF now > then THEN now - then ELSE 0

\* clients.entry(a).or_insert_with(..)
Entry(a, now) == IF a \in tracked THEN client[a] ELSE InsertedAt(now)

\* Mutant: the expired lock is dropped, the failures behind it are not.
ForgivenKeepingFailures(c, now) ==
  IF c.lockedUntil # 0 /\ c.lockedUntil <= now THEN [c EXCEPT !.lockedUntil = 0] ELSE c

\* A lock that has run out is dropped together with the failures behind it.
Forgiven(c, now) ==
  IF c.lockedUntil # 0 /\ c.lockedUntil <= now
  THEN [c EXCEPT !.lockedUntil = 0, !.failures = 0]
  ELSE c

\* Mutant: the bucket overflows.
RefilledUncapped(c, now) ==
  [c EXCEPT !.tokens = @ + Elapsed(c.lastSeen, now), !.lastSeen = now]

\* Mutant: the refill is credited but last_seen stays, so it is credited again.
RefilledUntouched(c, now) ==
  LET earned == c.tokens + Elapsed(c.lastSeen, now)
  IN  [c EXCEPT !.tokens = IF earned < Capacity THEN earned ELSE Capacity]

\* The bucket earns one token per tick since last_seen, up to its capacity.
Refilled(c, now) ==
  LET earned == c.tokens + Elapsed(c.lastSeen, now)
  IN  [c EXCEPT !.tokens = IF earned < Capacity THEN earned ELSE Capacity,
                !.lastSeen = now]

\* The addresses `evict_oldest` may drop: the hash map breaks ties its own way.
Oldest == {v \in tracked : \A w \in tracked : client[v].lastSeen <= client[w].lastSeen}

\* Mutant: a full table makes no room.
EvictNever(a) == {{}}

\* What `check` may drop before it looks a up: nothing, or one oldest entry.
Evictions(a) ==
  IF Cardinality(tracked) >= MaxClients /\ a \notin tracked
  THEN {{v} : v \in Oldest}
  ELSE {{}}

LockedOut(c, now) == c.lockedUntil > now

\* The table once the addresses in gone are removed from it.
Drop(f, gone, blank) == [a \in Address |-> IF a \in gone THEN blank ELSE f[a]]

\* History: n more requests admitted for a, at an instant that may lie before
\* the one the entry was last touched at.
Charged(a, now, n) ==
  IF a \in tracked
  THEN [ledger[a] EXCEPT !.admitted = @ + n,
                         !.rewound = @ + Elapsed(now, client[a].lastSeen)]
  ELSE [since |-> now, admitted |-> n, rewound |-> 0]

-----------------------------------------------------------------------------
\* The middleware.

\* A request arrives and `require_auth` reads the clock, before any lock.
Arrive(r) ==
  /\ request[r].stage = "idle"
  /\ \E a \in Address :
       request' = [request EXCEPT ![r] = [stage |-> "stamped", address |-> a, now |-> clock]]
  /\ UNCHANGED <<clock, apiToken, tracked, client, ledger>>

\* check, first outcome: the address serves a lockout.  429, and not one field
\* of the entry changes.
RefuseLocked(r) ==
  LET a == request[r].address
      now == request[r].now
  IN  /\ request[r].stage = "stamped"
      /\ LockedOut(Entry(a, now), now)
      /\ request' = [request EXCEPT ![r] = NoRequest]
      /\ UNCHANGED <<clock, apiToken, tracked, client, ledger>>

\* check, second outcome: the bucket is empty.  429; the entry is refilled and
\* an expired lock is forgiven all the same.
RefuseRate(r) ==
  LET a == request[r].address
      now == request[r].now
      c == Refilled(Forgiven(Entry(a, now), now), now)
  IN  /\ request[r].stage = "stamped"
      /\ ~LockedOut(Entry(a, now), now)
      /\ c.tokens < 1
      /\ client' = [client EXCEPT ![a] = c]
      /\ ledger' = [ledger EXCEPT ![a] = Charged(a, now, 0)]
      /\ request' = [request EXCEPT ![r] = NoRequest]
      /\ UNCHANGED <<clock, apiToken, tracked>>

\* check, third outcome: one token is taken and the request goes on to the
\* credential.  A full table makes room for an address it does not know.
Allow(r) ==
  LET a == request[r].address
      now == request[r].now
      c == Refilled(Forgiven(Entry(a, now), now), now)
  IN  /\ request[r].stage = "stamped"
      /\ ~LockedOut(Entry(a, now), now)
      /\ c.tokens >= 1
      /\ \E gone \in Evictions(a) :
           /\ tracked' = (tracked \ gone) \cup {a}
           /\ client' = [Drop(client, gone, InsertedAt(0))
                           EXCEPT ![a] = [c EXCEPT !.tokens = @ - 1]]
           /\ ledger' = [Drop(ledger, gone, OpenedAt(0)) EXCEPT ![a] = Charged(a, now, 1)]
      /\ request' = [request EXCEPT ![r].stage = "allowed"]
      /\ UNCHANGED <<clock, apiToken>>

\* No token is configured: the request is served without a credential.
PassTokenless(r) ==
  /\ request[r].stage = "allowed"
  /\ ~apiToken
  /\ request' = [request EXCEPT ![r] = NoRequest]
  /\ UNCHANGED <<clock, apiToken, tracked, client, ledger>>

\* Mutant: one failure too many before the lock.
FailedOffByOne(c, now) ==
  [c EXCEPT !.failures = @ + 1,
            !.lastSeen = now,
            !.lockedUntil = IF c.failures >= Threshold /\ c.lockedUntil = 0
                            THEN now + Lockout ELSE @]

\* Mutant: a failure judged during a lock starts it anew.
FailedRelocking(c, now) ==
  [c EXCEPT !.failures = @ + 1,
            !.lastSeen = now,
            !.lockedUntil = IF c.failures + 1 >= Threshold THEN now + Lockout ELSE @]

\* The entry once a rejected credential is recorded on it.
Failed(c, now) ==
  LET failures == c.failures + 1
  IN  [c EXCEPT !.failures = failures,
                !.lastSeen = now,
                !.lockedUntil = IF failures >= Threshold /\ c.lockedUntil = 0
                                THEN now + Lockout ELSE @]

\* The credential is wrong: record_failure.  An address that was evicted since
\* its check is inserted again, and nothing makes room for it.
RejectCredential(r) ==
  LET a == request[r].address
      now == request[r].now
  IN  /\ request[r].stage = "allowed"
      /\ apiToken
      /\ tracked' = tracked \cup {a}
      /\ client' = [client EXCEPT ![a] = Failed(Entry(a, now), now)]
      /\ ledger' = [ledger EXCEPT ![a] = Charged(a, now, 0)]
      /\ request' = [request EXCEPT ![r] = NoRequest]
      /\ UNCHANGED <<clock, apiToken>>

\* The credential is right: record_success clears failures and lock, if the
\* address is still in the table.
AcceptCredential(r) ==
  LET a == request[r].address
  IN  /\ request[r].stage = "allowed"
      /\ apiToken
      /\ client' = IF a \in tracked
                   THEN [client EXCEPT ![a].failures = 0, ![a].lockedUntil = 0]
                   ELSE client
      /\ request' = [request EXCEPT ![r] = NoRequest]
      /\ UNCHANGED <<clock, apiToken, tracked, ledger>>

\* The entries prune keeps: locked ones, and those touched within the window.
Retained(now) ==
  {a \in tracked : \/ LockedOut(client[a], now)
                   \/ Elapsed(client[a].lastSeen, now) < Idle}

\* The watchdog's tick drops idle entries.
Prune ==
  LET gone == tracked \ Retained(clock)
  IN  /\ gone # {}
      /\ tracked' = tracked \ gone
      /\ client' = Drop(client, gone, InsertedAt(0))
      /\ ledger' = Drop(ledger, gone, OpenedAt(0))
      /\ UNCHANGED <<clock, apiToken, request>>

Tick ==
  /\ clock < MaxTime
  /\ clock' = clock + 1
  /\ UNCHANGED <<apiToken, tracked, client, request, ledger>>

Handle(r) ==
  \/ Arrive(r)
  \/ RefuseLocked(r)
  \/ RefuseRate(r)
  \/ Allow(r)
  \/ PassTokenless(r)
  \/ RejectCredential(r)
  \/ AcceptCredential(r)

Next == (\E r \in Request : Handle(r)) \/ Prune \/ Tick

Spec == Init /\ [][Next]_vars

-----------------------------------------------------------------------------
\* Properties.

\* Types, and the shape of the entries: only tracked addresses carry state.
TypeOK ==
  /\ clock \in Nat
  /\ apiToken \in BOOLEAN
  /\ tracked \subseteq Address
  /\ client \in [Address -> ClientState]
  /\ request \in [Request -> RequestState]
  /\ ledger \in [Address -> Ledger]

\* An address is locked exactly while its failures have reached the threshold,
\* whatever the interleaving of checks, verdicts, expiries and evictions: no
\* path leaves a lock without failures or a threshold reached without a lock
\* (defense.rs:101-108, 133-138, 143-147).
LockMatchesFailures ==
  \A a \in tracked : client[a].lockedUntil # 0 <=> client[a].failures >= Threshold

Judging(a) == {r \in Request : request[r].stage = "allowed" /\ request[r].address = a}

\* Credential guessing is a dead end: an address gets at most Threshold - 1
\* wrong guesses plus the requests that were already past the check when the
\* lock fell, counting the ones still to be judged (defense.rs:1-6, 125-140).
GuessesBounded ==
  \A a \in tracked :
    client[a].failures + Cardinality(Judging(a)) <= Threshold - 1 + Cardinality(Request)

\* The rate limit: since its entry was created an address is admitted at most
\* one full bucket plus one request per tick of its own clock, plus what a
\* request stamped earlier than the entry's last_seen makes the bucket earn
\* twice by turning last_seen back (auth.rs:71, defense.rs:110-112, 134).
RequestBudget ==
  \A a \in tracked :
    LET l == ledger[a]
    IN  l.admitted + l.since <= Capacity + client[a].lastSeen + l.rewound

\* A lock that the clock has not reached yet is kept, and kept as it is: it is
\* neither extended nor cut short by other requests of the address or by the
\* watchdog.  Only a request of that address which passed its check before the
\* lock fell and carries the right credential clears it, or eviction from a
\* full table (defense.rs:101-108, 135, 143-147, 159-164, 182-188).
LockoutServed ==
  [][\A a \in tracked :
       client[a].lockedUntil > clock =>
         \/ a \in tracked' /\ client'[a].lockedUntil = client[a].lockedUntil
         \/ \E r \in Judging(a) : r \notin Judging(a)' /\ client'[a].failures = 0
         \/ a \notin tracked' /\ Cardinality(tracked) >= MaxClients]_vars

\* The table grows beyond its limit only by a rejected credential whose address
\* was removed between its check and its verdict; every other insertion into a
\* full table first makes room (defense.rs:91-93, 127).
GrowthBeyondLimit ==
  [][Cardinality(tracked') > Cardinality(tracked) /\ Cardinality(tracked) >= MaxClients =>
       \E r \in Request : /\ request[r].stage = "allowed"
                          /\ request[r].address \in tracked' \ tracked]_vars

\* What the limit's comment, the deployment guide and the unit test say of it:
\* at most MAX_TRACKED_CLIENTS addresses are tracked at once (defense.rs:19).
\* The code does not keep it: see GrowthBeyondLimit.
TableBounded == Cardinality(tracked) <= MaxClients
=============================================================================
