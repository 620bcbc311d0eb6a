------------------------------- MODULE Reports -------------------------------
(***************************************************************************)
(* What the console shows of the stored rows (rootcause-server/src/api.rs  *)
(* and the queries of storage.rs it calls), as operators on the rows of    *)
(* module AssetStore, with the constants of that module.  An asset row is  *)
(* a record of its role, when it was last heard of, the observation time   *)
(* of its metrics, its surface and the number of services it exposes.      *)
(***************************************************************************)
EXTENDS Policy

CONSTANTS
  Window,       \* ticks of failed logins in one report
  Second,       \* ticks of a second
  StaleAfter,   \* STALE_AFTER_SECONDS
  OfflineAfter, \* OFFLINE_AFTER_SECONDS
  MaxAge,       \* ticks after which a sample is refused
  StoreSetups   \* the ticks for which rows are kept, and what may happen, with
                \* its bounds for TLC: handlers at once, surfaces and roles of the
                \* machine and how often they change, ticks, user names tried
                \* and those that exist, lines of failed logins, defence events,
                \* and handlers cut or purges failed

ASSUME StoreAssumption ==
  /\ Window \in Nat /\ MaxAge \in Nat /\ Second \in Nat \ {0}
  /\ \A s \in StoreSetups :
       /\ s.time \in Nat /\ s.retention \in Nat \ {0}
       /\ \A surface \in s.surfaces :
            /\ surface.listeners \in Seq(ToSet(surface.listeners))
            /\ \A socket \in ToSet(surface.listeners) : socket.scope \in Scopes
  /\ StaleAfter \in Nat /\ OfflineAfter \in Nat /\ StaleAfter <= OfflineAfter

-----------------------------------------------------------------------------
\* A sum over rows, in whatever order they are read.
SumOver(rows, Value(_)) ==
  LET listed == AsSeq(rows) IN Total([i \in DOMAIN listed |-> Value(listed[i])])

\* asset_from_row: the status is derived from the difference of two timestamps
\* in whole seconds.
Status(row, now) ==
  LET age == now \div Second - row.last_seen \div Second
  IN IF age <= StaleAfter THEN "online"
     ELSE IF age <= OfflineAfter THEN "stale" ELSE "offline"

\* counts: two of the headline numbers, the first by comparing instants.
AssetsOnline(assets, now) ==
  Cardinality({row \in assets : row.last_seen >= now - StaleAfter * Second})
ExposedServices(assets) == SumOver(assets, LAMBDA row : row.exposed)

\* build_exposure: the entries, their totals per scope, and the assets listed as
\* not inspected.
Entries(row) == UNION {ToSet(ExposedListeners(signals)) : signals \in row.security}
EntrySeverity(row, socket) == ExposureSeverity(PortClass(socket.port), socket.scope, row.role)
Within(signals, scope) == Len(Where(signals.listeners, LAMBDA socket : socket.scope = scope))
ServicesWithin(row, scope) == SumOver(row.security, LAMBDA signals : Within(signals, scope))
Uninspected(row) ==
  \A signals \in row.security : signals.listeners = <<>> /\ HasGap(signals, "listeners")

\* threat_sources, for the one source of the model: the failures of all its rows.
ThreatFailures(rows) == SumOver(rows, LAMBDA row : row.failures)

\* build_topology: the zone of an asset.
Zone(row) == IF ServicesWithin(row, "public") > 0 THEN "exposed" ELSE "internal"
=============================================================================
