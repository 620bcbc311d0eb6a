------------------------------- MODULE Surface -------------------------------
(***************************************************************************)
(* What an agent reports of a machine (rootcause-core/src/security.rs) and *)
(* the vocabulary the rules share (models.rs).  Constant level: the        *)
(* machines that report, detect and store extend this module.              *)
(*                                                                         *)
(* A bind address is the kind of address it is; a socket, a peer, an       *)
(* authentication event or a watched file is a record of the fields some   *)
(* rule reads.  The lists of a snapshot are sequences, as in the code,     *)
(* because their order reaches the findings.  An Option is a set of at     *)
(* most one element.                                                       *)
(***************************************************************************)
EXTENDS Integers, FiniteSets, Sequences, SequencesExt

\* The elements of a set as a sequence, in a fixed order.
AsSeq(S) ==
  LET left[i \in 0..Cardinality(S)] ==
        IF i = 0 THEN S ELSE left[i - 1] \ {CHOOSE x \in left[i - 1] : TRUE}
  IN [i \in 1..Cardinality(S) |-> CHOOSE x \in left[i - 1] : TRUE]

\* The elements of the first of some sets, then those of the second, and so on.
InTurn(sets) == FlattenSeq([k \in DOMAIN sets |-> AsSeq(sets[k])])

\* The elements of a sequence that pass a test, in their order.
Where(s, Test(_)) == FlattenSeq([i \in DOMAIN s |-> IF Test(s[i]) THEN <<s[i]>> ELSE <<>>])

\* The sum of a sequence of numbers.
Total(numbers) ==
  LET upto[i \in 0..Len(numbers)] == IF i = 0 THEN 0 ELSE upto[i - 1] + numbers[i]
  IN upto[Len(numbers)]

-----------------------------------------------------------------------------
\* Vocabulary.

\* Severity::rank.
Info == 0
Low == 1
Medium == 2
High == 3
Critical == 4
Severities == Info..Critical

Categories == {"intrusion", "exposure", "integrity", "availability", "hygiene", "resource"}
Platforms == {"windows", "linux", "macos", "unknown"}
Roles == {"edge", "internal", "database", "workstation"}

\* AssetRegistration::role: a missing or unknown label is an internal server.
RoleOf(label) == IF label \in Roles THEN label ELSE "internal"

-----------------------------------------------------------------------------
\* Addresses.

Protocols == {"tcp", "udp"}
Scopes == {"loopback", "private", "public"}

\* "mapped" is ::ffff:127.0.0.1, which Ipv6Addr::is_loopback does not know.
\* "*" and the empty text are "wildcard".
Inward == {"private v4", "link-local v4", "cgnat", "unique-local v6", "link-local v6"}
AddressKinds == {"loopback", "unspecified", "wildcard", "unparseable", "global", "mapped"} \cup Inward

\* Mutant: what does not parse is taken to be harmless.
ClassifyTrusting(address) ==
  CASE address \in {"loopback", "unparseable"} -> "loopback"
    [] address \in Inward -> "private"
    [] OTHER -> "public"

\* BindScope::classify: what is ambiguous is public.
Classify(address) ==
  CASE address = "loopback" -> "loopback"
    [] address \in Inward -> "private"
    [] OTHER -> "public"

-----------------------------------------------------------------------------
\* The catalog of ports.

RemoteAdminPorts == {22, 623, 3389, 5900, 5985, 5986}
DatabasePorts == {1433, 1521, 3306, 5432, 5984, 6379, 8086, 9042, 9200, 11211, 27017, 27018}
InfrastructurePorts == {111, 135, 2375, 2376, 2379, 2380, 4243, 6443, 8500, 10250, 15672}
CleartextPorts == {21, 23, 110, 143, 389, 512, 513, 514}
FileSharePorts == {137, 139, 445, 873, 2049}
MailPorts == {25}
WebPorts == {3000, 5601, 7001, 8080, 9000}

\* ListeningSocket::class through port_profile; 80 and 443 are in no list.
PortClass(port) ==
  CASE port \in RemoteAdminPorts -> "remote-admin"
    [] port \in DatabasePorts -> "database"
    [] port \in InfrastructurePorts -> "infrastructure"
    [] port \in CleartextPorts -> "cleartext"
    [] port \in FileSharePorts -> "file-share"
    [] port \in MailPorts -> "mail"
    [] port \in WebPorts -> "web"
    [] OTHER -> "other"

-----------------------------------------------------------------------------
\* What a snapshot holds.

\* ListeningSocket::new: the scope is derived from the address.
Socket(protocol, address, port) ==
  [protocol |-> protocol, address |-> address, port |-> port, scope |-> Classify(address)]

Peer(remote, local_port) == [remote |-> remote, local_port |-> local_port]

AuthEvent(source, username, outcome, count) ==
  [source |-> source, username |-> username, outcome |-> outcome, count |-> count]

WatchedFile(path, digest, world_writable) ==
  [path |-> path, digest |-> digest, world_writable |-> world_writable]

Firewall(engine, enabled, default_inbound_deny) ==
  [engine |-> engine, enabled |-> enabled, default_inbound_deny |-> default_inbound_deny]

\* SecuritySignals::default.
NoSignals == [listeners |-> <<>>, peers |-> <<>>, auth_events |-> <<>>, watched_files |-> <<>>,
              firewall |-> {}, updates |-> {}, gaps |-> {}]

\* SecuritySignals::exposed_listeners, distinct_peers, failures_by_source.
ExposedListeners(signals) ==
  Where(signals.listeners, LAMBDA socket : socket.scope # "loopback")

DistinctPeers(signals) == Cardinality({peer.remote : peer \in ToSet(signals.peers)})

Attempts(signals, source, outcome) ==
  LET events == signals.auth_events
  IN Total([i \in DOMAIN events |->
              IF events[i].source = source /\ events[i].outcome = outcome
              THEN events[i].count ELSE 0])

Sources(signals) == {event.source : event \in ToSet(signals.auth_events)}

Usernames(signals, source) ==
  UNION {event.username : event \in {e \in ToSet(signals.auth_events) : e.source = source}}

HasGap(signals, surface) == surface \in signals.gaps
=============================================================================
