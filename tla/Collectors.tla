----------------------------- MODULE Collectors -----------------------------
(***************************************************************************)
(* The agent's collectors (rootcause-agent/src/net.rs, authlog.rs,         *)
(* baseline.rs, integrity.rs, collector.rs, probe.rs): from what is true   *)
(* of a machine, through tools that may be missing or fail, to the signals *)
(* of one cycle with the gaps they declare.                                *)
(*                                                                         *)
(* A host is a record of facts.  Its sockets are rows with their protocol, *)
(* address family, state, local address and port, and remote address; its  *)
(* authentication record is a sequence of lines; its tools say for each    *)
(* command whether it answers.  The text the tools print is abstracted to  *)
(* the rows and lines it lists.                                            *)
(***************************************************************************)
EXTENDS Surface, TLC

CONSTANTS
  MaxListeners,   \* MAX_LISTENERS
  MaxPeers,       \* MAX_PEERS
  MaxEvents,      \* MAX_EVENTS
  MaxLines,       \* the lines read of the end of a log file
  MaxQueried      \* the events asked of a query of the security record

ASSUME CollectorsAssumption ==
  /\ MaxListeners \in Nat /\ MaxPeers \in Nat \ {0}
  /\ MaxEvents \in Nat /\ MaxLines \in Nat /\ MaxQueried \in Nat

\* The /proc/net tables, and the log files taken together.
Tables == << <<"tcp", FALSE>>, <<"tcp", TRUE>>, <<"udp", FALSE>>, <<"udp", TRUE>> >>
LogFile == <<"auth.log", FALSE>>

\* A host.  working: the commands that answer with a success.  readable: the
\* /proc/net tables and log files that can be read.
Host(platform, sockets, log, files, working, readable, filtering, pending) ==
  [platform |-> platform, sockets |-> sockets, log |-> log, files |-> files,
   working |-> working, readable |-> readable, filtering |-> filtering, pending |-> pending]

Row(protocol, v6, state, address, port, remote) ==
  [protocol |-> protocol, v6 |-> v6, state |-> state, address |-> address, port |-> port,
   remote |-> remote]

\* probe::run: a command of the allow list that exits with zero in time.  dnf
\* check-update exits with 100 when there are updates.
Allowed == {"ss", "netstat", "journalctl", "wevtutil", "ufw", "firewall-cmd", "nft", "netsh",
            "socketfilterfw", "apt-get", "dnf"}

Runs(host, program) ==
  /\ program \in Allowed
  /\ program \in host.working
  /\ program = "dnf" => host.pending = 0

-----------------------------------------------------------------------------
\* net.rs.

\* split_endpoint and normalise_wildcard: "*" becomes 0.0.0.0.
Normalised(address) == IF address = "wildcard" THEN "unspecified" ELSE address

\* aggregate_peers: one entry per remote address and local port.
AggregatePeers(rows) ==
  AsSeq({Peer(Normalised(rows[i].remote), rows[i].port) : i \in DOMAIN rows})

\* A network surface of the rows that listen and those that are connected.
Told(listening, established) ==
  [listeners |-> [i \in DOMAIN listening |->
                    Socket(listening[i].protocol, Normalised(listening[i].address),
                           listening[i].port)],
   peers |-> AggregatePeers(established),
   gaps |-> {}]

Surveyed(rows, Listens(_)) ==
  Told(Where(rows, Listens),
       Where(rows, LAMBDA row : ~Listens(row) /\ row.state = "established"))

\* parse_ss: LISTEN, or UNCONN for udp.
ParseSs(rows) ==
  Surveyed(rows, LAMBDA row : row.state \in {"listen", "unconnected"})

\* parse_netstat_windows: a udp row has no state, and listens "by nature".
ParseNetstatWindows(rows) ==
  Surveyed(rows, LAMBDA row : row.protocol = "udp" \/ row.state = "listen")

\* parse_netstat_bsd: likewise; a row without a local port does not parse.
ParseNetstatBsd(rows) ==
  Surveyed(Where(rows, LAMBDA row : row.port # 0),
           LAMBDA row : row.protocol = "udp" \/ row.state = "listen")

\* Mutant: 0A is taken to be the listening state of udp too.
ParseProcNetTcpOnly(rows, protocol, v6) ==
  Surveyed(Where(rows, LAMBDA row : row.protocol = protocol /\ row.v6 = v6),
           LAMBDA row : row.state = "listen")

\* parse_proc_net: 0A is tcp LISTEN, 07 a udp socket that is not connected, 01
\* an established one of either.
ParseProcNet(rows, protocol, v6) ==
  Surveyed(Where(rows, LAMBDA row : row.protocol = protocol /\ row.v6 = v6),
           LAMBDA row : \/ row.state = "listen"
                        \/ protocol = "udp" /\ row.state = "unconnected")

\* read_proc_net: a table that cannot be read is passed over.
ReadProcNet(host) ==
  LET readable == Where(Tables, LAMBDA table : table \in host.readable)
      Parsed(table) == ParseProcNet(host.sockets, table[1], table[2])
  IN [listeners |-> FlattenSeq([i \in DOMAIN readable |-> Parsed(readable[i]).listeners]),
      peers |-> AsSeq(UNION {ToSet(Parsed(readable[i]).peers) : i \in DOMAIN readable}),
      gaps |-> {}]

NetworkGap == [listeners |-> <<>>, peers |-> <<>>, gaps |-> {"listeners"}]

\* Mutant: what the fallback could not read either is not declared.
CollectLinuxQuietly(host) ==
  IF Runs(host, "ss") THEN ParseSs(host.sockets) ELSE ReadProcNet(host)

\* collect_linux: the gap is declared only when the fallback found nothing.
CollectLinux(host) ==
  LET fallback == ReadProcNet(host)
  IN IF Runs(host, "ss") THEN ParseSs(host.sockets)
     ELSE IF fallback.listeners = <<>> /\ fallback.peers = <<>>
          THEN NetworkGap ELSE fallback

First(list, n) == IF Len(list) <= n THEN list ELSE SubSeq(list, 1, n)

\* NetworkSurface::truncate.
Truncate(surface) ==
  [listeners |-> First(surface.listeners, MaxListeners),
   peers |-> First(surface.peers, MaxPeers),
   gaps |-> surface.gaps
            \cup (IF Len(surface.listeners) > MaxListeners THEN {"listeners"} ELSE {})
            \cup (IF Len(surface.peers) > MaxPeers THEN {"peers"} ELSE {})]

CollectNetwork(host) ==
  Truncate(CASE host.platform = "linux" -> CollectLinux(host)
             [] host.platform = "windows" -> IF Runs(host, "netstat")
                                             THEN ParseNetstatWindows(host.sockets)
                                             ELSE NetworkGap
             [] host.platform = "macos" -> IF Runs(host, "netstat")
                                           THEN ParseNetstatBsd(host.sockets)
                                           ELSE NetworkGap
             [] host.platform = "unknown" -> NetworkGap)

-----------------------------------------------------------------------------
\* authlog.rs.  A line has the kind of its message, a source, a user name, and
\* for a line the logger collapsed how often it was repeated.  The services are
\* left out: a platform has one, sshd or the Windows logon.

Line(kind, source, username, repeated, recent) ==
  [kind |-> kind, source |-> source, username |-> username, repeated |-> repeated,
   recent |-> recent]

FailureKinds == {"failed password", "invalid user", "failed publickey"}

\* One event per line that matches: an attempt with an unknown user name logs
\* "Invalid user" and "Failed password", and both count; a repeated line counts
\* once.
ParseLine(line) ==
  CASE line.kind \in FailureKinds ->
         <<AuthEvent(line.source, {line.username}, "failure", 1)>>
    [] line.kind = "accepted" -> <<AuthEvent(line.source, {line.username}, "success", 1)>>
    [] OTHER -> <<>>

\* Mutant: rows are grouped but their counts are not added up.
AggregateOnce(events) ==
  AsSeq(ToSet(events))

Same(events, e) ==
  Where(events, LAMBDA d : /\ d.source = e.source
                           /\ d.username = e.username
                           /\ d.outcome = e.outcome)

\* The row of an event: the event with the counts of all that are like it.
Summed(events, e) ==
  LET same == Same(events, e)
  IN [e EXCEPT !.count = Total([i \in DOMAIN same |-> same[i].count])]

\* aggregate: rows of one source, user and outcome are added up, the largest
\* counts come first and the rest is dropped.
Aggregate(events) ==
  LET rows == {Summed(events, e) : e \in ToSet(events)}
      most == Max({0} \cup {row.count : row \in rows})
      sorted == InTurn([k \in 1..most |-> {row \in rows : row.count = most + 1 - k}])
  IN SubSeq(sorted, 1, Min({Len(sorted), MaxEvents}))

ParseLog(lines) == Aggregate(FlattenSeq([i \in DOMAIN lines |-> ParseLine(lines[i])]))

AuthGap == [events |-> <<>>, gaps |-> {"auth-events"}]

\* The end of a log.
Newest(log, n) == IF Len(log) <= n THEN log ELSE SubSeq(log, Len(log) - n + 1, Len(log))

\* The newest events of an outcome in the security record, whose they may be.
Queried(log, kinds) == Newest(Where(log, LAMBDA line : line.kind \in kinds), MaxQueried)

\* What is read of the log: of the journal the window, of a file the last lines,
\* of the security record the newest failures and successes, without a window;
\* the two queries are taken to run or fail together.  What lies beyond is not
\* declared.
ReadLog(host) ==
  CASE host.platform = "linux" /\ Runs(host, "journalctl") ->
         Where(host.log, LAMBDA line : line.recent)
    [] host.platform = "linux" /\ ~Runs(host, "journalctl") -> Newest(host.log, MaxLines)
    [] OTHER -> Queried(host.log, FailureKinds) \o Queried(host.log, {"accepted"})

LogAnswers(host) ==
  \/ host.platform = "linux" /\ (Runs(host, "journalctl") \/ LogFile \in host.readable)
  \/ host.platform = "windows" /\ Runs(host, "wevtutil")

\* collect: on Windows nothing that came from the host itself.
CollectAuth(host) ==
  IF ~LogAnswers(host) THEN AuthGap
  ELSE [events |-> ParseLog(Where(ReadLog(host), LAMBDA line :
                              host.platform = "windows" => line.source # "localhost")),
        gaps |-> {}]

-----------------------------------------------------------------------------
\* baseline.rs.  filtering: the firewall engines of the host and whether each
\* is enabled and denies by default.

\* firewall: the first engine whose tool answers.  firewalld and the application
\* firewall are taken to deny whenever they are enabled.
FirewallOf(host) ==
  LET Tool(engine) == CASE engine = "ufw" -> "ufw"
                        [] engine = "firewalld" -> "firewall-cmd"
                        [] engine = "nftables" -> "nft"
                        [] engine = "windows-defender-firewall" -> "netsh"
                        [] engine = "application-firewall" -> "socketfilterfw"
      candidates == CASE host.platform = "linux" -> <<"ufw", "firewalld", "nftables">>
                      [] host.platform = "windows" -> <<"windows-defender-firewall">>
                      [] host.platform = "macos" -> <<"application-firewall">>
                      [] OTHER -> <<>>
      answering == Where(candidates, LAMBDA engine : Runs(host, Tool(engine)))
  IN IF answering = <<>> THEN {}
     ELSE LET state == host.filtering[answering[1]]
              assumed == answering[1] \in {"firewalld", "application-firewall"}
          IN {Firewall(answering[1], state.enabled,
                       IF assumed THEN state.enabled ELSE state.default_inbound_deny)}

\* pending_updates: apt-get, then dnf, which answers only when there is nothing.
PendingUpdates(host) ==
  IF host.platform # "linux" THEN {}
  ELSE IF Runs(host, "apt-get") THEN {host.pending}
  ELSE IF Runs(host, "dnf") THEN {0} ELSE {}

CollectBaseline(host) ==
  [firewall |-> FirewallOf(host), updates |-> PendingUpdates(host),
   gaps |-> (IF FirewallOf(host) = {} THEN {"firewall"} ELSE {})
            \cup (IF PendingUpdates(host) = {} THEN {"security-updates"} ELSE {})]

-----------------------------------------------------------------------------
\* integrity.rs: a file that does not exist is passed over, one that cannot be
\* read, or is too large, is a gap.
CollectFiles(host) ==
  LET present == Where(host.files, LAMBDA file : file.state = "readable")
  IN [files |-> [i \in DOMAIN present |->
                   WatchedFile(present[i].path, present[i].digest, present[i].world_writable)],
      gaps |-> IF \E i \in DOMAIN host.files : host.files[i].state = "unreadable"
               THEN {"watched-files"} ELSE {}]

-----------------------------------------------------------------------------
\* Collector::security: the four collectors run at once and their gaps are
\* joined.  An agent that only reports metrics sends no signals at all.
Collect(host) ==
  LET network == CollectNetwork(host)
      auth == CollectAuth(host)
      files == CollectFiles(host)
      controls == CollectBaseline(host)
  IN [listeners |-> network.listeners, peers |-> network.peers, auth_events |-> auth.events,
      watched_files |-> files.files, firewall |-> controls.firewall,
      updates |-> controls.updates,
      gaps |-> network.gaps \cup auth.gaps \cup files.gaps \cup controls.gaps]
=============================================================================
