----------------------------- MODULE Assessment -----------------------------
(***************************************************************************)
(* From a machine to its incidents: the agent's collectors, the rules and  *)
(* what the telemetry handler (rootcause-server/src/api.rs) makes of their *)
(* findings, over cycles in which the machine, its tools and the           *)
(* operator's decisions change.  One handler at a time, complete or cut    *)
(* after some of its findings; overlapping handlers are the subject of     *)
(* Incidents, rules with a history that of Trends.                         *)
(***************************************************************************)
EXTENDS Collectors, Rules

CONSTANTS
  Families,     \* sets of hosts, by name: a machine changes within its family
  RoleLabels,   \* the role labels an asset is registered with
  ActivePolicy, \* the policy in force
  MaxCycles     \* bound on the envelopes, for TLC

\* A row of the socket table: a tcp socket listens or not, a udp socket is
\* connected or not.
IsRow(row) ==
  /\ row.protocol \in Protocols /\ row.v6 \in BOOLEAN
  /\ row.address \in AddressKinds /\ row.port \in Nat
  /\ row.protocol = "tcp" => row.state \in {"listen", "established", "other"}
  /\ row.protocol = "udp" => row.state \in {"unconnected", "established", "other"}

IsHost(machine) ==
  /\ machine = Host(machine.platform, machine.sockets, machine.log, machine.files,
                    machine.working, machine.readable, machine.filtering, machine.pending)
  /\ machine.platform \in Platforms
  /\ \A list \in {machine.sockets, machine.log, machine.files} : list \in Seq(ToSet(list))
  /\ \A row \in ToSet(machine.sockets) : IsRow(row)
  /\ \A file \in ToSet(machine.files) : file.state \in {"readable", "unreadable", "absent"}
  /\ machine.pending \in Nat

\* The policy was validated at start-up and its counts are unsigned.
ASSUME AssessmentAssumption ==
  /\ MaxCycles \in Nat
  /\ \A name \in DOMAIN Families : \A machine \in Families[name] : IsHost(machine)
  /\ Validate(ActivePolicy)
  /\ ActivePolicy.failures_per_source_high \in Nat

VARIABLES
  role,      \* the role of the asset
  host,      \* what is true of the machine
  family,    \* the family of hosts it may change into
  signals,   \* the last snapshot
  found,     \* what the engine found in it
  stored,    \* how many of the findings were stored
  last,      \* how the last handler ended
  incidents, \* by fingerprint
  baseline,  \* digests by path
  cycles     \* envelopes left

assessmentVars == <<role, host, family, signals, found, stored, last, incidents, baseline, cycles>>

\* The empty function.
Nothing == [x \in {} |-> x]

AssessmentInit ==
  /\ family \in DOMAIN Families
  /\ host \in Families[family]
  /\ role \in {RoleOf(label) : label \in RoleLabels}
  /\ signals = NoSignals
  /\ found = <<>>
  /\ stored = 0
  /\ last = "none"
  /\ incidents = Nothing
  /\ baseline = Nothing
  /\ cycles = MaxCycles

-----------------------------------------------------------------------------
\* upsert_incident: the worst severity is kept, a resolved incident reopens.
UpsertedFinding(table, finding) ==
  LET fp == finding.fingerprint
      before == table[fp]
  IN [other \in (DOMAIN table) \cup {fp} |->
        IF other # fp THEN table[other]
        ELSE IF fp \in DOMAIN table
        THEN [before EXCEPT !.severity = Max({before.severity, finding.severity}),
                            !.status = IF before.status = "resolved" THEN "open" ELSE @]
        ELSE [category |-> finding.category, severity |-> finding.severity, status |-> "open"]]

\* The incidents after the first n findings.
Stored(findings, n) ==
  LET table[i \in 0..n] ==
        IF i = 0 THEN incidents ELSE UpsertedFinding(table[i - 1], findings[i])
  IN table[n]

\* Mutant: hygiene heals although the updates could not be counted.
SelfHealingEager(gaps) ==
  (IF "listeners" \in gaps THEN {} ELSE {"exposure"})
  \cup (IF "firewall" \in gaps THEN {} ELSE {"hygiene"})

\* self_healing_categories.
SelfHealing(gaps) ==
  (IF "listeners" \in gaps THEN {} ELSE {"exposure"})
  \cup (IF {"firewall", "security-updates"} \cap gaps = {} THEN {"hygiene"} ELSE {})

\* auto_resolve: unresolved incidents of those categories not found this time.
Healed(table, findings, gaps) ==
  LET observed == {finding.fingerprint : finding \in ToSet(findings)}
  IN [fp \in DOMAIN table |->
        IF table[fp].category \in SelfHealing(gaps) /\ fp \notin observed
        THEN [table[fp] EXCEPT !.status = "resolved"] ELSE table[fp]]

Advanced(files) ==
  LET paths == {file.path : file \in ToSet(files)}
  IN [path \in (DOMAIN baseline) \cup paths |->
        IF path \in paths THEN (CHOOSE file \in ToSet(files) : file.path = path).digest
                          ELSE baseline[path]]

\* The resources are quiet and the clock is right.
Quiet == Sample(0, 0, 0, 0, 0)

\* The agent collects and its envelope reaches the engine.
Examined ==
  /\ cycles > 0
  /\ cycles' = cycles - 1
  /\ signals' = Collect(host)
  /\ found' = Analyze(ActivePolicy, [Input(role, Quiet, 0, baseline) EXCEPT !.security = {signals'}])
  /\ UNCHANGED <<role, host, family>>

\* The handler runs to its end.
Complete ==
  /\ Examined
  /\ stored' = Len(found')
  /\ incidents' = Healed(Stored(found', Len(found')), found', signals'.gaps)
  /\ baseline' = Advanced(signals'.watched_files)
  /\ last' = "complete"

\* The handler is dropped after n findings: nothing heals, no baseline moves.
CutShort ==
  /\ Examined
  /\ \E n \in 0..Len(found') : /\ stored' = n
                               /\ incidents' = Stored(found', n)
  /\ last' = "cut"
  /\ UNCHANGED baseline

\* An agent started with --metrics-only sends no snapshot, which closes nothing.
ReportMetricsOnly ==
  /\ cycles > 0
  /\ cycles' = cycles - 1
  /\ signals' = NoSignals
  /\ found' = Analyze(ActivePolicy, Input(role, Quiet, 0, baseline))
  /\ stored' = Len(found')
  /\ incidents' = Stored(found', Len(found'))
  /\ last' = "metrics"
  /\ UNCHANGED <<role, host, family, baseline>>

\* The machine, or what its tools can tell of it, changes.
HostChanges ==
  /\ cycles > 0
  /\ host' \in Families[family] \ {host}
  /\ last' = "none"
  /\ UNCHANGED <<role, family, signals, found, stored, incidents, baseline, cycles>>

\* update_incident_status.
OperatorResolves ==
  /\ cycles > 0
  /\ \E fp \in DOMAIN incidents :
       /\ incidents[fp].status # "resolved"
       /\ incidents' = [incidents EXCEPT ![fp].status = "resolved"]
  /\ last' = "none"
  /\ UNCHANGED <<role, host, family, signals, found, stored, baseline, cycles>>

\* Every envelope of the bound was sent.
AssessmentDone == cycles = 0 /\ UNCHANGED assessmentVars

AssessmentNext ==
  \/ Complete
  \/ CutShort
  \/ ReportMetricsOnly
  \/ HostChanges
  \/ OperatorResolves
  \/ AssessmentDone

AssessmentSpec == AssessmentInit /\ [][AssessmentNext]_assessmentVars

-----------------------------------------------------------------------------
\* What is true of the machine, told without the agent's words for it.

AssessmentTypeOK ==
  /\ role \in Roles
  /\ \A socket \in ToSet(signals.listeners) :
       socket \in [protocol : Protocols, address : AddressKinds, port : Nat, scope : Scopes]
  /\ stored \in 0..Len(found)
  /\ \A fp \in DOMAIN incidents :
       /\ incidents[fp].category = CatalogOf(fp[1]).category
       /\ incidents[fp].severity \in Low..Critical
       /\ incidents[fp].status \in {"open", "resolved"}
  /\ \A i, j \in DOMAIN found : found[i].fingerprint = found[j].fingerprint => i = j

\* A row the machine accepts connections or datagrams on.
Listening(row) == /\ row.port # 0
                  /\ \/ row.state = "listen"
                     \/ row.protocol = "udp" /\ row.state = "unconnected"

\* The reach of an address; only what is surely the machine's own is harmless.
TrueScope(address) ==
  CASE address = "loopback" -> "loopback"
    [] address \in Inward -> "private"
    [] OTHER -> "public"

Row2Socket(row) == [protocol |-> row.protocol, port |-> row.port, scope |-> TrueScope(row.address)]

\* The rows of the machine that deserve a finding.
Exposed == {row \in ToSet(host.sockets) : Listening(row) /\ Reported(ActivePolicy, role, Row2Socket(row))}

\* The fallback passes over a table it cannot read; it declares the gap only
\* when it had nothing at all to show.
Overlooked(row, shown) ==
  /\ host.platform = "linux"
  /\ ~Runs(host, "ss")
  /\ <<row.protocol, row.v6>> \notin host.readable
  /\ shown.listeners # <<>> \/ shown.peers # <<>>

Unresolved(fp, severity) ==
  /\ fp \in DOMAIN incidents
  /\ incidents[fp].status # "resolved"
  /\ incidents[fp].severity >= severity

\* After a complete handler every service reachable from elsewhere is an
\* unresolved incident of at least its severity, whichever tool listed it, in
\* whatever order and however often, or the listeners are a declared gap, or
\* the fallback passed over its table.
ExposureReported ==
  last = "complete" /\ "listeners" \notin signals.gaps =>
    \A row \in Exposed :
      \/ Overlooked(row, signals)
      \/ \E rule \in {"exposure.service.public", "exposure.cleartext.protocol"} :
           Unresolved(<<rule, <<row.protocol, row.port>>>>,
                      ExposureSeverity(PortClass(row.port), TrueScope(row.address), role))

\* The engine closes an exposure only when the port is no longer exposed, an
\* updates finding only when nothing is pending, and one about a firewall only
\* when that engine filters or another answers in its place, however the tools
\* fail ("reporting a zero where nobody looked").  The exception, in which the
\* code does close what is still true, is the table the fallback passed over.
ClosesOnlyGone ==
  \A fp \in DOMAIN incidents :
    /\ incidents[fp].status # "resolved"
    /\ incidents'[fp].status = "resolved"
    /\ last' # "none"
    => /\ incidents[fp].category = "exposure" =>
            \A row \in Exposed : <<row.protocol, row.port>> = fp[2] => Overlooked(row, signals')
       /\ fp[1] = "hygiene.updates.pending" => host.pending = 0
       /\ fp[1] = "hygiene.firewall.disabled" =>
            \E firewall \in FirewallOf(host) :
              firewall.engine = fp[2] => firewall.enabled /\ firewall.default_inbound_deny
ClosedMeansGone == [][ClosesOnlyGone]_assessmentVars

\* A handler that is cut has stored the worst of what it found.
CutKeepsWorst ==
  \A i \in 1..stored, j \in (stored + 1)..Len(found) : found[i].severity >= found[j].severity

\* Merging loses nothing: of all the candidates of an envelope, in whatever
\* order they come, each fingerprint has one finding, as severe as the worst of
\* them and with the evidence of all.
MergesAll ==
  cycles' < cycles =>
    LET input == [Input(role, Quiet, 0, baseline)
                    EXCEPT !.security = IF last' = "metrics" THEN {} ELSE {signals'}]
        candidates == ToSet(Candidates(ActivePolicy, input))
    IN \A c \in candidates :
         \E f \in ToSet(found') :
           LET same == {d \in candidates : d.fingerprint = c.fingerprint}
           IN /\ f.fingerprint = c.fingerprint
              /\ f.severity = Max({d.severity : d \in same})
              /\ f.evidence = UNION {d.evidence : d \in same}
NothingLost == [][MergesAll]_assessmentVars

\* A row of a connection.
Connected(row) == row.protocol = "tcp" /\ row.state = "established" /\ row.port # 0

\* A line that tells of an attempt from elsewhere, and an event that shows it.
FromElsewhere(line) == line.kind \in FailureKinds \cup {"accepted"} /\ line.source # "localhost"
ShownBy(line, event) ==
  /\ event.source = line.source
  /\ line.username \in event.username
  /\ event.outcome = IF line.kind = "accepted" THEN "success" ELSE "failure"

ListenerShown(row) ==
  \E socket \in ToSet(signals.listeners) : socket.protocol = row.protocol /\ socket.port = row.port
PeerShown(row) == Peer(Normalised(row.remote), row.port) \in ToSet(signals.peers)
AttemptShown(line) == \E event \in ToSet(signals.auth_events) : ShownBy(line, event)

\* What the host has and the snapshot does not show is declared, with three
\* exceptions, which the code does not declare: the table the fallback passed
\* over, attempts beyond MAX_EVENTS rows, and lines that are not read of the log.
\* (A listing that failed declares the listeners for the peers too.)
MissingDeclared ==
  last \in {"complete", "cut"} =>
    /\ "listeners" \notin signals.gaps =>
         \A row \in ToSet(host.sockets) :
           Listening(row) => Overlooked(row, signals) \/ ListenerShown(row)
    /\ {"listeners", "peers"} \cap signals.gaps = {} =>
         \A row \in ToSet(host.sockets) :
           Connected(row) => Overlooked(row, signals) \/ PeerShown(row)
    /\ "auth-events" \notin signals.gaps /\ Len(signals.auth_events) < MaxEvents =>
         \A line \in ToSet(ReadLog(host)) : FromElsewhere(line) => AttemptShown(line)
    /\ signals.firewall = {} => "firewall" \in signals.gaps
    /\ signals.updates = {} => "security-updates" \in signals.gaps
    /\ \A i \in DOMAIN host.files :
         \/ host.files[i].state = "absent"
         \/ \E file \in ToSet(signals.watched_files) : file.path = host.files[i].path
         \/ "watched-files" \in signals.gaps

\* "A gap is reported, never hidden", and "cada fuente que falla produce una
\* brecha explicita, no un hueco silencioso": without exception, a service that
\* listens and an attempt of the log's window are shown or their surface is a
\* declared gap (net.rs, authlog.rs).
GapsReported ==
  last \in {"complete", "cut"} =>
    /\ "listeners" \notin signals.gaps =>
         \A row \in ToSet(host.sockets) : Listening(row) => ListenerShown(row)
    /\ "auth-events" \notin signals.gaps =>
         \A line \in ToSet(host.log) : line.recent /\ FromElsewhere(line) => AttemptShown(line)

\* The Linux fallback sees what ss sees: of any sockets, the same listeners with
\* the same reach and the same peers, when every table can be read.
FallbackAgrees ==
  host.platform = "linux" =>
    LET told == ParseSs(host.sockets)
        read == ReadProcNet([host EXCEPT !.readable = ToSet(Tables)])
        Seen(socket) == <<socket.protocol, socket.port, socket.scope>>
    IN /\ {Seen(s) : s \in ToSet(told.listeners)} = {Seen(s) : s \in ToSet(read.listeners)}
       /\ ToSet(told.peers) = ToSet(read.peers)

\* A source that fails as often as the policy tolerates in what is read of the
\* log, under whatever names, is an unresolved incident after a complete handler,
\* unless the log could not be read or its rows do not fit in the report.  What
\* is read ends at the tail of a file and the newest events of a query, beyond
\* which a burst goes unseen.
BurstsReported ==
  last = "complete" /\ "auth-events" \notin signals.gaps /\ Len(signals.auth_events) < MaxEvents =>
    \A source \in {line.source : line \in ToSet(ReadLog(host))} \ {"localhost"} :
      LET failures == Where(ReadLog(host), LAMBDA line :
                        line.source = source /\ line.kind \in FailureKinds)
      IN Len(failures) >= ActivePolicy.failures_per_source_high =>
           Unresolved(<<"intrusion.auth.bruteforce", source>>, High)
=============================================================================
