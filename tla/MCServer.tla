------------------------------ MODULE MCServer ------------------------------
(***************************************************************************)
(* One run for the components that share no state with one another: which  *)
(* of them moves is chosen at the start.  Each is checked as it would be   *)
(* alone; the others rest in an initial state, where their invariants hold *)
(* and none of their steps is taken.                                       *)
(***************************************************************************)
EXTENDS Posture, Runbooks, AssetStore, Startup, Assessment, Trends

-----------------------------------------------------------------------------
\* Assessment: hosts, by what may change on them.

EveryTable == ToSet(Tables)
Filtering(ufw, firewalld, nft) ==
  [engine \in {"ufw", "firewalld", "nftables", "windows-defender-firewall", "application-firewall"} |->
     LET state == CASE engine = "ufw" -> ufw [] engine = "firewalld" -> firewalld [] OTHER -> nft
     IN [enabled |-> state # "off", default_inbound_deny |-> state = "denying"]]
Denying == Filtering("denying", "denying", "denying")

LinuxTools == {"ss", "journalctl", "ufw", "apt-get"}
Linux == Host("linux", <<>>, <<>>, <<>>, LinuxTools, EveryTable \cup {LogFile}, Denying, 0)
Windows == Host("windows", <<>>, <<>>, <<>>, {"netstat", "wevtutil", "netsh"}, {}, Denying, 0)
MacOS == Host("macos", <<>>, <<>>, <<>>, {"netstat", "socketfilterfw"}, {}, Denying, 0)

Listen(address, port) == Row("tcp", FALSE, "listen", address, port, "none")
Listen6(address, port) == Row("tcp", TRUE, "listen", address, port, "none")
Datagram(address, port) == Row("udp", FALSE, "unconnected", address, port, "none")
Talking(port, remote) == Row("tcp", FALSE, "established", "private v4", port, remote)

SocketTables ==
  { <<>>,
    <<Listen("unspecified", 5432)>>,
    <<Listen("private v4", 22), Listen6("wildcard", 22)>>,
    <<Listen6("global", 22), Listen("private v4", 22), Datagram("unspecified", 514)>>,
    <<Listen("unspecified", 443), Listen("cgnat", 80), Listen("private v4", 8080), Listen("unspecified", 25)>>,
    <<Listen("loopback", 5432), Talking(22, "a"), Talking(22, "a"), Talking(22, "b")>>,
    <<Listen6("mapped", 6379), Listen("unparseable", 9999), Talking(443, "a"), Talking(443, "b"),
      Talking(80, "c")>> }

SocketHosts ==
  {[Linux EXCEPT !.sockets = sockets, !.working = working, !.readable = readable] :
     sockets \in SocketTables, working \in {LinuxTools}, readable \in {EveryTable}}
  \cup {[Linux EXCEPT !.sockets = sockets, !.working = LinuxTools \ {"ss"}, !.readable = readable] :
     sockets \in SocketTables, readable \in {EveryTable, {<<"tcp", FALSE>>, <<"udp", FALSE>>}, {}}}
OtherHosts(base) ==
  {[base EXCEPT !.sockets = sockets, !.working = working] :
     sockets \in SocketTables \cup {<<Row("udp", FALSE, "established", "private v4", 0, "a")>>},
     working \in {base.working, {}}}

Failed(source, username) == Line("failed password", source, username, 1, TRUE)
Old(line) == [line EXCEPT !.recent = FALSE]
Logs ==
  { <<>>,
    <<Failed("a", "root"), Failed("a", "admin"), Failed("b", "root"), Failed("b", "root")>>,
    <<Failed("a", "root"), Line("invalid user", "a", "x", 1, TRUE), Failed("a", "x"),
      Line("accepted", "a", "root", 1, TRUE), Line("other", "a", "root", 1, TRUE)>>,
    <<Failed("a", "u1"), Failed("a", "u2"), Failed("a", "u3"), Failed("b", "u1"), Failed("b", "u1")>>,
    <<Old(Failed("a", "root")), Old(Failed("a", "root")), Line("failed publickey", "b", "git", 1, TRUE)>> }
LogHosts ==
  {[Linux EXCEPT !.log = log, !.working = working, !.readable = readable] :
     log \in Logs, working \in {LinuxTools, LinuxTools \ {"journalctl"}},
     readable \in {EveryTable, EveryTable \cup {LogFile}}}
WindowsLogHosts ==
  {[Windows EXCEPT !.log = Append(log, Failed("localhost", "svc")), !.working = working] :
     log \in Logs, working \in {Windows.working, {}}}

File(path, digest, world_writable, state) ==
  [path |-> path, digest |-> digest, world_writable |-> world_writable, state |-> state]
FileHosts ==
  {[Linux EXCEPT !.files = <<File("sudoers", digest, writable, state), File("fstab", digest, FALSE, "readable")>>] :
     digest \in {"d1", "d2"}, writable \in BOOLEAN, state \in {"readable", "unreadable", "absent"}}

ControlHosts ==
  {[Linux EXCEPT !.working = {"ss", "journalctl"} \cup tools, !.pending = updates,
                 !.filtering = Filtering(ufw, "denying", "open")] :
     tools \in {{"ufw", "apt-get"}, {"nft", "dnf"}, {"firewall-cmd"}, {"apt-get"}, {"ufw", "dnf"}},
     updates \in {0, 1, 3}, ufw \in {"off", "open", "denying"}}

MCFamilies ==
  [sockets |-> SocketHosts, windows |-> OtherHosts(Windows), macos |-> OtherHosts(MacOS),
   log |-> LogHosts, events |-> WindowsLogHosts, files |-> FileHosts, controls |-> ControlHosts,
   other |-> {[Linux EXCEPT !.platform = "unknown"]}]
MCRoleLabels == {"edge", "database"}
MCActivePolicy ==
  [DefaultPolicy EXCEPT !.failures_per_source_high = 2, !.failures_per_source_critical = 4,
                        !.sprayed_usernames = 3, !.distributed_sources = 2, !.peer_fanin_high = 2,
                        !.peer_fanin_critical = 3, !.pending_updates_high = 2, !.public_allowlist = {8080}]

-----------------------------------------------------------------------------
\* Trends: what a machine measures, one thing at a time.

Tuned ==
  [DefaultPolicy EXCEPT !.cpu_sustained_samples = 3, !.disk_runway_hours = 6,
                        !.egress_multiplier = 3, !.egress_floor = 2, !.clock_skew_seconds = 2]
Still == [policy |-> Tuned, skew |-> 0, reboots |-> FALSE, cpu |-> {10}, growth |-> {0},
          sent |-> {1}]
MCTrendSetups ==
  { [Still EXCEPT !.cpu = {10, 99}],
    [Still EXCEPT !.cpu = {10, 99}, !.policy.cpu_sustained_samples = 4],
    [Still EXCEPT !.growth = {0, 29}],
    [Still EXCEPT !.growth = {0, 29}, !.policy.disk_high = 98],
    [Still EXCEPT !.sent = {2, 20}, !.reboots = TRUE, !.policy.egress_multiplier = 2],
    [Still EXCEPT !.skew = 3] }

-----------------------------------------------------------------------------
\* AssetStore: handlers that overlap, windows that overlap, rows that expire.

Served == [NoSignals EXCEPT !.listeners = << Socket("tcp", "unspecified", 5432),
                                             Socket("tcp", "private v4", 22),
                                             Socket("udp", "private v4", 5353),
                                             Socket("udp", "loopback", 53) >>]
Inside == [NoSignals EXCEPT !.listeners = << Socket("tcp", "loopback", 5432) >>]
Unread == [NoSignals EXCEPT !.gaps = {"listeners"}]

One == [retention |-> 2, handlers |-> {"h1"}, surfaces |-> {Served}, roles |-> {"internal"},
        changes |-> 0, time |-> 1, users |-> {}, known |-> {}, lines |-> 0, defenses |-> 0,
        faults |-> 0]
Tried == [One EXCEPT !.users = {"root", "x"}, !.known = {"root"}]
Two == [One EXCEPT !.handlers = {"h1", "h2"}]
Expiring == [One EXCEPT !.retention = 1, !.time = 3, !.faults = 1]
MCStoreSetups ==
  { [Two EXCEPT !.surfaces = {Served, Inside, Unread}, !.changes = 1, !.faults = 1],
    [Tried EXCEPT !.handlers = {"h1", "h2"}, !.lines = 1, !.time = 2],
    [Tried EXCEPT !.lines = 2, !.time = 2],
    [Tried EXCEPT !.retention = 1, !.lines = 1, !.time = 3],
    [Tried EXCEPT !.retention = 1, !.lines = 1, !.time = 2, !.faults = 1],
    [Expiring EXCEPT !.defenses = 1] }

-----------------------------------------------------------------------------
\* Startup: no file, one that is not JSON, one that is refused and one that is not.

Given(parses, held) == [given |-> TRUE, parses |-> parses, policy |-> held]
MCPolicyFiles ==
  { [Given(FALSE, DefaultPolicy) EXCEPT !.given = FALSE],
    Given(FALSE, DefaultPolicy),
    Given(TRUE, [DefaultPolicy EXCEPT !.disk_high = 98]),
    Given(TRUE, [DefaultPolicy EXCEPT !.disk_high = 80]) }

-----------------------------------------------------------------------------
VARIABLE focus   \* the component that moves

vars == <<focus, postureVars, runbookVars, assessmentVars, trendVars, storeVars, startupVars>>

\* A component that does not move rests in one of its initial states.
Rests(component, state) == IF focus = component THEN TRUE ELSE state

Init ==
  /\ focus \in {"posture", "runbooks", "assessment", "trends", "store", "startup"}
  /\ PostureInit
  /\ Rests("runbooks", finding = [rule |-> "hygiene.updates.pending", platform |-> "unknown"])
  /\ RunbookInit
  /\ Rests("assessment", family = "other" /\ role = "edge")
  /\ AssessmentInit
  /\ Rests("trends", course = [Still EXCEPT !.skew = 3])
  /\ TrendInit
  /\ Rests("store", setup = [Expiring EXCEPT !.defenses = 1])
  /\ StoreInit
  /\ Rests("startup", settings = CHOOSE s \in Settings : TRUE)
  /\ StartupInit

Next ==
  /\ UNCHANGED focus
  /\ \/ focus = "posture" /\ PostureNext /\ UNCHANGED <<runbookVars, assessmentVars, trendVars, storeVars, startupVars>>
     \/ focus = "runbooks" /\ RunbookNext /\ UNCHANGED <<postureVars, assessmentVars, trendVars, storeVars, startupVars>>
     \/ focus = "assessment" /\ AssessmentNext /\ UNCHANGED <<postureVars, runbookVars, trendVars, storeVars, startupVars>>
     \/ focus = "trends" /\ TrendNext /\ UNCHANGED <<postureVars, runbookVars, assessmentVars, storeVars, startupVars>>
     \/ focus = "store" /\ StoreNext /\ UNCHANGED <<postureVars, runbookVars, assessmentVars, trendVars, startupVars>>
     \/ focus = "startup" /\ StartupNext /\ UNCHANGED <<postureVars, runbookVars, assessmentVars, trendVars, storeVars>>

Spec == Init /\ [][Next]_vars /\ (focus = "store" => StoreFairness)

-----------------------------------------------------------------------------
\* Every component keeps its type; of Assessment, also that no two findings of
\* an envelope share a fingerprint (merge_by_fingerprint).
TypeOK == PostureTypeOK /\ RunbookTypeOK /\ AssessmentTypeOK /\ TrendTypeOK /\ StoreTypeOK /\ StartupTypeOK

\* The reports come to tell what the machine is (store_sample, store_security).
StoreConverges == focus = "store" => ViewsConverge

\* What is past its window is deleted in the end (purge, watchdog::run).
StoreForgets == focus = "store" => ExpiredEventuallyGone
=============================================================================
