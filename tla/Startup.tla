------------------------------- MODULE Startup -------------------------------
(***************************************************************************)
(* An instance from its command line to its last answer: what its settings *)
(* must satisfy (rootcause-server/src/config.rs), the order in which it    *)
(* comes up and goes down (main.rs, state.rs), and who is let in (auth.rs, *)
(* the router of api.rs).  Requests are told apart by where they come      *)
(* from, what they ask for and the credential they carry; the perimeter's  *)
(* verdict is any (module Perimeter).                                      *)
(***************************************************************************)
EXTENDS Policy

CONSTANTS
  PolicyFiles,  \* what --policy-file may name: whether it is given, whether it
                \* is read and is JSON, and the policy it holds
  MaxRequests   \* bound on the requests in flight, for TLC

Settings ==
  [url : {"sqlite", "other"}, token : {"absent", "short", "padded", "good"},
   insecure : BOOLEAN, bind : {"loopback", "elsewhere"}, forwarded : BOOLEAN,
   in_range : BOOLEAN, file : PolicyFiles]

Requests ==
  [from : {"same host", "elsewhere"}, path : {"protected", "ready", "alive"},
   credential : {"none", "wrong", "right"}]

VARIABLES
  phase,     \* how far the instance has come
  settings,  \* what it was started with
  policy,    \* {} or the policy of its engine
  storage,   \* whether its database answers
  inflight,  \* requests being served
  answer     \* {} or the last answer

startupVars == <<phase, settings, policy, storage, inflight, answer>>

Phases == {"down", "parsed", "validated", "engine", "connected", "serving", "stopping", "refused"}

StartupInit ==
  /\ phase = "down"
  /\ settings \in Settings
  /\ policy = {}
  /\ storage = FALSE
  /\ inflight = {}
  /\ answer = {}

-----------------------------------------------------------------------------
\* run: every step of the start may refuse, and nothing listens before the last.

\* Cli::parse: numbers outside their ranges are refused.
Launch ==
  /\ phase \in {"down", "refused"}
  /\ settings' \in Settings
  /\ phase' = IF settings'.in_range THEN "parsed" ELSE "refused"
  /\ policy' = {}
  /\ storage' = FALSE
  /\ inflight' = {}
  /\ answer' = {}

\* Mutant: an instance without a token may listen anywhere.
AcceptableAnywhere(s) ==
  /\ s.url = "sqlite"
  /\ s.token \notin {"short", "padded"}
  /\ s.token = "absent" => s.insecure
  /\ s.forwarded => s.bind # "loopback"

\* ServeSettings::validate.
Acceptable(s) ==
  /\ s.url = "sqlite"
  /\ s.token \notin {"short", "padded"}
  /\ s.token = "absent" => s.insecure /\ s.bind = "loopback"
  /\ s.forwarded => s.bind # "loopback"

ValidateSettings ==
  /\ phase = "parsed"
  /\ phase' = IF Acceptable(settings) THEN "validated" ELSE "refused"
  /\ UNCHANGED <<settings, policy, storage, inflight, answer>>

\* detection_policy and DetectionEngine::new, which validates once more.
BuildEngine ==
  LET file == settings.file
      chosen == IF file.given THEN file.policy ELSE DefaultPolicy
  IN /\ phase = "validated"
     /\ IF (file.given => file.parses) /\ Validate(chosen)
        THEN phase' = "engine" /\ policy' = {chosen}
        ELSE phase' = "refused" /\ UNCHANGED policy
     /\ UNCHANGED <<settings, storage, inflight, answer>>

\* Database::connect with its migrations.
Connect ==
  /\ phase = "engine"
  /\ \/ phase' = "connected" /\ storage' = TRUE
     \/ phase' = "refused" /\ UNCHANGED storage
  /\ UNCHANGED <<settings, policy, inflight, answer>>

\* TcpListener::bind, announce, the watchdog and axum::serve.
Bind ==
  /\ phase = "connected"
  /\ phase' \in {"serving", "refused"}
  /\ UNCHANGED <<settings, policy, storage, inflight, answer>>

-----------------------------------------------------------------------------
\* Requests.

\* A listener on loopback is reached from its own host only.
Receive ==
  /\ phase = "serving"
  /\ Cardinality(inflight) < MaxRequests
  /\ \E request \in Requests :
       /\ request.from = "elsewhere" => settings.bind # "loopback"
       /\ inflight' = inflight \cup {request}
  /\ UNCHANGED <<phase, settings, policy, storage, answer>>

\* tokens_match: without a token in the settings nothing is asked for.
Admitted(request) == settings.token = "absent" \/ request.credential = "right"

\* require_auth and the route: limit and lockout, then the credential, then the
\* database.  /readyz asks the database only; /healthz and the console's files
\* are always there.
Verdicts(request) ==
  (IF request.path = "protected" THEN {"throttled"} ELSE {})
  \cup (IF request.path = "protected" /\ ~Admitted(request) THEN {"unauthorized"}
        ELSE IF storage \/ request.path = "alive" THEN {"ok"} ELSE {"internal"})

\* Requests are answered also after the signal, in time or by the timeout layer.
Answer ==
  /\ phase \in {"serving", "stopping"}
  /\ \E request \in inflight, verdict \in {"ok", "throttled", "unauthorized", "internal", "timeout"} :
       /\ verdict \in Verdicts(request) \cup {"timeout"}
       /\ inflight' = inflight \ {request}
       /\ answer' = {[request |-> request, verdict |-> verdict]}
  /\ UNCHANGED <<phase, settings, policy, storage>>

\* The database stops answering, or does so again.
Fail ==
  /\ phase \in {"serving", "stopping"}
  /\ storage' = ~storage
  /\ UNCHANGED <<phase, settings, policy, inflight, answer>>

\* shutdown_signal: no more connections, those in flight are drained.
Signal ==
  /\ phase = "serving"
  /\ phase' = "stopping"
  /\ UNCHANGED <<settings, policy, storage, inflight, answer>>

Stop ==
  /\ phase = "stopping"
  /\ inflight = {}
  /\ phase' = "down"
  /\ UNCHANGED <<settings, policy, storage, inflight, answer>>

\* The process is killed.
Crash ==
  /\ phase \notin {"down", "refused"}
  /\ phase' = "down"
  /\ inflight' = {}
  /\ UNCHANGED <<settings, policy, storage, answer>>

StartupNext ==
  \/ Launch \/ ValidateSettings \/ BuildEngine \/ Connect \/ Bind
  \/ Receive \/ Answer \/ Fail
  \/ Signal \/ Stop \/ Crash

StartupSpec == StartupInit /\ [][StartupNext]_startupVars

-----------------------------------------------------------------------------
StartupTypeOK ==
  /\ phase \in Phases
  /\ settings \in Settings
  /\ storage \in BOOLEAN
  /\ inflight \subseteq Requests
  /\ \A a \in answer : a.request \in Requests

\* Whatever was typed at the start, nobody gets an answer of the control plane
\* without its token, except on the machine itself and from an instance that
\* was told to be insecure; and whatever is answered was judged under a policy
\* that validates ("there is no configuration file that can silently open the
\* server to the network").
Sealed ==
  /\ \A a \in answer : a.verdict = "ok" /\ a.request.path = "protected" =>
       \/ a.request.credential = "right" /\ settings.token = "good"
       \/ /\ a.request.from = "same host"
          /\ settings.insecure /\ settings.token = "absent"
          /\ ~settings.forwarded
  /\ phase \in {"serving", "stopping"} =>
       Cardinality(policy) = 1 /\ \A p \in policy : Validate(p)
=============================================================================
