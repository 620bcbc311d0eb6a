------------------------------ MODULE Runbooks ------------------------------
(***************************************************************************)
(* Guided response (rootcause-core/src/runbook.rs): the steps a finding    *)
(* carries, and an operator who follows them.  The server never runs a     *)
(* command; a step is its kind, the platform its command is for (none for  *)
(* advice) and whether the command needs privileges.  The texts are left   *)
(* out.                                                                    *)
(***************************************************************************)
EXTENDS Surface

-----------------------------------------------------------------------------
\* RunbookStep::advice, command and unprivileged; every step is reversible.
Advice == [kind |-> "inspect", platform |-> {}, privileged |-> FALSE]
Command(kind, platform) == [kind |-> kind, platform |-> {platform}, privileged |-> TRUE]
Unprivileged(step) == [step EXCEPT !.privileged = FALSE]

Changes(step) == step.kind \in {"contain", "remediate"}

BlockSource(platform) ==
  <<Advice>>
  \o (CASE platform = "linux" -> <<Command("inspect", "linux"), Command("contain", "linux"),
                                   Command("contain", "linux")>>
        [] platform = "windows" -> <<Command("inspect", "windows"), Command("contain", "windows")>>
        [] platform = "macos" -> <<Command("contain", "macos")>>
        [] platform = "unknown" -> <<Advice>>)
  \o <<Advice>>

\* Mutant: the port is closed first and the process identified afterwards.
RestrictListenerHastily(platform) ==
  <<Command("contain", platform), Command("inspect", platform), Advice>>

RestrictListener(platform) ==
  (CASE platform = "linux" -> <<Command("inspect", "linux"), Command("contain", "linux"), Advice>>
     [] platform = "windows" -> <<Command("inspect", "windows"), Command("contain", "windows")>>
     [] platform = "macos" -> <<Command("inspect", "macos")>>
     [] platform = "unknown" -> <<Advice>>)
  \o <<Advice>>

VerifyFile(platform) ==
  <<Advice>>
  \o (CASE platform \in {"linux", "macos"} -> <<Unprivileged(Command("inspect", platform)),
                                                Command("inspect", platform)>>
        [] platform = "windows" -> <<Unprivileged(Command("inspect", "windows"))>>
        [] platform = "unknown" -> <<>>)
  \o <<Advice>>

EnableFirewall(platform) ==
  CASE platform = "linux" -> <<Command("inspect", "linux"), Advice, Command("remediate", "linux")>>
    [] platform = "windows" -> <<Command("inspect", "windows"), Command("remediate", "windows")>>
    [] platform = "macos" -> <<Command("inspect", "macos")>>
    [] platform = "unknown" -> <<Advice>>

\* The runbook of each rule's findings; the others carry none.
Runbook(rule, platform) ==
  CASE rule \in {"intrusion.auth.bruteforce", "intrusion.auth.spray",
                 "intrusion.auth.success_after_burst"} -> BlockSource(platform)
    [] rule \in {"exposure.service.public", "exposure.cleartext.protocol"} ->
         RestrictListener(platform)
    [] rule \in {"integrity.file.changed", "integrity.file.permissions"} -> VerifyFile(platform)
    [] rule = "hygiene.firewall.disabled" -> EnableFirewall(platform)
    [] OTHER -> <<>>

Rules == {"intrusion.auth.bruteforce", "intrusion.auth.spray", "intrusion.auth.success_after_burst",
          "exposure.service.public", "exposure.cleartext.protocol", "integrity.file.changed",
          "integrity.file.permissions", "hygiene.firewall.disabled", "hygiene.updates.pending"}

-----------------------------------------------------------------------------
VARIABLES
  finding,   \* the incident the operator has opened: its rule and platform
  next,      \* the next step of its runbook
  done       \* the steps carried out, in order

runbookVars == <<finding, next, done>>

NoStep == <<>>

RunbookInit ==
  /\ finding \in [rule : Rules, platform : Platforms]
  /\ next = 1
  /\ done = NoStep

Plan == Runbook(finding.rule, finding.platform)

\* The operator carries out a step, in the order they are listed.
Follow ==
  /\ next <= Len(Plan)
  /\ done' = Append(done, Plan[next])
  /\ next' = next + 1
  /\ UNCHANGED finding

\* The operator turns to another incident.
Leave ==
  /\ finding' \in [rule : Rules, platform : Platforms]
  /\ next' = 1
  /\ done' = NoStep

RunbookNext == Follow \/ Leave

RunbookSpec == RunbookInit /\ [][RunbookNext]_runbookVars

-----------------------------------------------------------------------------
RunbookTypeOK ==
  /\ finding \in [rule : Rules, platform : Platforms]
  /\ next \in 1..(Len(Plan) + 1)
  /\ \A i \in DOMAIN done : done[i] \in [kind : {"inspect", "contain", "remediate"},
                                       platform : SUBSET Platforms, privileged : BOOLEAN]

\* Whatever the finding and its platform, and wherever the operator stops, a
\* command that changes the host is only ever carried out after something was
\* looked at, no command of another platform is carried out, and none that
\* changes the host runs without privileges ("the first step is always to look
\* before acting").
LooksBeforeActing ==
  \A i \in DOMAIN done :
    /\ done[i].platform \subseteq {finding.platform}
    /\ Changes(done[i]) => done[i].privileged /\ \E j \in 1..(i - 1) : ~Changes(done[j])
=============================================================================
