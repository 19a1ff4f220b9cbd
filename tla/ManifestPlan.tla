---------------------------- MODULE ManifestPlan ----------------------------
(***************************************************************************)
(* From an agent manifest to what a guest runs: the manifest is found,     *)
(* read and validated by the client (core/manifest), accepted and scaled   *)
(* by the server, given host ports (assign_port_mappings), and rendered    *)
(* into two bootstrap plans (core/provisioning): the steps of the base     *)
(* image, run once and kept on its disk, and the steps of the instance,    *)
(* run on an overlay of that disk.                                         *)
(*                                                                         *)
(* A step is modelled by what the guest's scheduler sees of it (phase,     *)
(* dependencies, resources) and by what its script does to the guest:      *)
(* `needs` are the things it would fail or misconfigure without, `makes`   *)
(* the things it leaves behind, `edits` the files it reads, changes and    *)
(* writes back.  The text of the scripts is left out.                      *)
(***************************************************************************)
EXTENDS Integers, Sequences, FiniteSets, SequencesExt, TLC

CONSTANTS MaxPlugins,   \* how many plugins a checked manifest combines
          MaxPort,      \* the largest port number (65535 in the code)
          MaxReplicas   \* the largest replica count checked

VARIABLES manifest,     \* the manifest at hand
          stage,        \* "none", "accepted", "refused", "base", "instance", "failed"
          plan,         \* the rendered steps of the last placement
          ports         \* host ports assigned to each instance

planVars == <<manifest, stage, plan, ports>>

None == "none"
NoPort == -1   \* a service without a fixed host port

-----------------------------------------------------------------------------
(* Manifests *)

\* A plugin and the options of it that change the plan or its validation.
PluginVariants ==
  [ docker      |-> {{}},
    mise        |-> {{}},
    node        |-> {{}, {"corepack"}, {"corepack", "from_mise"}},
    podman      |-> {{}, {"docker_api"}, {"docker_api", "compose"}},
    browser     |-> {{"playwright"}, {"playwright", "codex_mcp", "claude_mcp"}},
    dotnet      |-> {{"from_mise"}, {"tools"}, {"tools", "sos", "from_mise"}},
    git         |-> {{}, {"user"}},
    go          |-> {{"from_mise"}, {"tools"}, {"tools", "from_mise"}},
    claude      |-> {{}},
    codex       |-> {{"session"}, {}},
    agent_host  |-> {{}},
    github      |-> {{}, {"setup_git"}},
    code_server |-> {{}, {"settings", "trusted_domains", "extensions",
                          "remove_extensions", "restart_after_bootstrap"}} ]

PluginNames == DOMAIN PluginVariants
Has(m, p) == p \in DOMAIN m.plugins
Opt(m, p, o) == Has(m, p) /\ o \in m.plugins[p]

Services == {"ssh", "agent_host", "code_server"}

\* Every choice of variants for at most MaxPlugins plugins together.
PluginChoices ==
  UNION { { c \in [ps -> UNION {PluginVariants[p] : p \in ps}] :
               \A p \in ps : c[p] \in PluginVariants[p] } :
          ps \in {s \in SUBSET PluginNames : Cardinality(s) <= MaxPlugins} }

ModeledManifest(os, mode, ca, plugins, host, replicas, repos, secrets, malformed) ==
  [secrets |-> secrets, malformed |-> malformed, os |-> os, mode |-> mode, ca |-> ca, plugins |-> plugins, host |-> host,
   replicas |-> replicas, repos |-> repos]

\* One family varies the plugins, the other the host ports and the checkouts.
Manifests ==
  { ModeledManifest(os, mc[1], mc[2], c, [s \in Services |-> NoPort], 1, <<"a">>,
                    FALSE, FALSE) :
      os \in {"archlinux", "rocky9"},
      mc \in {<<"mediated", "auto">>, <<"user", "none">>},
      c \in PluginChoices }
  \cup
  { ModeledManifest("archlinux", mode, ca, <<>>, host, replicas, repos, secrets, malformed) :
      mode \in {"mediated", "user"}, ca \in {"auto", "none", "path"},
      host \in [{"ssh", "agent_host"} -> {NoPort} \cup 0..MaxPort],
      replicas \in 0..MaxReplicas,
      repos \in {<<>>, <<"a", "b">>, <<"a", "a">>},
      secrets \in BOOLEAN, malformed \in BOOLEAN }

-----------------------------------------------------------------------------
(* Validation *)

\* Ca::is_active: whether the guest is given a CA bundle.
CaActive(m) ==
  \/ m.ca = "auto" /\ m.mode = "mediated"
  \/ m.ca = "path"

\* Ca::validate.
CaValid(m) == ~(m.ca = "path" /\ m.mode = "mediated")

\* GuestPort::validate and Network::validate.
PortsValid(m) ==
  /\ DOMAIN m.host # {}
  /\ \A s \in DOMAIN m.host :
       m.host[s] # 0 /\ (m.mode = "user" => m.host[s] # NoPort)

\* The fixed host ports of a service: one per replica, counted up from its base.
HostRange(m, s) == IF m.host[s] = NoPort THEN {} ELSE m.host[s]..(m.host[s] + m.replicas - 1)

\* Defect for mutation checking: the last replica's port is not planned for.
HostPortPlanShort(m) ==
  /\ \A s \in DOMAIN m.host : m.replicas > 1 => \A p \in HostRange(m, s) : p <= MaxPort
  /\ \A s, t \in DOMAIN m.host : s # t /\ m.host[s] = m.host[t] => m.host[s] = NoPort

\* Network::validate_host_port_plan: within 16 bits, and no port twice.
HostPortPlan(m) ==
  /\ \A s \in DOMAIN m.host : \A p \in HostRange(m, s) : p <= MaxPort
  /\ \A s, t \in DOMAIN m.host : s # t => HostRange(m, s) \cap HostRange(m, t) = {}

\* validate_unique_repo_paths.
ReposValid(m) == Cardinality(ToSet(m.repos)) = Len(m.repos)

\* Plugins whose authentication is mediated put secrets behind the CA.
MediatedAuth(m) == m.mode = "mediated" /\ \E p \in {"codex", "claude", "github"} : Has(m, p)

\* validate_secrets: only the mediated network can keep the manifest's secrets.
SecretsValid(m) == m.secrets => m.mode = "mediated"

\* validate_ca_secret_compatibility.
CaFitsSecrets(m) == ~(m.mode = "mediated" /\ m.ca = "none" /\ (m.secrets \/ MediatedAuth(m)))

\* validate_identifier ... validate_duration: the form of single fields.
FieldsValid(m) == ~m.malformed

\* Plugins::validate: who owns the agent's terminal session, and what the
\* agent host needs.
PluginsValid(m) ==
  /\ ~(Has(m, "claude") /\ Opt(m, "codex", "session"))
  /\ Has(m, "agent_host") => /\ "agent_host" \in DOMAIN m.host
                             /\ Has(m, "codex") /\ ~Opt(m, "codex", "session")

\* AgentManifest::validate.
Valid(m) ==
  /\ CaValid(m) /\ PortsValid(m) /\ HostPortPlan(m) /\ ReposValid(m)
  /\ SecretsValid(m) /\ CaFitsSecrets(m) /\ FieldsValid(m) /\ PluginsValid(m)

-----------------------------------------------------------------------------
(* The steps *)

Step(id, phase, placement, deps, resources, needs, makes, edits) ==
  [id |-> id, phase |-> phase, placement |-> placement, dependsOn |-> deps,
   resources |-> resources, needs |-> needs, makes |-> makes, edits |-> edits]

\* A set of steps present only when a condition of the manifest holds.
When(cond, steps) == IF cond THEN steps ELSE {}

\* boot_commands: the packager's keys, and the CA before anything is fetched.
BootCommands(m) == {"keys"} \cup When(CaActive(m), {"boot_trust"})

\* render_network_config: a fixed address behind the mediated network, DHCP
\* otherwise; either way the guest is on the network when cloud-init is done.
NetworkConfig(m) == {IF m.mode = "mediated" THEN "static" ELSE "dhcp", "network"}

\* render_user_data: the agent's account and the files the host seeds.
UserData == {"account", "seeds"}

\* CloudInitSeed::from_plan: what a guest has before its first step.
CloudInitSeed(m) == BootCommands(m) \cup NetworkConfig(m) \cup UserData

\* root_setup: the disk grown to its size, the shared configuration, the
\* hostname service.
RootSetup == {"root_fs", "hostname"}

\* render_system_prep: the home of the account cloud-init made, the agent's
\* environment files, and the root setup.
PrepStep ==
  Step("system.prep", "system", "base", {}, {"systemd"}, {"account"}, {"env"} \cup RootSetup,
       {"units"})

\* render_package_install.
PackagesStep(m) ==
  Step("system.packages", "system", "base", {"system.prep"}, {"packages"},
       {"env", "root_fs", "network", "keys"} \cup When(CaActive(m), {"boot_trust"}),
       {"packages"}, {"pkgdb"})

\* render_agent_user, render_agent_ssh_access.
AgentUserStep ==
  Step("system.agent_user", "system", "base", {"system.packages"}, {"userdb"},
       {"env", "packages"}, {"user"}, {"userdb"})

\* base_system_steps.
BaseSystemSteps(m) == {PrepStep, PackagesStep(m), AgentUserStep}

\* ca_bundle::apply.
CaBundleSteps(m) ==
  When(CaActive(m),
    { Step("system.ca_bundle", "system", "instance", {"system.prep"}, {"packages"},
           {"env"}, {"trust"}, {"trust"}) })

\* linux::apply_base: the CA bundle and the guest's own tools.
ApplyBase(m) ==
  CaBundleSteps(m) \cup
  { Step("system.guest_tooling", "system", "base", {"system.packages", "system.agent_user"},
         {"tooling", "systemd"}, {"packages", "user", "seeds"}, {"guestctl"}, {"units"}) }

\* The docker plugin: behind a proxy that adds the CA when there is one.
DockerSteps(m) ==
  When(Has(m, "docker"),
    When(CaActive(m),
      { Step("plugin.docker.proxy", "system", "instance",
             {"system.packages", "system.guest_tooling", "system.ca_bundle"}, {"systemd"},
             {"packages", "guestctl", "trust"}, {"docker_proxy"}, {"units"}) })
    \cup
    { Step("plugin.docker.service", "system", "instance",
           IF CaActive(m) THEN {"plugin.docker.proxy"} ELSE {"system.packages"}, {"systemd"},
           {"packages"} \cup When(CaActive(m), {"docker_proxy"}), {}, {"units"}) })

\* The node plugin: corepack as the agent's user with mise, as root without.
NodeSteps(m) ==
  When(Opt(m, "node", "corepack"),
    { IF Opt(m, "node", "from_mise")
      THEN Step("plugin.node.corepack", "user", "base", {"plugin.mise"},
                {"home", "mise", "npm"}, {"mise"}, {}, {"npm"})
      ELSE Step("plugin.node.corepack", "system", "base", {"system.packages"},
                {"npm"}, {"packages"}, {}, {"npm"}) })

\* The podman plugin.
PodmanSteps(m) ==
  When(Has(m, "podman"),
    When(Opt(m, "podman", "compose") /\ m.os = "rocky9",
      { Step("plugin.podman.compose", "system", "base", {"system.packages"}, {"packages"},
             {"packages"}, {}, {"pkgdb"}) })
    \cup
    When(CaActive(m),
      { Step("plugin.podman.ca_bundle", "user", "instance",
             {"system.agent_user", "system.ca_bundle"}, {},
             {"user", "guestctl", "trust", "handoff"}, {"podman_ca"}, {}) })
    \cup
    When(Opt(m, "podman", "docker_api"),
      { Step("plugin.podman.docker_api", "user", "instance",
             {"system.agent_user"} \cup When(CaActive(m), {"plugin.podman.ca_bundle"}),
             {"systemd"}, {"packages", "user"} \cup When(CaActive(m), {"podman_ca"}),
             {}, {"units"}) }))

\* The playwright tools of the browser plugin.
BrowserSteps(m) ==
  When(Opt(m, "browser", "playwright"),
    When(m.os = "rocky9",
      { Step("plugin.browser.rocky", "system", "base", {"system.packages"}, {"packages"},
             {"packages"}, {"browser"}, {"pkgdb"}) })
    \cup
    { Step("plugin.browser.playwright_npm", "user", "base",
           {"plugin.mise", IF m.os = "rocky9" THEN "plugin.browser.rocky" ELSE "system.packages"},
           {"home", "npm"}, {"mise", IF m.os = "rocky9" THEN "browser" ELSE "packages"},
           {"playwright"}, {"npm"}) })

\* The tools of a language plugin (go, dotnet).
ToolSteps(m, p) ==
  When(Opt(m, p, "tools"),
    { Step("plugin." \o p \o ".tools", "user", "base",
           IF Opt(m, p, "from_mise") THEN {"plugin.mise"} ELSE {"system.agent_user"}, {"home"},
           {"user"} \cup When(Opt(m, p, "from_mise"), {"mise"}), {p}, {}) })

\* The SOS extension among the dotnet tools.
SosSteps(m) ==
  When(Opt(m, "dotnet", "sos"),
    { Step("plugin.dotnet.sos", "user", "base", {"plugin.dotnet.tools"}, {"home"},
           {"dotnet"}, {}, {}) })

\* git identity and defaults, written once the runtime environment is there.
GitSteps(m) ==
  When(Opt(m, "git", "user"),
    { Step("plugin.git.config", "user", "instance", {"system.agent_user"}, {"home"},
           {"packages", "runtime_env", "handoff"}, {"git_identity"}, {"gitconfig"}) })

\* The GitHub CLI and git's credentials.
GithubSteps(m) ==
  When(Has(m, "github") /\ m.os = "rocky9",
    { Step("plugin.github.cli", "system", "base", {"system.packages"}, {"packages"},
           {"packages"}, {"gh"}, {"pkgdb"}) })
  \cup
  When(Opt(m, "github", "setup_git"),
    { Step("plugin.github.setup_git", "user", "instance", {"system.agent_user"}, {"home"},
           {IF m.os = "rocky9" THEN "gh" ELSE "packages", "runtime_env", "handoff"},
           {"git_credentials"}, {"gitconfig"}) })

\* A coding agent (claude, codex): installed in the base, trusted and
\* configured in the instance, its session unit only when it owns the session.
AgentSteps(m, p, config, session) ==
  When(Has(m, p),
    { Step("plugin." \o p \o ".install", "user", "base", {"plugin.mise"}, {"home", "npm"},
           {"mise"}, {p}, {}),
      Step("plugin." \o p \o ".config", "user", "instance", {"plugin." \o p \o ".install"},
           {"home"}, {"mise", p, "handoff"}, {config}, {config}) }
    \cup
    When(session,
      { Step("plugin." \o p \o ".session", "system", "base", {"system.guest_tooling"},
             {"systemd"}, {"guestctl"}, {}, {"units"}) }))

\* Claude always owns the agent's terminal session, codex when it is asked to.
ClaudeSteps(m) == AgentSteps(m, "claude", "claude_json", TRUE)
CodexSteps(m) == AgentSteps(m, "codex", "codex_toml", Opt(m, "codex", "session"))

\* apply_claude_integration, apply_codex_integration.
McpSteps(m, p, config) ==
  When(Opt(m, "browser", "playwright") /\ Opt(m, "browser", p \o "_mcp") /\ Has(m, p),
    { Step("plugin.browser." \o p \o "_mcp", "user", "instance",
           {"plugin." \o p \o ".config", "plugin.browser.playwright_npm"}, {"home"},
           {"playwright", config}, {}, {config}) })

\* The VS Code agent host, when its port is declared.
AgentHostSteps(m) ==
  When(Has(m, "agent_host") /\ "agent_host" \in DOMAIN m.host,
    { Step("plugin.agent_host.install", "system", "base", {"system.agent_user"}, {},
           {"packages"}, {"agent_host"}, {}),
      Step("plugin.agent_host.service", "system", "base",
           {"plugin.agent_host.install", "system.agent_user"}, {"systemd"},
           {"agent_host", "user"}, {"agent_host_unit"}, {"units"}),
      Step("plugin.agent_host.config", "user", "instance", {}, {"home", "systemd"},
           {"agent_host_unit", "packages", "handoff"}, {}, {"units"}) })

\* code-server, when its port is declared.
CodeServerSteps(m) ==
  When(Has(m, "code_server") /\ "code_server" \in DOMAIN m.host,
    { Step("plugin.code_server.setup", "system", "base", {"system.agent_user"}, {"systemd"},
           {"packages", "user"}, {"code_server"}, {"units"}) }
    \cup
    When(Opt(m, "code_server", "settings"),
      { Step("plugin.code_server.settings_owner", "system", "instance", {"system.agent_user"},
             {"home"}, {"user"}, {"home_files"}, {}) })
    \cup
    When(Opt(m, "code_server", "trusted_domains"),
      { Step("plugin.code_server.config", "system", "instance", {"plugin.code_server.setup"},
             {"home"}, {"code_server"}, {"home_files"}, {}) })
    \cup
    When(Opt(m, "code_server", "extensions"),
      { Step("plugin.code_server.extensions", "user", "base", {"plugin.code_server.setup"},
             {"home"}, {"code_server"}, {}, {"extensions"}) })
    \cup
    When(Opt(m, "code_server", "remove_extensions"),
      { Step("plugin.code_server.remove_extensions", "user", "base",
             {"plugin.code_server.setup"}, {"home"}, {"code_server"}, {}, {"extensions"}) })
    \cup
    When(Opt(m, "code_server", "restart_after_bootstrap"),
      { Step("plugin.code_server.restart", "system", "instance", {"plugin.code_server.setup"},
             {"systemd"}, {"code_server"}, {}, {"units"}) }))

\* require_mise: who asks for the runtimes mise installs.
RequiresMise(m) ==
  \/ \E p \in {"mise", "claude", "codex"} : Has(m, p)
  \/ \E p \in {"node", "go", "dotnet"} : Opt(m, p, "from_mise")
  \/ Opt(m, "browser", "playwright")

\* mise::apply_requirements, after every plugin has asked.
MiseSteps(m) ==
  When(RequiresMise(m),
    { Step("plugin.mise", "user", "base", {"system.agent_user"}, {"home", "mise"},
           {"packages", "user"}, {"mise"}, {}) })

\* plugins::apply and apply_runtime_requirements.
ExtensionSteps(m) ==
  ApplyBase(m) \cup DockerSteps(m) \cup NodeSteps(m) \cup PodmanSteps(m) \cup BrowserSteps(m)
  \cup ToolSteps(m, "dotnet") \cup SosSteps(m) \cup ToolSteps(m, "go") \cup GitSteps(m)
  \cup ClaudeSteps(m) \cup CodexSteps(m)
  \cup McpSteps(m, "claude", "claude_json") \cup McpSteps(m, "codex", "codex_toml")
  \cup AgentHostSteps(m) \cup GithubSteps(m) \cup CodeServerSteps(m) \cup MiseSteps(m)

OfPhase(steps, phase) == {s \in steps : s.phase = phase}
Ids(steps) == {s.id : s \in steps}

\* render_user_extension_step: an instance's user step waits for the handoff.
UserExtensionStep(s) ==
  IF s.placement = "instance" THEN [s EXCEPT !.dependsOn = @ \cup {"system.user_handoff"}] ELSE s

\* extend_repository_steps: one checkout per repository, all after the
\* handoff and every user extension.
RepositorySteps(m, after) ==
  { Step("user.repository." \o ToString(i), "user", "instance", after, {},
         {"packages", "handoff"} \cup When(Opt(m, "git", "user"), {"git_identity"})
           \cup When(Opt(m, "github", "setup_git"), {"git_credentials"}),
         {"checkout"}, {}) : i \in DOMAIN m.repos }

\* final_user_steps.
FinalUserSteps(m, after) ==
  LET all == {"home", "code", "mise", "npm"} IN
  { Step("user.custom_bootstrap", "user", "instance", after, all,
         {"handoff"} \cup When(m.repos # <<>>, {"checkout"}), {"custom"}, {}),
    Step("user.manifest_shell", "user", "instance", {"user.custom_bootstrap"}, all,
         {"custom"}, {"shell"}, {}),
    Step("user.disable_cloud_init", "user", "instance", {"user.manifest_shell"}, {"systemd"},
         {"shell"}, {"cloud_init_off"}, {"units"}),
    Step("user.guestd", "user", "instance", {"user.disable_cloud_init"}, {"systemd"},
         {"guestctl", "cloud_init_off"}, {}, {"units"}) }

\* Defect for mutation checking: checkouts start right after the handoff.
RepositoryDependenciesHandoff(m) == {"system.user_handoff"}

\* What a repository waits for: the handoff and every user extension.
RepositoryDependencies(m) ==
  {"system.user_handoff"} \cup Ids(OfPhase(ExtensionSteps(m), "user"))

\* render_runtime_env_install.
RuntimeEnvStep ==
  Step("system.runtime_env", "system", "instance", {"system.agent_user"}, {"systemd"},
       {"user"}, {"runtime_env"}, {"units"})

\* render_agent_home_handoff: the home goes to its user after every system step.
UserHandoffStep(system) ==
  Step("system.user_handoff", "system", "instance", {"system.runtime_env"} \cup Ids(system),
       {"home"}, {"runtime_env"} \cup UNION {s.makes : s \in system}, {"handoff"}, {})

\* render_complete_bootstrap_steps.
CompleteSteps(m) ==
  LET ext == ExtensionSteps(m)
      system == OfPhase(ext, "system")
      repositories == RepositorySteps(m, RepositoryDependencies(m))
  IN BaseSystemSteps(m)
     \cup {RuntimeEnvStep} \cup system \cup {UserHandoffStep(system)}
     \cup {UserExtensionStep(s) : s \in OfPhase(ext, "user")}
     \cup repositories
     \cup FinalUserSteps(m, IF repositories = {} THEN RepositoryDependencies(m)
                                                 ELSE Ids(repositories))

\* RenderedBootstrapPlan::for_placement: only the dependencies inside the
\* placement are kept; the others are assumed to have been met before.
ForPlacement(steps, placement) ==
  LET kept == {s \in steps : s.placement = placement} IN
  {[s EXCEPT !.dependsOn = @ \cap Ids(kept)] : s \in kept}

\* The steps that come before a step in a plan.
Before(steps, s) ==
  LET extend[n \in 0..Cardinality(steps)] ==
        IF n = 0 THEN s.dependsOn
        ELSE LET before == extend[n - 1] IN
             before \cup UNION {t.dependsOn : t \in {u \in steps : u.id \in before}}
  IN extend[Cardinality(steps)]

\* validate_graph: no duplicate, no missing dependency, no system step behind
\* a user step, no cycle.
GraphValid(steps) ==
  /\ Cardinality(Ids(steps)) = Cardinality(steps)
  /\ \A s \in steps : s.dependsOn \subseteq Ids(steps)
  /\ \A s, t \in steps : s.phase = "system" /\ t.id \in s.dependsOn => t.phase = "system"
  /\ \A s \in steps : s.id \notin Before(steps, s)

\* assigned_host_port: the service's base plus the instance id.
AssignedHostPort(m, s, i) == IF m.host[s] = NoPort THEN NoPort ELSE m.host[s] + i

-----------------------------------------------------------------------------
(* Actions *)

PlanInit ==
  /\ manifest \in Manifests
  /\ stage = "none" /\ plan = {} /\ ports = <<>>

\* resolve_source_path: an explicit path must exist; otherwise exactly one of
\* the two default names must.
ResolveSourcePath(explicit, present) ==
  IF explicit # None THEN explicit \in present ELSE Cardinality(present) = 1

\* load_from_current_dir: the client finds, reads and validates the manifest.
LoadManifest ==
  /\ stage = "none"
  /\ \E present \in SUBSET {"agent.yaml", "agent.yml"},
        explicit \in {None, "agent.yaml"} :
       stage' = IF ResolveSourcePath(explicit, present) /\ Valid(manifest)
                THEN "accepted" ELSE "refused"
  /\ UNCHANGED <<manifest, plan, ports>>

\* Scale: set_replicas_if_changed checks the whole manifest again.
Scale ==
  /\ stage = "accepted"
  /\ \E n \in 0..MaxReplicas :
       LET scaled == [manifest EXCEPT !.replicas = n] IN
       /\ n # manifest.replicas /\ Valid(scaled)
       /\ manifest' = scaled
  /\ UNCHANGED <<stage, plan, ports>>

\* render_base_bootstrap, when the agent base is built.
RenderBase ==
  /\ stage = "accepted"
  /\ LET complete == CompleteSteps(manifest)
         base == ForPlacement(complete, "base") IN
     IF GraphValid(complete) /\ GraphValid(base)
     THEN stage' = "base" /\ plan' = base
     ELSE stage' = "failed" /\ UNCHANGED plan
  /\ UNCHANGED <<manifest, ports>>

\* render_instance_bootstrap and assign_port_mappings, when an instance is
\* created.
RenderInstance ==
  /\ stage = "base"
  /\ LET instance == ForPlacement(CompleteSteps(manifest), "instance") IN
     IF GraphValid(instance)
     THEN /\ stage' = "instance" /\ plan' = instance
          /\ ports' = [i \in 1..manifest.replicas |->
                         [s \in DOMAIN manifest.host |-> AssignedHostPort(manifest, s, i - 1)]]
     ELSE stage' = "failed" /\ UNCHANGED <<plan, ports>>
  /\ UNCHANGED manifest

PlanNext == LoadManifest \/ Scale \/ RenderBase \/ RenderInstance

-----------------------------------------------------------------------------
(* Properties *)

PlanTypeOK ==
  /\ stage \in {"none", "accepted", "refused", "failed", "base", "instance"}
  /\ manifest.replicas \in 0..MaxReplicas
  /\ \A s \in plan : s.phase \in {"system", "user"} /\ s.resources \subseteq
       {"systemd", "packages", "userdb", "tooling", "home", "mise", "npm", "code"}

\* What is over when the guest starts a step: cloud-init; in an instance the
\* whole base plan; the step's dependencies; for a user step every system step.
Earlier(s) ==
  CloudInitSeed(manifest) \cup
  UNION {t.makes : t \in {u \in plan : \/ u.id \in Before(plan, s)
                                       \/ s.phase = "user" /\ u.phase = "system"}}
  \cup (IF stage = "instance"
        THEN UNION {t.makes : t \in ForPlacement(CompleteSteps(manifest), "base")} ELSE {})

\* Two steps the guest may run at the same time.
MayOverlap(s, t) ==
  /\ s # t /\ s.phase = t.phase
  /\ s.id \notin Before(plan, t) /\ t.id \notin Before(plan, s)
  /\ s.resources \cap t.resources = {}

\* An accepted manifest can be provisioned whatever it combines: rendering
\* never fails, every step finds what its script needs made by steps that are
\* certainly over (dropping the dependencies across placements loses none),
\* and two steps that change the same file never run together
\* (provisioning/bootstrap.rs for_placement, validate_graph).
PlanSound ==
  /\ stage # "failed"
  /\ \A s \in plan : s.needs \subseteq Earlier(s)
  /\ \A s, t \in plan : MayOverlap(s, t) => s.edits \cap t.edits = {}

\* The host ports of the instances of an accepted manifest, also after it was
\* scaled, are in range and all different
\* (manifest/mod.rs validate_host_port_plan, agent/document.rs assigned_host_port).
HostPortsDisjoint ==
  \A i, j \in DOMAIN ports : \A s \in DOMAIN ports[i], t \in DOMAIN ports[j] :
    /\ ports[i][s] = NoPort \/ ports[i][s] <= MaxPort
    /\ <<i, s>> # <<j, t>> /\ ports[i][s] # NoPort => ports[i][s] # ports[j][t]
=============================================================================
