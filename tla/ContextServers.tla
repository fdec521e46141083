--------------------------- MODULE ContextServers ---------------------------
(***************************************************************************)
(* The context (MCP) servers of a project: struct ContextServerStore of    *)
(* crates/project/src/context_server_store.rs, the registry of their tools *)
(* (crates/agent2/src/tools/context_server_registry.rs) and ContextServer  *)
(* (crates/context_server/src/context_server.rs).                          *)
(*                                                                         *)
(* Everything runs on the foreground executor: a step is what a task does  *)
(* between two awaits, together with the events it emits, which gpui       *)
(* delivers to the registry at the end of the same update.  Tasks meet in  *)
(* four places: maintain_servers and start_server await the command that   *)
(* an extension gives a server (the command of a custom server is in the   *)
(* settings: nothing is awaited), the start task of a server awaits its    *)
(* answer, and the registry awaits its list of tools.                      *)
(*                                                                         *)
(* A configuration stands for what from_settings makes of a server's       *)
(* settings.  An instance is an Arc<ContextServer>; the name of one that   *)
(* nothing refers to any more may be taken again.                          *)
(***************************************************************************)
EXTENDS Naturals

CONSTANTS
  Servers,        \* ids
  Instances,      \* bound: instances of one server that exist at a time
  Custom, Extension, \* configurations of the two kinds
  DefaultExtension,  \* that of an extension's server without settings
  Choices,        \* Choices[s]: the settings users give server s
  WithTools,      \* servers with the Tools capability
  MaxRequests,    \* bound: what users and extensions do
  NoInstance, NoConfig

Configurations == Custom \cup Extension
Settings == [enabled : BOOLEAN, configuration : Configurations \cup {NoConfig}]
Absent == [enabled |-> FALSE, configuration |-> NoConfig]

ASSUME ConfigurationsAssumption ==
  /\ Custom \cap Extension = {} /\ DefaultExtension \in Extension
  /\ NoConfig \notin Configurations
  /\ {"stop", "remove"} \cap Configurations = {} /\ NoConfig \notin {"stop", "remove"}
ASSUME ChoicesAssumption ==
  \A s \in Servers : \A choice \in Choices[s] :
    choice \in Settings /\ (choice.configuration = NoConfig => choice = Absent)
ASSUME InstancesAssumption == NoInstance \notin Instances
ASSUME WithToolsAssumption == WithTools \subseteq Servers
ASSUME MaxRequestsAssumption == MaxRequests \in Nat

VARIABLES
  settings,       \* context_server_settings
  descriptors,    \* servers in the ContextServerDescriptorRegistry
  \* fields of ContextServerStore
  servers,
  update_servers_task, needs_server_update,
  targets,        \* what maintain_servers makes of the settings it has read
  \* calls of start_server under way
  starting,
  \* ContextServerRegistry
  registered_servers,
  tools,          \* the instance whose tools each entry lists
  load_tools,     \* the instance whose answer each entry awaits
  \* ContextServer
  connected,      \* <<s, i>>: instance i of server s has a client
  \* a call of ContextServerTool::run that awaits the user's permission
  call,
  \* auxiliary: instances remove_server took out of the store, servers the user
  \* stopped, servers that start_server ran with settings that had changed
  \* meanwhile, and the bound
  removed, halted, outdated, requests

configVars == <<settings, descriptors>>
maintainVars == <<update_servers_task, needs_server_update, targets>>
auxVars == <<removed, halted, outdated>>
registryVars == <<registered_servers, tools, load_tools>>
vars == <<configVars, servers, maintainVars, starting, registryVars, connected, call,
          auxVars, requests>>

Gone == [status |-> "absent", server |-> NoInstance, configuration |-> NoConfig]
NotStarting == [phase |-> "none", server |-> NoInstance, configuration |-> NoConfig]
NoCall == <<>>

Up(s) == servers[s].status \in {"Starting", "Running"}
Referenced(s) ==
  {i \in Instances : i = servers[s].server \/ i = starting[s].server \/ call = <<s, i>>}

----------------------------------------------------------------------------
(* What the settings ask for. *)

\* An extension's server without settings is enabled.
Setting(s) ==
  IF settings[s] = Absent /\ s \in descriptors
  THEN [enabled |-> TRUE, configuration |-> DefaultExtension] ELSE settings[s]

\* maintain_servers: what is to become of s, as long as its command is there.
\* The command of an extension that is not installed is not.
Target(s) ==
  IF Setting(s) = Absent THEN "remove"
  ELSE IF ~Setting(s).enabled THEN "stop"
  ELSE IF Setting(s).configuration \in Extension /\ s \notin descriptors THEN "remove"
  ELSE Setting(s).configuration

Targets == [s \in Servers |-> Target(s)]

----------------------------------------------------------------------------
(* The registry and the clients, as the store's events and calls change    *)
(* them.  down: servers that are stopped, removed or fail; up: servers that *)
(* are Running now.                                                        *)

\* Variant: the task that awaits the list of tools outlives its entry.
EventsHandled_Detached(down, up) ==
  LET kept == registered_servers \ down
      loaded == up \cap WithTools
  IN  /\ registered_servers' = kept \cup loaded
      /\ tools' = [s \in Servers |-> IF s \in kept THEN tools[s] ELSE NoInstance]
      /\ load_tools' = [s \in Servers |-> IF s \in loaded THEN servers'[s].server
                                          ELSE load_tools[s]]

\* reload_tools_for_server and handle_context_server_store_event
EventsHandled(down, up) ==
  LET kept == registered_servers \ down
      loaded == up \cap WithTools
  IN  /\ registered_servers' = kept \cup loaded
      /\ tools' = [s \in Servers |-> IF s \in kept THEN tools[s] ELSE NoInstance]
      /\ load_tools' = [s \in Servers |-> IF s \in loaded THEN servers'[s].server
                                          ELSE IF s \in kept THEN load_tools[s] ELSE NoInstance]

\* Variant: stop_server leaves the client to the last user of the instance.
Disconnected_Never(stopped) == {}

\* stop_server takes the client of an instance that is Running.
Disconnected(stopped) ==
  {<<s, servers[s].server>> : s \in {r \in stopped : servers[r].status = "Running"}}

\* Variant: a change that comes while an earlier one is applied is not noted.
available_context_servers_changed_Lost ==
  /\ update_servers_task' =
       IF update_servers_task = "none" THEN "scheduled" ELSE update_servers_task
  /\ UNCHANGED <<needs_server_update, targets>>

\* available_context_servers_changed
available_context_servers_changed ==
  IF update_servers_task # "none"
  THEN needs_server_update' = TRUE /\ UNCHANGED <<update_servers_task, targets>>
  ELSE /\ needs_server_update' = FALSE /\ update_servers_task' = "scheduled"
       /\ UNCHANGED targets

NoTargets == [s \in Servers |-> "remove"]

Init ==
  /\ settings \in [Servers -> Settings] /\ \A s \in Servers : settings[s] \in Choices[s]
  /\ descriptors \in SUBSET Servers
  /\ servers = [s \in Servers |-> Gone]
  /\ update_servers_task = "scheduled" /\ needs_server_update = FALSE /\ targets = NoTargets
  /\ starting = [s \in Servers |-> NotStarting]
  /\ registered_servers = {}
  /\ tools = [s \in Servers |-> NoInstance] /\ load_tools = [s \in Servers |-> NoInstance]
  /\ connected = {} /\ call = NoCall /\ removed = {} /\ halted = {} /\ outdated = {}
  /\ requests = 0

----------------------------------------------------------------------------
(* The user and the extensions. *)

Request == requests < MaxRequests /\ requests' = requests + 1

SettingsChange(s, setting) ==
  /\ Request
  /\ setting # settings[s]
  /\ settings' = [settings EXCEPT ![s] = setting]
  /\ available_context_servers_changed
  /\ UNCHANGED <<descriptors, servers, starting, registryVars, connected, call, auxVars>>

\* An extension registers, registers again or unregisters its server.
DescriptorsChange(new) ==
  /\ Request
  /\ descriptors' = new
  /\ available_context_servers_changed
  /\ UNCHANGED <<settings, servers, starting, registryVars, connected, call, auxVars>>

\* stop_server, from the settings view
stop_server(s) ==
  /\ Request
  /\ servers[s].status \in {"Starting", "Running", "Error"}
  /\ servers' = [servers EXCEPT ![s].status = "Stopped"]
  /\ connected' = connected \ Disconnected({s})
  /\ EventsHandled({s}, {})
  /\ halted' = halted \cup {s}
  /\ UNCHANGED <<configVars, maintainVars, starting, call, removed, outdated>>

\* start_server with the instance the store has now.  Bound: one call for each
\* server at a time.
start_server(s) ==
  /\ Request
  /\ servers[s].status # "absent" /\ starting[s] = NotStarting
  /\ starting' = [starting EXCEPT ![s] = [phase |-> "spawned", server |-> servers[s].server,
                                          configuration |-> NoConfig]]
  /\ UNCHANGED <<configVars, servers, maintainVars, registryVars, connected, call, auxVars>>

----------------------------------------------------------------------------
(* maintain_servers *)

\* The configuration is new, or the server was stopped.
Restarts(s, to) ==
  /\ to[s] \in Configurations
  /\ servers[s].configuration # to[s] \/ servers[s].status = "Stopped"

\* The final update stops, removes and starts servers, takes the task, and
\* begins anew when something changed meanwhile.
ServersUpdated(to) ==
  LET started == {s \in Servers : Restarts(s, to)}
      present == {s \in Servers : servers[s].status # "absent"}
      stopped == present \cap (started \cup {s \in Servers : to[s] = "stop"})
      gone == {s \in present : to[s] = "remove"}
  IN  /\ \E new \in [started -> Instances] :
           /\ \A s \in started : new[s] \notin Referenced(s)
           /\ servers' = [s \in Servers |->
                IF s \in started
                THEN [status |-> "Starting", server |-> new[s], configuration |-> to[s]]
                ELSE IF s \in stopped THEN [servers[s] EXCEPT !.status = "Stopped"]
                ELSE IF s \in gone THEN Gone ELSE servers[s]]
           /\ connected' = (connected \ Disconnected(stopped)) \ {<<s, new[s]>> : s \in started}
           /\ removed' = (removed \cup {<<s, servers[s].server>> : s \in gone})
                           \ {<<s, new[s]>> : s \in started}
      /\ EventsHandled(stopped \cup gone, {})
      /\ update_servers_task' = IF needs_server_update THEN "scheduled" ELSE "none"
      /\ needs_server_update' = FALSE
      /\ targets' = NoTargets
      /\ halted' = {} /\ outdated' = {}
      /\ UNCHANGED <<configVars, starting, call, requests>>

Awaited == {s \in Servers : Target(s) \in Extension}

maintain_servers ==
  /\ update_servers_task = "scheduled"
  /\ \/ Awaited = {} /\ ServersUpdated(Targets)
     \/ /\ Awaited # {}
        /\ update_servers_task' = "resolving" /\ targets' = Targets
        /\ UNCHANGED <<configVars, servers, needs_server_update, starting, registryVars,
                       connected, call, auxVars, requests>>

\* The commands are there, except those that could not be had.
CommandsResolved ==
  /\ update_servers_task = "resolving"
  /\ \E failed \in SUBSET {s \in Servers : targets[s] \in Extension} :
       ServersUpdated([s \in Servers |-> IF s \in failed THEN "remove" ELSE targets[s]])

----------------------------------------------------------------------------
(* The task of start_server *)

\* run_server, which stops what runs under the same id.
run_server(s, configuration) ==
  /\ servers' = [servers EXCEPT ![s] = [status |-> "Starting", server |-> starting[s].server,
                                        configuration |-> configuration]]
  /\ connected' = connected \ Disconnected({s})
  /\ EventsHandled(IF Up(s) THEN {s} ELSE {}, {})
  /\ starting' = [starting EXCEPT ![s] = NotStarting]
  /\ halted' = halted \ {s}
  /\ outdated' = IF Target(s) = configuration THEN outdated \ {s} ELSE outdated \cup {s}
  /\ UNCHANGED <<configVars, maintainVars, call, removed, requests>>

StartServerEnds(s) ==
  /\ starting' = [starting EXCEPT ![s] = NotStarting]
  /\ UNCHANGED <<configVars, servers, maintainVars, registryVars, connected, call, auxVars, requests>>

\* Variant: neither missing settings nor disabled ones end the call.
StartServerPolled_Unchecked(s) ==
  /\ starting[s].phase = "spawned"
  /\ run_server(s, settings[s].configuration)

\* Servers without settings of their own and disabled ones are not started.
StartServerPolled(s) ==
  /\ starting[s].phase = "spawned"
  /\ \/ /\ settings[s].enabled /\ settings[s].configuration \in Custom
        /\ run_server(s, settings[s].configuration)
     \/ /\ settings[s].enabled /\ settings[s].configuration \in Extension /\ s \in descriptors
        /\ starting' = [starting EXCEPT ![s] = [phase |-> "resolving", server |-> starting[s].server,
                                                configuration |-> settings[s].configuration]]
        /\ UNCHANGED <<configVars, servers, maintainVars, registryVars, connected, call, auxVars, requests>>
     \/ /\ \/ ~settings[s].enabled
           \/ settings[s].configuration \in Extension /\ s \notin descriptors
        /\ StartServerEnds(s)

CommandResolved(s) ==
  /\ starting[s].phase = "resolving"
  /\ run_server(s, starting[s].configuration) \/ StartServerEnds(s)

----------------------------------------------------------------------------
(* The start task of a server, and the registry *)

ServerStarted(s) ==
  /\ servers[s].status = "Starting"
  /\ servers' = [servers EXCEPT ![s].status = "Running"]
  /\ connected' = connected \cup {<<s, servers[s].server>>}
  /\ EventsHandled({}, {s})
  /\ UNCHANGED <<configVars, maintainVars, starting, call, auxVars, requests>>

ServerFailed(s) ==
  /\ servers[s].status = "Starting"
  /\ servers' = [servers EXCEPT ![s].status = "Error"]
  /\ EventsHandled({s}, {})
  /\ UNCHANGED <<configVars, maintainVars, starting, connected, call, auxVars, requests>>

\* The server lists its tools; an error clears the entry's list.
ToolsLoaded(s) ==
  /\ load_tools[s] # NoInstance
  /\ \/ tools' = [tools EXCEPT ![s] = load_tools[s]]
     \/ tools' = [tools EXCEPT ![s] = NoInstance]
  /\ load_tools' = [load_tools EXCEPT ![s] = NoInstance]
  /\ UNCHANGED <<configVars, servers, maintainVars, starting, registered_servers, connected,
                 call, auxVars, requests>>

\* ContextServerTool::run.  Bound: one call at a time.
run(s) ==
  /\ Request
  /\ servers[s].status = "Running" /\ call = NoCall
  /\ call' = <<s, servers[s].server>>
  /\ UNCHANGED <<configVars, servers, maintainVars, starting, registryVars, connected,
                 auxVars>>

\* The user has answered; the tool is called if the instance has a client.
CallEnds ==
  /\ call # NoCall
  /\ call' = NoCall
  /\ UNCHANGED <<configVars, servers, maintainVars, starting, registryVars, connected,
                 auxVars, requests>>

----------------------------------------------------------------------------
Next ==
  \/ \E s \in Servers : \E setting \in Choices[s] : SettingsChange(s, setting)
  \/ \E new \in SUBSET Servers : DescriptorsChange(new)
  \/ maintain_servers \/ CommandsResolved \/ CallEnds
  \/ \E s \in Servers :
       \/ start_server(s) \/ stop_server(s) \/ StartServerPolled(s) \/ CommandResolved(s)
       \/ ServerStarted(s) \/ ServerFailed(s) \/ ToolsLoaded(s) \/ run(s)

Spec == Init /\ [][Next]_vars

----------------------------------------------------------------------------
Statuses == {"absent", "Starting", "Running", "Stopped", "Error"}
MaybeInstance == Instances \cup {NoInstance}
MaybeConfiguration == Configurations \cup {NoConfig}

TypeOK ==
  /\ settings \in [Servers -> Settings] /\ \A s \in Servers : settings[s] \in Choices[s]
  /\ descriptors \subseteq Servers
  /\ servers \in [Servers -> [status : Statuses, server : MaybeInstance,
                              configuration : MaybeConfiguration]]
  /\ \A s \in Servers : servers[s] # Gone =>
       /\ servers[s].status # "absent" /\ servers[s].server \in Instances
       /\ servers[s].configuration \in Configurations
  /\ update_servers_task \in {"none", "scheduled", "resolving"} /\ needs_server_update \in BOOLEAN
  /\ targets \in [Servers -> Configurations \cup {"stop", "remove"}]
  /\ starting \in [Servers -> [phase : {"none", "spawned", "resolving"}, server : MaybeInstance,
                               configuration : MaybeConfiguration]]
  /\ \A s \in Servers :
       /\ starting[s].phase # "none" => starting[s].server \in Instances
       /\ starting[s].phase = "resolving" => starting[s].configuration \in Extension
  /\ registered_servers \subseteq Servers
  /\ tools \in [Servers -> MaybeInstance] /\ load_tools \in [Servers -> MaybeInstance]
  /\ connected \subseteq Servers \X Instances
  /\ call \in {NoCall} \cup (Servers \X Instances)
  /\ removed \subseteq Servers \X Instances
  /\ halted \subseteq Servers /\ outdated \subseteq Servers
  /\ requests \in 0..MaxRequests

\* The registry has the tools of exactly the servers that are Running: an entry
\* lists or awaits the tools of the instance that runs, never those of one that
\* was stopped, replaced or removed, in whatever order its list of tools, its
\* restart and its removal come (reload_tools_for_server and
\* handle_context_server_store_event).
ToolsOfRunningServers ==
  /\ registered_servers = {s \in WithTools : servers[s].status = "Running"}
  /\ \A s \in Servers :
       /\ tools[s] \in {NoInstance, servers[s].server}
       /\ load_tools[s] \in {NoInstance, servers[s].server}
       /\ s \notin registered_servers => tools[s] = NoInstance /\ load_tools[s] = NoInstance

\* A server has a client exactly while the store says that it is Running: a
\* tool call the user permits late fails when its server was stopped or
\* replaced.  The exception are servers that left the settings: remove_server
\* drops their instance without stopping it, and calls of it go on.
ConnectedServersRun ==
  \A s \in Servers, i \in Instances :
    /\ servers[s].status = "Running" /\ servers[s].server = i => <<s, i>> \in connected
    /\ <<s, i>> \in connected =>
         \/ servers[s].status = "Running" /\ servers[s].server = i
         \/ <<s, i>> \in removed

\* What the settings ask for is done, or the user stopped the server, or an
\* extension could not give its command.
Follows(s, target) ==
  IF target = "remove" THEN servers[s].status = "absent"
  ELSE IF target = "stop" THEN servers[s].status \in {"absent", "Stopped"}
  ELSE IF servers[s].status = "absent" THEN target \in Extension
  ELSE /\ servers[s].configuration = target
       /\ servers[s].status = "Stopped" => s \in halted

\* No change of the settings is lost, however many come while an earlier one is
\* being applied (needs_server_update): when nothing is left to do the store is
\* what the settings ask for.  The exception are servers that start_server runs
\* with settings that changed while it awaited their command.
SettingsAreApplied ==
  update_servers_task = "none" =>
    \A s \in Servers \ outdated : Follows(s, Target(s))
=============================================================================
