------------------------ MODULE ContextServersProofs ------------------------
(***************************************************************************)
(* Theorems about ContextServers, for all servers, configurations,         *)
(* instances and numbers of requests: the tools on offer are those of the  *)
(* servers that run, servers have a client exactly while they run, and no  *)
(* change of the settings is lost.                                         *)
(***************************************************************************)
EXTENDS ContextServers, TLAPS

(***************************************************************************)
(* While an update is under way, what it is going to do is what the        *)
(* settings ask for, or another update is to follow.                       *)
(***************************************************************************)
TargetsAreCurrent ==
  update_servers_task = "resolving" /\ ~needs_server_update => targets = Targets

Applied == TargetsAreCurrent /\ SettingsAreApplied

----------------------------------------------------------------------------
(* What the settings ask for. *)

\* A server is to be removed, stopped, or run with a configuration.
LEMMA TargetType ==
  ASSUME TypeOK, NEW s \in Servers
  PROVE  Target(s) \in Configurations \cup {"stop", "remove"}
<1>1. settings[s] \in Choices[s] BY DEF TypeOK
<1>2. settings[s] # Absent => settings[s].configuration \in Configurations
  BY <1>1, ChoicesAssumption DEF Settings, Absent
<1>3. DefaultExtension \in Configurations BY ConfigurationsAssumption DEF Configurations
<1>. QED BY <1>2, <1>3 DEF Target, Setting

LEMMA TargetsType ==
  ASSUME TypeOK PROVE Targets \in [Servers -> Configurations \cup {"stop", "remove"}]
BY TargetType DEF Targets

\* The registry keeps its type whatever events it handles.
LEMMA EventsType ==
  ASSUME TypeOK, NEW down, NEW up, EventsHandled(down, up),
         \A s \in Servers : servers'[s].server \in MaybeInstance
  PROVE  /\ registered_servers' \subseteq Servers
         /\ tools' \in [Servers -> MaybeInstance] /\ load_tools' \in [Servers -> MaybeInstance]
<1>1. registered_servers' \subseteq Servers
  BY WithToolsAssumption DEF EventsHandled, TypeOK
<1>2. tools' \in [Servers -> MaybeInstance]
  BY DEF EventsHandled, TypeOK, MaybeInstance
<1>3. load_tools' \in [Servers -> MaybeInstance]
  BY DEF EventsHandled, TypeOK, MaybeInstance
<1>. QED BY <1>1, <1>2, <1>3

----------------------------------------------------------------------------
(* Types *)

LEMMA InitType == Init => TypeOK
<1>. SUFFICES ASSUME Init PROVE TypeOK OBVIOUS
<1>1. servers \in [Servers -> [status : Statuses, server : MaybeInstance,
                               configuration : MaybeConfiguration]]
  BY DEF Init, Gone, Statuses, MaybeInstance, MaybeConfiguration
<1>2. starting \in [Servers -> [phase : {"none", "spawned", "resolving"}, server : MaybeInstance,
                                configuration : MaybeConfiguration]]
  BY DEF Init, NotStarting, MaybeInstance, MaybeConfiguration
<1>3. \A s \in Servers : servers[s] = Gone /\ starting[s].phase = "none"
  BY DEF Init, NotStarting
<1>4. targets \in [Servers -> Configurations \cup {"stop", "remove"}]
  BY DEF Init, NoTargets
<1>5. tools \in [Servers -> MaybeInstance] /\ load_tools \in [Servers -> MaybeInstance]
  BY DEF Init, MaybeInstance
<1>6. /\ settings \in [Servers -> Settings] /\ descriptors \subseteq Servers
      /\ connected \subseteq Servers \X Instances /\ removed \subseteq Servers \X Instances
      /\ registered_servers \subseteq Servers /\ halted \subseteq Servers
      /\ outdated \subseteq Servers /\ call = NoCall
  BY DEF Init
<1>7. requests \in 0..MaxRequests BY MaxRequestsAssumption DEF Init
<1>. QED BY <1>1, <1>2, <1>3, <1>4, <1>5, <1>6, <1>7 DEF Init, TypeOK

LEMMA ServersUpdatedType ==
  ASSUME TypeOK, NEW to \in [Servers -> Configurations \cup {"stop", "remove"}],
         ServersUpdated(to)
  PROVE  TypeOK'
<1>. DEFINE started == {s \in Servers : Restarts(s, to)}
            present == {s \in Servers : servers[s].status # "absent"}
            stopped == present \cap (started \cup {s \in Servers : to[s] = "stop"})
            gone == {s \in present : to[s] = "remove"}
<1>1. PICK new \in [started -> Instances] :
        /\ servers' = [s \in Servers |->
             IF s \in started
             THEN [status |-> "Starting", server |-> new[s], configuration |-> to[s]]
             ELSE IF s \in stopped THEN [servers[s] EXCEPT !.status = "Stopped"]
             ELSE IF s \in gone THEN Gone ELSE servers[s]]
        /\ connected' = (connected \ Disconnected(stopped)) \ {<<s, new[s]>> : s \in started}
        /\ removed' = (removed \cup {<<s, servers[s].server>> : s \in gone})
                        \ {<<s, new[s]>> : s \in started}
  BY DEF ServersUpdated
<1>2. \A s \in started : to[s] \in Configurations /\ new[s] \in Instances BY DEF Restarts
<1>3. ASSUME NEW s \in present
      PROVE  /\ servers[s].server \in Instances
             /\ servers[s].configuration \in Configurations
  <2>1. servers[s] # Gone BY DEF Gone
  <2>. QED BY <2>1 DEF TypeOK
<1>4. \A s \in stopped \cup gone :
        servers[s].server \in Instances /\ servers[s].configuration \in Configurations
  BY <1>3
<1>5. ASSUME NEW s \in Servers
      PROVE  /\ servers'[s] \in [status : Statuses, server : MaybeInstance,
                                 configuration : MaybeConfiguration]
             /\ servers'[s] # Gone =>
                  /\ servers'[s].status # "absent" /\ servers'[s].server \in Instances
                  /\ servers'[s].configuration \in Configurations
  <2>. HIDE DEF started, stopped, gone
  <2>1. CASE s \in started
    BY <1>1, <1>2, <2>1 DEF Statuses, MaybeInstance, MaybeConfiguration
  <2>2. CASE s \notin started /\ s \in stopped
    <3>1. servers'[s] = [servers[s] EXCEPT !.status = "Stopped"] BY <1>1, <2>2
    <3>2. servers[s] \in [status : Statuses, server : MaybeInstance,
                          configuration : MaybeConfiguration]
      BY DEF TypeOK
    <3>. QED BY <3>1, <3>2, <1>4, <2>2 DEF Statuses
  <2>3. CASE s \notin started /\ s \notin stopped /\ s \in gone
    BY <1>1, <2>3 DEF Gone, Statuses, MaybeInstance, MaybeConfiguration
  <2>4. CASE s \notin started /\ s \notin stopped /\ s \notin gone
    BY <1>1, <2>4 DEF TypeOK
  <2>. QED BY <2>1, <2>2, <2>3, <2>4
<1>6. servers' \in [Servers -> [status : Statuses, server : MaybeInstance,
                                configuration : MaybeConfiguration]]
  <2>. HIDE DEF started, stopped, gone
  <2>. QED BY <1>1, <1>5
<1>7. connected' \subseteq Servers \X Instances BY <1>1 DEF TypeOK
<1>8. removed' \subseteq Servers \X Instances BY <1>1, <1>4 DEF TypeOK
<1>9. EventsHandled(stopped \cup gone, {}) BY DEF ServersUpdated
<1>10. /\ registered_servers' \subseteq Servers
       /\ tools' \in [Servers -> MaybeInstance] /\ load_tools' \in [Servers -> MaybeInstance]
  <2>1. \A s \in Servers : servers'[s].server \in MaybeInstance BY <1>5
  <2>. QED BY <1>9, <2>1, EventsType
<1>11. targets' \in [Servers -> Configurations \cup {"stop", "remove"}]
  BY DEF ServersUpdated, NoTargets
<1>. QED
  BY <1>5, <1>6, <1>7, <1>8, <1>10, <1>11
  DEF TypeOK, ServersUpdated, configVars

LEMMA RunServerType ==
  ASSUME TypeOK, NEW s \in Servers, starting[s].phase # "none",
         NEW configuration \in Configurations, run_server(s, configuration)
  PROVE  TypeOK'
<1>1. starting[s].server \in Instances BY DEF TypeOK
<1>2. servers' = [servers EXCEPT ![s] = [status |-> "Starting", server |-> starting[s].server,
                                        configuration |-> configuration]]
  BY DEF run_server
<1>3. /\ servers' \in [Servers -> [status : Statuses, server : MaybeInstance,
                                  configuration : MaybeConfiguration]]
      /\ \A r \in Servers : servers'[r] # Gone =>
           /\ servers'[r].status # "absent" /\ servers'[r].server \in Instances
           /\ servers'[r].configuration \in Configurations
  BY <1>1, <1>2 DEF TypeOK, Statuses, MaybeInstance, MaybeConfiguration
<1>4. /\ starting' \in [Servers -> [phase : {"none", "spawned", "resolving"},
                                   server : MaybeInstance, configuration : MaybeConfiguration]]
      /\ \A r \in Servers :
           /\ starting'[r].phase # "none" => starting'[r].server \in Instances
           /\ starting'[r].phase = "resolving" => starting'[r].configuration \in Extension
  BY DEF run_server, TypeOK, NotStarting, MaybeInstance, MaybeConfiguration
<1>5. /\ registered_servers' \subseteq Servers
      /\ tools' \in [Servers -> MaybeInstance] /\ load_tools' \in [Servers -> MaybeInstance]
  <2>1. \A r \in Servers : servers'[r].server \in MaybeInstance BY <1>3
  <2>2. EventsHandled(IF Up(s) THEN {s} ELSE {}, {}) BY DEF run_server
  <2>. QED BY <2>1, <2>2, EventsType
<1>6. /\ connected' \subseteq Servers \X Instances
      /\ halted' \subseteq Servers /\ outdated' \subseteq Servers
  BY DEF run_server, TypeOK
<1>. QED BY <1>3, <1>4, <1>5, <1>6 DEF run_server, TypeOK, configVars, maintainVars

\* A status may change on its own.
LEMMA StatusType ==
  ASSUME TypeOK, NEW s \in Servers, servers[s].status # "absent",
         NEW status \in Statuses \ {"absent"}, servers' = [servers EXCEPT ![s].status = status]
  PROVE  /\ servers' \in [Servers -> [status : Statuses, server : MaybeInstance,
                                      configuration : MaybeConfiguration]]
         /\ servers[s].server \in Instances
         /\ \A r \in Servers : servers'[r] # Gone =>
              /\ servers'[r].status # "absent" /\ servers'[r].server \in Instances
              /\ servers'[r].configuration \in Configurations
<1>1. servers[s] # Gone BY DEF Gone
<1>2. servers[s].server \in Instances /\ servers[s].configuration \in Configurations
  BY <1>1 DEF TypeOK
<1>3. servers' \in [Servers -> [status : Statuses, server : MaybeInstance,
                               configuration : MaybeConfiguration]]
  BY DEF TypeOK
<1>4. /\ servers'[s].status = status /\ servers'[s].server = servers[s].server
      /\ servers'[s].configuration = servers[s].configuration
      /\ \A r \in Servers \ {s} : servers'[r] = servers[r]
  BY DEF TypeOK
<1>. QED BY <1>2, <1>3, <1>4 DEF TypeOK

LEMMA StepType ==
  ASSUME TypeOK, [Next]_vars PROVE TypeOK'
<1>. USE DEF configVars, maintainVars, registryVars, auxVars
<1>1. ASSUME NEW s \in Servers, NEW setting \in Choices[s], SettingsChange(s, setting)
      PROVE  TypeOK'
  <2>1. setting \in Settings BY ChoicesAssumption
  <2>2. requests' \in 0..MaxRequests
    BY <1>1, MaxRequestsAssumption DEF SettingsChange, Request, TypeOK
  <2>3. settings' \in [Servers -> Settings] /\ \A r \in Servers : settings'[r] \in Choices[r]
    BY <1>1, <2>1 DEF SettingsChange, TypeOK
  <2>. QED BY <1>1, <2>2, <2>3 DEF SettingsChange, available_context_servers_changed, TypeOK
<1>2. ASSUME NEW new \in SUBSET Servers, DescriptorsChange(new) PROVE TypeOK'
  <2>1. requests' \in 0..MaxRequests
    BY <1>2, MaxRequestsAssumption DEF DescriptorsChange, Request, TypeOK
  <2>. QED BY <1>2, <2>1 DEF DescriptorsChange, available_context_servers_changed, TypeOK
<1>3. CASE maintain_servers
  <2>1. CASE ServersUpdated(Targets) BY <2>1, TargetsType, ServersUpdatedType
  <2>2. CASE Awaited # {} /\ ~ServersUpdated(Targets)
    BY <1>3, <2>2, TargetsType DEF maintain_servers, TypeOK
  <2>. QED BY <1>3, <2>1, <2>2 DEF maintain_servers
<1>4. CASE CommandsResolved
  <2>1. PICK failed : ServersUpdated([s \in Servers |-> IF s \in failed THEN "remove"
                                                       ELSE targets[s]])
    BY <1>4 DEF CommandsResolved
  <2>2. [s \in Servers |-> IF s \in failed THEN "remove" ELSE targets[s]]
          \in [Servers -> Configurations \cup {"stop", "remove"}]
    BY DEF TypeOK
  <2>. QED BY <2>1, <2>2, ServersUpdatedType
<1>5. CASE CallEnds BY <1>5 DEF CallEnds, TypeOK
<1>6. ASSUME NEW s \in Servers, start_server(s) PROVE TypeOK'
  <2>1. servers[s].server \in Instances BY <1>6 DEF start_server, TypeOK, Gone
  <2>2. requests' \in 0..MaxRequests
    BY <1>6, MaxRequestsAssumption DEF start_server, Request, TypeOK
  <2>3. /\ starting' \in [Servers -> [phase : {"none", "spawned", "resolving"},
                                     server : MaybeInstance, configuration : MaybeConfiguration]]
        /\ \A r \in Servers :
             /\ starting'[r].phase # "none" => starting'[r].server \in Instances
             /\ starting'[r].phase = "resolving" => starting'[r].configuration \in Extension
    BY <1>6, <2>1 DEF start_server, TypeOK, MaybeInstance, MaybeConfiguration
  <2>. QED BY <1>6, <2>2, <2>3 DEF start_server, TypeOK
<1>7. ASSUME NEW s \in Servers, stop_server(s) PROVE TypeOK'
  <2>1. servers' = [servers EXCEPT ![s].status = "Stopped"] /\ servers[s].status # "absent"
    BY <1>7 DEF stop_server
  <2>2. "Stopped" \in Statuses \ {"absent"} BY DEF Statuses
  <2>3. requests' \in 0..MaxRequests
    BY <1>7, MaxRequestsAssumption DEF stop_server, Request, TypeOK
  <2>4. \A r \in Servers : servers'[r].server \in MaybeInstance BY <2>1, <2>2, StatusType
  <2>5. EventsHandled({s}, {}) BY <1>7 DEF stop_server
  <2>6. connected' \subseteq Servers \X Instances /\ halted' \subseteq Servers
    BY <1>7 DEF stop_server, TypeOK
  <2>. QED
    BY <1>7, <2>1, <2>2, <2>3, <2>4, <2>5, <2>6, StatusType, EventsType DEF stop_server, TypeOK
<1>8. ASSUME NEW s \in Servers, StartServerEnds(s) PROVE TypeOK'
  BY <1>8 DEF StartServerEnds, TypeOK, NotStarting, MaybeInstance, MaybeConfiguration
<1>9. ASSUME NEW s \in Servers, StartServerPolled(s) PROVE TypeOK'
  <2>1. CASE settings[s].configuration \in Custom /\ run_server(s, settings[s].configuration)
    BY <1>9, <2>1, RunServerType DEF StartServerPolled, Configurations
  <2>2. CASE StartServerEnds(s) BY <2>2, <1>8
  <2>3. CASE /\ settings[s].configuration \in Extension
             /\ starting' = [starting EXCEPT
                              ![s] = [phase |-> "resolving", server |-> starting[s].server,
                                      configuration |-> settings[s].configuration]]
             /\ UNCHANGED <<configVars, servers, maintainVars, registryVars, connected, call,
                            auxVars, requests>>
    <3>1. starting[s].phase = "spawned" BY <1>9 DEF StartServerPolled
    <3>2. starting[s].server \in Instances BY <3>1 DEF TypeOK
    <3>3. /\ starting' \in [Servers -> [phase : {"none", "spawned", "resolving"},
                                       server : MaybeInstance,
                                       configuration : MaybeConfiguration]]
          /\ \A r \in Servers :
               /\ starting'[r].phase # "none" => starting'[r].server \in Instances
               /\ starting'[r].phase = "resolving" => starting'[r].configuration \in Extension
      BY <2>3, <3>2 DEF TypeOK, MaybeInstance, MaybeConfiguration, Configurations
    <3>. QED BY <2>3, <3>3 DEF TypeOK
  <2>. QED BY <1>9, <2>1, <2>2, <2>3 DEF StartServerPolled
<1>10. ASSUME NEW s \in Servers, CommandResolved(s) PROVE TypeOK'
  <2>1. CASE run_server(s, starting[s].configuration)
    <3>1. starting[s].configuration \in Configurations
      BY <1>10 DEF CommandResolved, TypeOK, Configurations
    <3>. QED BY <1>10, <2>1, <3>1, RunServerType DEF CommandResolved
  <2>. QED BY <1>8, <1>10, <2>1 DEF CommandResolved
<1>11. ASSUME NEW s \in Servers, ServerStarted(s) PROVE TypeOK'
  <2>1. servers' = [servers EXCEPT ![s].status = "Running"] /\ servers[s].status # "absent"
    BY <1>11 DEF ServerStarted
  <2>2. "Running" \in Statuses \ {"absent"} BY DEF Statuses
  <2>3. \A r \in Servers : servers'[r].server \in MaybeInstance BY <2>1, <2>2, StatusType
  <2>4. EventsHandled({}, {s}) BY <1>11 DEF ServerStarted
  <2>5. connected' \subseteq Servers \X Instances
    <3>1. servers[s].server \in Instances BY <2>1, <2>2, StatusType
    <3>. QED BY <1>11, <3>1 DEF ServerStarted, TypeOK
  <2>. QED BY <1>11, <2>1, <2>2, <2>3, <2>4, <2>5, StatusType, EventsType DEF ServerStarted, TypeOK
<1>12. ASSUME NEW s \in Servers, ServerFailed(s) PROVE TypeOK'
  <2>1. servers' = [servers EXCEPT ![s].status = "Error"] /\ servers[s].status # "absent"
    BY <1>12 DEF ServerFailed
  <2>2. "Error" \in Statuses \ {"absent"} BY DEF Statuses
  <2>3. \A r \in Servers : servers'[r].server \in MaybeInstance BY <2>1, <2>2, StatusType
  <2>4. EventsHandled({s}, {}) BY <1>12 DEF ServerFailed
  <2>. QED BY <1>12, <2>1, <2>2, <2>3, <2>4, StatusType, EventsType DEF ServerFailed, TypeOK
<1>13. ASSUME NEW s \in Servers, ToolsLoaded(s) PROVE TypeOK'
  BY <1>13 DEF ToolsLoaded, TypeOK, MaybeInstance
<1>14. ASSUME NEW s \in Servers, run(s) PROVE TypeOK'
  <2>1. servers[s].server \in Instances BY <1>14 DEF run, TypeOK, Gone
  <2>2. requests' \in 0..MaxRequests BY <1>14, MaxRequestsAssumption DEF run, Request, TypeOK
  <2>. QED BY <1>14, <2>1, <2>2 DEF run, TypeOK
<1>15. CASE UNCHANGED vars BY <1>15 DEF vars, TypeOK
<1>. QED
  BY <1>1, <1>2, <1>3, <1>4, <1>5, <1>6, <1>7, <1>9, <1>10, <1>11, <1>12, <1>13, <1>14, <1>15
  DEF Next

----------------------------------------------------------------------------
(* The tools on offer *)

\* Every server of a step: it keeps its instance and goes on running, or it is
\* among those the registry hears are down, or it was not running and is not,
\* or it is among those that are up.
LEMMA EventsFollowServers ==
  ASSUME TypeOK, ToolsOfRunningServers, NEW down, NEW up \in SUBSET Servers,
         EventsHandled(down, up), down \cap up = {},
         \A s \in Servers \ (up \cup down) :
           IF servers[s].status = "Running"
           THEN servers'[s].status = "Running" /\ servers'[s].server = servers[s].server
           ELSE servers'[s].status # "Running",
         \A s \in down : servers'[s].status # "Running",
         \A s \in up : servers[s].status # "Running" /\ servers'[s].status = "Running"
  PROVE  ToolsOfRunningServers'
<1>1. registered_servers' = {s \in WithTools : servers'[s].status = "Running"}
  BY WithToolsAssumption DEF EventsHandled, ToolsOfRunningServers
<1>2. ASSUME NEW s \in Servers
      PROVE  /\ tools'[s] \in {NoInstance, servers'[s].server}
             /\ load_tools'[s] \in {NoInstance, servers'[s].server}
             /\ s \notin registered_servers' =>
                  tools'[s] = NoInstance /\ load_tools'[s] = NoInstance
  <2>1. CASE s \in registered_servers \ down
    <3>1. servers[s].status = "Running" /\ s \notin up BY <2>1 DEF ToolsOfRunningServers
    <3>2. servers'[s].server = servers[s].server BY <2>1, <3>1
    <3>. QED BY <2>1, <3>1, <3>2 DEF EventsHandled, ToolsOfRunningServers
  <2>2. CASE s \notin registered_servers \ down BY <2>2 DEF EventsHandled
  <2>. QED BY <2>1, <2>2
<1>. QED BY <1>1, <1>2 DEF ToolsOfRunningServers

\* The final update of maintain_servers leaves alone what it does not report.
LEMMA ServersUpdatedTools ==
  ASSUME TypeOK, ToolsOfRunningServers,
         NEW to \in [Servers -> Configurations \cup {"stop", "remove"}], ServersUpdated(to)
  PROVE  ToolsOfRunningServers'
<1>. DEFINE started == {s \in Servers : Restarts(s, to)}
            present == {s \in Servers : servers[s].status # "absent"}
            stopped == present \cap (started \cup {s \in Servers : to[s] = "stop"})
            gone == {s \in present : to[s] = "remove"}
<1>1. PICK new : servers' = [s \in Servers |->
             IF s \in started
             THEN [status |-> "Starting", server |-> new[s], configuration |-> to[s]]
             ELSE IF s \in stopped THEN [servers[s] EXCEPT !.status = "Stopped"]
             ELSE IF s \in gone THEN Gone ELSE servers[s]]
  BY DEF ServersUpdated
<1>2. EventsHandled(stopped \cup gone, {}) BY DEF ServersUpdated
<1>3. \A s \in started \ stopped : servers[s].status = "absent" OBVIOUS
<1>4. stopped \subseteq Servers /\ gone \subseteq Servers OBVIOUS
<1>. HIDE DEF started, present, stopped, gone
<1>5. \A s \in stopped \cup gone : servers'[s].status # "Running"
  <2>1. ASSUME NEW s \in stopped \cup gone, s \notin started, s \in stopped
        PROVE  servers'[s].status # "Running"
    <3>1. servers'[s] = [servers[s] EXCEPT !.status = "Stopped"] BY <1>1, <1>4, <2>1
    <3>2. servers[s] \in [status : Statuses, server : MaybeInstance,
                          configuration : MaybeConfiguration]
      BY <1>4, <2>1 DEF TypeOK
    <3>. QED BY <3>1, <3>2
  <2>. QED BY <1>1, <1>4, <2>1 DEF Gone
<1>6. \A s \in Servers \ (stopped \cup gone) :
        IF servers[s].status = "Running"
        THEN servers'[s].status = "Running" /\ servers'[s].server = servers[s].server
        ELSE servers'[s].status # "Running"
  BY <1>1, <1>3
<1>. QED BY <1>2, <1>5, <1>6, EventsFollowServers

LEMMA RunServerTools ==
  ASSUME TypeOK, ToolsOfRunningServers, NEW s \in Servers, NEW configuration,
         run_server(s, configuration)
  PROVE  ToolsOfRunningServers'
<1>1. /\ servers'[s].status = "Starting"
      /\ \A r \in Servers \ {s} : servers'[r] = servers[r]
  BY DEF run_server, TypeOK
<1>2. EventsHandled(IF Up(s) THEN {s} ELSE {}, {}) BY DEF run_server
<1>3. CASE Up(s)
  <2>1. EventsHandled({s}, {}) BY <1>2, <1>3
  <2>. QED BY <1>1, <2>1, EventsFollowServers
<1>4. CASE ~Up(s)
  <2>1. EventsHandled({}, {}) BY <1>2, <1>4
  <2>2. servers[s].status # "Running" BY <1>4 DEF Up
  <2>. QED BY <1>1, <2>1, <2>2, EventsFollowServers
<1>. QED BY <1>3, <1>4

LEMMA ToolsStep ==
  ASSUME TypeOK, ToolsOfRunningServers, [Next]_vars PROVE ToolsOfRunningServers'
<1>. USE DEF configVars, maintainVars, registryVars, auxVars
<1>. DEFINE Quiet == UNCHANGED <<servers, registered_servers, tools, load_tools>>
<1>0. Quiet => ToolsOfRunningServers' BY DEF ToolsOfRunningServers
<1>1. ASSUME NEW s \in Servers, NEW setting \in Choices[s], SettingsChange(s, setting)
      PROVE  ToolsOfRunningServers'
  BY <1>0, <1>1 DEF SettingsChange
<1>2. ASSUME NEW new, DescriptorsChange(new) PROVE ToolsOfRunningServers'
  BY <1>0, <1>2 DEF DescriptorsChange
<1>3. CASE maintain_servers
  <2>1. CASE ServersUpdated(Targets) BY <2>1, TargetsType, ServersUpdatedTools
  <2>. QED BY <1>0, <1>3, <2>1 DEF maintain_servers
<1>4. CASE CommandsResolved
  <2>1. PICK failed : ServersUpdated([s \in Servers |-> IF s \in failed THEN "remove"
                                                       ELSE targets[s]])
    BY <1>4 DEF CommandsResolved
  <2>2. [s \in Servers |-> IF s \in failed THEN "remove" ELSE targets[s]]
          \in [Servers -> Configurations \cup {"stop", "remove"}]
    BY DEF TypeOK
  <2>. QED BY <2>1, <2>2, ServersUpdatedTools
<1>5. CASE CallEnds BY <1>0, <1>5 DEF CallEnds
<1>6. ASSUME NEW s \in Servers, start_server(s) PROVE ToolsOfRunningServers'
  BY <1>0, <1>6 DEF start_server
<1>7. ASSUME NEW s \in Servers, stop_server(s) PROVE ToolsOfRunningServers'
  <2>1. EventsHandled({s}, {}) BY <1>7 DEF stop_server
  <2>2. servers'[s].status = "Stopped" /\ \A r \in Servers \ {s} : servers'[r] = servers[r]
    BY <1>7 DEF stop_server, TypeOK
  <2>. QED BY <2>1, <2>2, EventsFollowServers
<1>8. ASSUME NEW s \in Servers, StartServerPolled(s) PROVE ToolsOfRunningServers'
  BY <1>0, <1>8, RunServerTools DEF StartServerPolled, StartServerEnds
<1>9. ASSUME NEW s \in Servers, CommandResolved(s) PROVE ToolsOfRunningServers'
  BY <1>0, <1>9, RunServerTools DEF CommandResolved, StartServerEnds
<1>10. ASSUME NEW s \in Servers, ServerStarted(s) PROVE ToolsOfRunningServers'
  <2>1. EventsHandled({}, {s}) BY <1>10 DEF ServerStarted
  <2>2. /\ servers[s].status = "Starting" /\ servers'[s].status = "Running"
        /\ \A r \in Servers \ {s} : servers'[r] = servers[r]
    BY <1>10 DEF ServerStarted, TypeOK
  <2>. QED BY <2>1, <2>2, EventsFollowServers
<1>11. ASSUME NEW s \in Servers, ServerFailed(s) PROVE ToolsOfRunningServers'
  <2>1. EventsHandled({s}, {}) BY <1>11 DEF ServerFailed
  <2>2. servers'[s].status = "Error" /\ \A r \in Servers \ {s} : servers'[r] = servers[r]
    BY <1>11 DEF ServerFailed, TypeOK
  <2>. QED BY <2>1, <2>2, EventsFollowServers
<1>12. ASSUME NEW s \in Servers, ToolsLoaded(s) PROVE ToolsOfRunningServers'
  BY <1>12 DEF ToolsLoaded, ToolsOfRunningServers, TypeOK
<1>13. ASSUME NEW s \in Servers, run(s) PROVE ToolsOfRunningServers' BY <1>0, <1>13 DEF run
<1>14. CASE UNCHANGED vars BY <1>0, <1>14 DEF vars
<1>. QED
  BY <1>1, <1>2, <1>3, <1>4, <1>5, <1>6, <1>7, <1>8, <1>9, <1>10, <1>11, <1>12, <1>13, <1>14
  DEF Next

----------------------------------------------------------------------------
(* Clients *)

LEMMA ServersUpdatedClients ==
  ASSUME TypeOK, ConnectedServersRun,
         NEW to \in [Servers -> Configurations \cup {"stop", "remove"}], ServersUpdated(to)
  PROVE  ConnectedServersRun'
<1>. DEFINE started == {s \in Servers : Restarts(s, to)}
            present == {s \in Servers : servers[s].status # "absent"}
            stopped == present \cap (started \cup {s \in Servers : to[s] = "stop"})
            gone == {s \in present : to[s] = "remove"}
<1>1. PICK new \in [started -> Instances] :
        /\ servers' = [s \in Servers |->
             IF s \in started
             THEN [status |-> "Starting", server |-> new[s], configuration |-> to[s]]
             ELSE IF s \in stopped THEN [servers[s] EXCEPT !.status = "Stopped"]
             ELSE IF s \in gone THEN Gone ELSE servers[s]]
        /\ connected' = (connected \ Disconnected(stopped)) \ {<<s, new[s]>> : s \in started}
        /\ removed' = (removed \cup {<<s, servers[s].server>> : s \in gone})
                        \ {<<s, new[s]>> : s \in started}
  BY DEF ServersUpdated
<1>2. \A s \in started \ stopped : servers[s].status = "absent" OBVIOUS
<1>3. stopped \subseteq Servers /\ gone \subseteq Servers OBVIOUS
<1>. HIDE DEF started, present, stopped, gone
<1>. SUFFICES ASSUME NEW s \in Servers, NEW i \in Instances
     PROVE  /\ servers'[s].status = "Running" /\ servers'[s].server = i => <<s, i>> \in connected'
            /\ <<s, i>> \in connected' =>
                 \/ servers'[s].status = "Running" /\ servers'[s].server = i
                 \/ <<s, i>> \in removed'
  BY DEF ConnectedServersRun
<1>4. <<s, i>> \in {<<r, new[r]>> : r \in started} <=> s \in started /\ i = new[s] OBVIOUS
<1>5. <<s, i>> \in Disconnected(stopped)
        <=> s \in stopped /\ servers[s].status = "Running" /\ i = servers[s].server
  BY <1>3 DEF Disconnected
<1>6. ASSUME servers'[s].status = "Running", servers'[s].server = i
      PROVE  <<s, i>> \in connected'
  <2>1. s \notin started BY <1>1, <1>6
  <2>2. s \notin stopped
    <3>1. servers[s] \in [status : Statuses, server : MaybeInstance,
                          configuration : MaybeConfiguration]
      BY DEF TypeOK
    <3>. QED BY <1>1, <1>6, <2>1, <3>1
  <2>3. servers'[s] = servers[s] BY <1>1, <1>6, <2>1, <2>2 DEF Gone
  <2>4. <<s, i>> \in connected BY <1>6, <2>3 DEF ConnectedServersRun
  <2>. QED BY <1>1, <1>4, <1>5, <2>1, <2>2, <2>4
<1>7. ASSUME <<s, i>> \in connected'
      PROVE  \/ servers'[s].status = "Running" /\ servers'[s].server = i
             \/ <<s, i>> \in removed'
  <2>1. /\ <<s, i>> \in connected /\ ~(s \in started /\ i = new[s])
        /\ ~(s \in stopped /\ servers[s].status = "Running" /\ i = servers[s].server)
    BY <1>1, <1>4, <1>5, <1>7
  <2>2. CASE <<s, i>> \in removed BY <1>1, <1>4, <2>1, <2>2
  <2>3. CASE servers[s].status = "Running" /\ servers[s].server = i
    <3>1. s \notin stopped /\ s \notin started BY <1>2, <2>1, <2>3
    <3>2. CASE s \in gone
      <4>1. <<s, i>> \in {<<r, servers[r].server>> : r \in gone} BY <2>3, <3>2
      <4>. QED BY <1>1, <1>4, <2>1, <4>1
    <3>3. CASE s \notin gone BY <1>1, <2>3, <3>1, <3>3
    <3>. QED BY <3>2, <3>3
  <2>. QED BY <2>1, <2>2, <2>3 DEF ConnectedServersRun
<1>. QED BY <1>6, <1>7

LEMMA RunServerClients ==
  ASSUME TypeOK, ConnectedServersRun, NEW s \in Servers, NEW configuration,
         run_server(s, configuration)
  PROVE  ConnectedServersRun'
<1>1. /\ servers'[s].status = "Starting" /\ removed' = removed
      /\ \A r \in Servers \ {s} : servers'[r] = servers[r]
  BY DEF run_server, TypeOK
<1>2. \A r \in Servers, i \in Instances :
        <<r, i>> \in connected' <=>
          <<r, i>> \in connected /\ ~(r = s /\ servers[s].status = "Running" /\ i = servers[s].server)
  BY DEF run_server, Disconnected
<1>. QED BY <1>1, <1>2 DEF ConnectedServersRun

LEMMA ClientsStep ==
  ASSUME TypeOK, ConnectedServersRun, [Next]_vars PROVE ConnectedServersRun'
<1>. USE DEF configVars, maintainVars, registryVars, auxVars
<1>. DEFINE Quiet == UNCHANGED <<servers, connected, removed>>
<1>0. Quiet => ConnectedServersRun' BY DEF ConnectedServersRun
<1>1. ASSUME NEW s \in Servers, NEW setting \in Choices[s], SettingsChange(s, setting)
      PROVE  ConnectedServersRun'
  BY <1>0, <1>1 DEF SettingsChange
<1>2. ASSUME NEW new, DescriptorsChange(new) PROVE ConnectedServersRun'
  BY <1>0, <1>2 DEF DescriptorsChange
<1>3. CASE maintain_servers
  <2>1. CASE ServersUpdated(Targets) BY <2>1, TargetsType, ServersUpdatedClients
  <2>. QED BY <1>0, <1>3, <2>1 DEF maintain_servers
<1>4. CASE CommandsResolved
  <2>1. PICK failed : ServersUpdated([s \in Servers |-> IF s \in failed THEN "remove"
                                                       ELSE targets[s]])
    BY <1>4 DEF CommandsResolved
  <2>2. [s \in Servers |-> IF s \in failed THEN "remove" ELSE targets[s]]
          \in [Servers -> Configurations \cup {"stop", "remove"}]
    BY DEF TypeOK
  <2>. QED BY <2>1, <2>2, ServersUpdatedClients
<1>5. CASE CallEnds BY <1>0, <1>5 DEF CallEnds
<1>6. ASSUME NEW s \in Servers, start_server(s) PROVE ConnectedServersRun'
  BY <1>0, <1>6 DEF start_server
<1>7. ASSUME NEW s \in Servers, stop_server(s) PROVE ConnectedServersRun'
  <2>1. /\ servers'[s].status = "Stopped" /\ removed' = removed
        /\ \A r \in Servers \ {s} : servers'[r] = servers[r]
    BY <1>7 DEF stop_server, TypeOK
  <2>2. \A r \in Servers, i \in Instances :
          <<r, i>> \in connected' <=>
            <<r, i>> \in connected /\ ~(r = s /\ servers[s].status = "Running" /\ i = servers[s].server)
    BY <1>7 DEF stop_server, Disconnected
  <2>. QED BY <2>1, <2>2 DEF ConnectedServersRun
<1>8. ASSUME NEW s \in Servers, StartServerPolled(s) PROVE ConnectedServersRun'
  BY <1>0, <1>8, RunServerClients DEF StartServerPolled, StartServerEnds
<1>9. ASSUME NEW s \in Servers, CommandResolved(s) PROVE ConnectedServersRun'
  BY <1>0, <1>9, RunServerClients DEF CommandResolved, StartServerEnds
<1>10. ASSUME NEW s \in Servers, ServerStarted(s) PROVE ConnectedServersRun'
  <2>1. /\ servers[s].status = "Starting" /\ servers'[s].status = "Running"
        /\ servers'[s].server = servers[s].server /\ removed' = removed
        /\ \A r \in Servers \ {s} : servers'[r] = servers[r]
    BY <1>10 DEF ServerStarted, TypeOK
  <2>2. connected' = connected \cup {<<s, servers[s].server>>} BY <1>10 DEF ServerStarted
  <2>. QED BY <2>1, <2>2 DEF ConnectedServersRun
<1>11. ASSUME NEW s \in Servers, ServerFailed(s) PROVE ConnectedServersRun'
  <2>1. /\ servers[s].status = "Starting" /\ servers'[s].status = "Error"
        /\ removed' = removed /\ connected' = connected
        /\ \A r \in Servers \ {s} : servers'[r] = servers[r]
    BY <1>11 DEF ServerFailed, TypeOK
  <2>. QED BY <2>1 DEF ConnectedServersRun
<1>12. ASSUME NEW s \in Servers, ToolsLoaded(s) PROVE ConnectedServersRun'
  BY <1>0, <1>12 DEF ToolsLoaded
<1>13. ASSUME NEW s \in Servers, run(s) PROVE ConnectedServersRun' BY <1>0, <1>13 DEF run
<1>14. CASE UNCHANGED vars BY <1>0, <1>14 DEF vars
<1>. QED
  BY <1>1, <1>2, <1>3, <1>4, <1>5, <1>6, <1>7, <1>8, <1>9, <1>10, <1>11, <1>12, <1>13, <1>14
  DEF Next

----------------------------------------------------------------------------
(* Settings *)

\* The final update brings every server where it is to go.
LEMMA ServersUpdatedFollows ==
  ASSUME TypeOK, NEW to \in [Servers -> Configurations \cup {"stop", "remove"}],
         ServersUpdated(to), NEW s \in Servers
  PROVE  /\ to[s] \in Configurations =>
              servers'[s].configuration = to[s] /\ servers'[s].status \notin {"absent", "Stopped"}
         /\ to[s] = "stop" => servers'[s].status \in {"absent", "Stopped"}
         /\ to[s] = "remove" => servers'[s].status = "absent"
<1>. DEFINE started == {r \in Servers : Restarts(r, to)}
            present == {r \in Servers : servers[r].status # "absent"}
            stopped == present \cap (started \cup {r \in Servers : to[r] = "stop"})
            gone == {r \in present : to[r] = "remove"}
<1>1. PICK new : servers' = [r \in Servers |->
             IF r \in started
             THEN [status |-> "Starting", server |-> new[r], configuration |-> to[r]]
             ELSE IF r \in stopped THEN [servers[r] EXCEPT !.status = "Stopped"]
             ELSE IF r \in gone THEN Gone ELSE servers[r]]
  BY DEF ServersUpdated
<1>2. s \in started <=>
        to[s] \in Configurations
          /\ (servers[s].configuration # to[s] \/ servers[s].status = "Stopped")
  BY DEF Restarts
<1>3. s \in stopped <=> servers[s].status # "absent" /\ (s \in started \/ to[s] = "stop")
  OBVIOUS
<1>4. s \in gone <=> servers[s].status # "absent" /\ to[s] = "remove" OBVIOUS
<1>5. servers[s].status = "absent" => servers[s].configuration = NoConfig
  BY DEF TypeOK, Gone
<1>6. servers[s] \in [status : Statuses, server : MaybeInstance,
                      configuration : MaybeConfiguration]
  BY DEF TypeOK
<1>. HIDE DEF started, present, stopped, gone
<1>7. CASE to[s] \in Configurations
  <2>1. to[s] # "stop" /\ to[s] # "remove" /\ to[s] # NoConfig
    BY <1>7, ConfigurationsAssumption
  <2>2. CASE s \in started BY <1>1, <2>1, <2>2
  <2>3. CASE s \notin started
    <3>1. servers'[s] = servers[s] BY <1>1, <1>3, <1>4, <2>1, <2>3
    <3>. QED BY <1>2, <1>5, <1>7, <2>1, <2>3, <3>1
  <2>. QED BY <2>2, <2>3
<1>8. CASE to[s] = "stop"
  <2>1. s \notin started BY <1>2, <1>8, ConfigurationsAssumption
  <2>2. to[s] \notin Configurations BY <1>8, ConfigurationsAssumption
  <2>3. CASE s \in stopped
    <3>1. servers'[s] = [servers[s] EXCEPT !.status = "Stopped"] BY <1>1, <2>1, <2>3
    <3>. QED BY <1>6, <1>8, <2>2, <3>1
  <2>4. CASE s \notin stopped
    <3>1. servers'[s] = servers[s] BY <1>1, <1>4, <1>8, <2>1, <2>4
    <3>. QED BY <1>3, <1>8, <2>2, <2>4, <3>1
  <2>. QED BY <2>3, <2>4
<1>9. CASE to[s] = "remove"
  <2>1. s \notin started /\ to[s] \notin Configurations
    BY <1>2, <1>9, ConfigurationsAssumption
  <2>2. CASE servers[s].status # "absent"
    <3>1. servers'[s] = Gone BY <1>1, <1>3, <1>4, <1>9, <2>1, <2>2
    <3>. QED BY <1>9, <2>1, <3>1 DEF Gone
  <2>3. CASE servers[s].status = "absent"
    <3>1. servers'[s] = servers[s] BY <1>1, <1>3, <1>4, <2>1, <2>3
    <3>. QED BY <1>9, <2>1, <2>3, <3>1
  <2>. QED BY <2>2, <2>3
<1>. QED BY <1>7, <1>8, <1>9

\* What the settings ask for is done by an update that was computed from them,
\* but for commands that could not be had.
LEMMA ServersUpdatedApplied ==
  ASSUME TypeOK, NEW to \in [Servers -> Configurations \cup {"stop", "remove"}],
         ServersUpdated(to),
         ~needs_server_update =>
           \A s \in Servers : to[s] = Target(s) \/ (to[s] = "remove" /\ Target(s) \in Extension)
  PROVE  Applied'
<1>1. update_servers_task' # "resolving" BY DEF ServersUpdated
<1>2. ASSUME update_servers_task' = "none", NEW s \in Servers
      PROVE  Follows(s, Target(s))'
  <2>1. to[s] = Target(s) \/ (to[s] = "remove" /\ Target(s) \in Extension)
    BY <1>2 DEF ServersUpdated
  <2>2. Target(s)' = Target(s) BY DEF ServersUpdated, configVars, Target, Setting
  <2>3. Target(s) \in Configurations \cup {"stop", "remove"} BY TargetType
  <2>4. Extension \subseteq Configurations BY DEF Configurations
  <2>5. /\ to[s] \in Configurations =>
             servers'[s].configuration = to[s] /\ servers'[s].status \notin {"absent", "Stopped"}
        /\ to[s] = "stop" => servers'[s].status \in {"absent", "Stopped"}
        /\ to[s] = "remove" => servers'[s].status = "absent"
    BY ServersUpdatedFollows
  <2>. QED BY <2>1, <2>2, <2>3, <2>4, <2>5, ConfigurationsAssumption DEF Follows
<1>. QED BY <1>1, <1>2 DEF Applied, TargetsAreCurrent, SettingsAreApplied

LEMMA ChangeApplied ==
  ASSUME TypeOK, available_context_servers_changed PROVE Applied'
BY DEF available_context_servers_changed, TypeOK, Applied, TargetsAreCurrent, SettingsAreApplied

LEMMA RunServerApplied ==
  ASSUME TypeOK, Applied, NEW s \in Servers, NEW configuration \in Configurations,
         run_server(s, configuration)
  PROVE  Applied'
<1>1. /\ servers'[s].status = "Starting" /\ servers'[s].configuration = configuration
      /\ \A r \in Servers \ {s} : servers'[r] = servers[r]
  BY DEF run_server, TypeOK
<1>2. \A r \in Servers : Target(r)' = Target(r) BY DEF run_server, configVars, Target, Setting
<1>3. halted' = halted \ {s} BY DEF run_server
<1>4. \A r \in Servers \ {s} : Follows(r, Target(r)) => Follows(r, Target(r))'
  BY <1>1, <1>2, <1>3 DEF Follows
<1>5. s \notin outdated' => Follows(s, Target(s))'
  <2>1. ASSUME s \notin outdated' PROVE Target(s) = configuration BY <2>1 DEF run_server
  <2>. QED BY <1>1, <1>2, <2>1, ConfigurationsAssumption DEF Follows
<1>6. \A r \in Servers \ {s} : r \in outdated' <=> r \in outdated BY DEF run_server
<1>7. TargetsAreCurrent'
  BY DEF run_server, configVars, maintainVars, Applied, TargetsAreCurrent, Targets, Target, Setting
<1>8. SettingsAreApplied'
  BY <1>4, <1>5, <1>6 DEF run_server, maintainVars, Applied, SettingsAreApplied
<1>. QED BY <1>7, <1>8 DEF Applied

\* The status of a server that is up or failed may change to any but absent.
LEMMA StatusApplied ==
  ASSUME TypeOK, Applied, NEW s \in Servers, NEW status \in Statuses \ {"absent"},
         servers[s].status \in {"Starting", "Running", "Error"},
         servers' = [servers EXCEPT ![s].status = status],
         status = "Stopped" => s \in halted', halted \subseteq halted',
         UNCHANGED <<settings, descriptors, update_servers_task, needs_server_update, targets,
                     outdated>>
  PROVE  Applied'
<1>1. /\ servers'[s].status = status
      /\ servers'[s].configuration = servers[s].configuration
      /\ \A r \in Servers \ {s} : servers'[r] = servers[r]
  BY DEF TypeOK
<1>2. \A r \in Servers : Target(r)' = Target(r) BY DEF Target, Setting
<1>3. \A r \in Servers : Follows(r, Target(r)) => Follows(r, Target(r))'
  BY <1>1, <1>2 DEF Follows
<1>4. TargetsAreCurrent' BY DEF Applied, TargetsAreCurrent, Targets, Target, Setting
<1>5. SettingsAreApplied' BY <1>3 DEF Applied, SettingsAreApplied
<1>. QED BY <1>4, <1>5 DEF Applied

LEMMA AppliedStep ==
  ASSUME TypeOK, Applied, [Next]_vars PROVE Applied'
<1>. USE DEF configVars, maintainVars, registryVars, auxVars
<1>. DEFINE Quiet == UNCHANGED <<settings, descriptors, update_servers_task, needs_server_update,
                                 targets, servers, halted, outdated>>
<1>0. Quiet => Applied'
  BY DEF Applied, TargetsAreCurrent, SettingsAreApplied, Follows, Targets, Target, Setting
<1>1. ASSUME NEW s \in Servers, NEW setting \in Choices[s], SettingsChange(s, setting)
      PROVE  Applied'
  BY <1>1, ChangeApplied DEF SettingsChange
<1>2. ASSUME NEW new, DescriptorsChange(new) PROVE Applied'
  BY <1>2, ChangeApplied DEF DescriptorsChange
<1>3. CASE maintain_servers
  <2>1. CASE ServersUpdated(Targets)
    <3>1. \A s \in Servers : Targets[s] = Target(s) BY DEF Targets
    <3>2. ~needs_server_update =>
            \A s \in Servers : \/ Targets[s] = Target(s)
                               \/ Targets[s] = "remove" /\ Target(s) \in Extension
      BY <3>1
    <3>. QED BY <2>1, <3>2, TargetsType, ServersUpdatedApplied
  <2>2. CASE Awaited # {} /\ ~ServersUpdated(Targets)
    <3>1. update_servers_task' = "resolving" /\ targets' = Targets
      BY <1>3, <2>2 DEF maintain_servers
    <3>2. UNCHANGED <<settings, descriptors>> BY <1>3, <2>2 DEF maintain_servers
    <3>. QED BY <3>1, <3>2
             DEF Applied, TargetsAreCurrent, SettingsAreApplied, Targets, Target, Setting
  <2>. QED BY <1>3, <2>1, <2>2 DEF maintain_servers
<1>4. CASE CommandsResolved
  <2>1. PICK failed \in SUBSET {s \in Servers : targets[s] \in Extension} :
          ServersUpdated([s \in Servers |-> IF s \in failed THEN "remove" ELSE targets[s]])
    BY <1>4 DEF CommandsResolved
  <2>. DEFINE to == [s \in Servers |-> IF s \in failed THEN "remove" ELSE targets[s]]
  <2>2. to \in [Servers -> Configurations \cup {"stop", "remove"}] BY DEF TypeOK
  <2>3. ASSUME ~needs_server_update, NEW s \in Servers
        PROVE  to[s] = Target(s) \/ (to[s] = "remove" /\ Target(s) \in Extension)
    <3>1. targets = Targets
      BY <1>4, <2>3 DEF CommandsResolved, Applied, TargetsAreCurrent
    <3>2. targets[s] = Target(s) BY <3>1 DEF Targets
    <3>3. s \in failed => targets[s] \in Extension BY <2>1
    <3>4. to[s] = IF s \in failed THEN "remove" ELSE targets[s] OBVIOUS
    <3>. HIDE DEF to
    <3>. QED BY <3>2, <3>3, <3>4
  <2>4. ServersUpdated(to) BY <2>1
  <2>. HIDE DEF to
  <2>. QED BY <2>2, <2>3, <2>4, ServersUpdatedApplied
<1>5. CASE CallEnds BY <1>0, <1>5 DEF CallEnds
<1>6. ASSUME NEW s \in Servers, start_server(s) PROVE Applied' BY <1>0, <1>6 DEF start_server
<1>7. ASSUME NEW s \in Servers, stop_server(s) PROVE Applied'
  <2>1. "Stopped" \in Statuses \ {"absent"} BY DEF Statuses
  <2>. QED BY <1>7, <2>1, StatusApplied DEF stop_server
<1>8. ASSUME NEW s \in Servers, StartServerPolled(s) PROVE Applied'
  <2>1. Custom \subseteq Configurations BY DEF Configurations
  <2>. QED BY <1>0, <1>8, <2>1, RunServerApplied DEF StartServerPolled, StartServerEnds
<1>9. ASSUME NEW s \in Servers, CommandResolved(s) PROVE Applied'
  <2>1. starting[s].configuration \in Configurations
    BY <1>9 DEF CommandResolved, TypeOK, Configurations
  <2>. QED BY <1>0, <1>9, <2>1, RunServerApplied DEF CommandResolved, StartServerEnds
<1>10. ASSUME NEW s \in Servers, ServerStarted(s) PROVE Applied'
  <2>1. "Running" \in Statuses \ {"absent"} BY DEF Statuses
  <2>. QED BY <1>10, <2>1, StatusApplied DEF ServerStarted
<1>11. ASSUME NEW s \in Servers, ServerFailed(s) PROVE Applied'
  <2>1. "Error" \in Statuses \ {"absent"} BY DEF Statuses
  <2>. QED BY <1>11, <2>1, StatusApplied DEF ServerFailed
<1>12. ASSUME NEW s \in Servers, ToolsLoaded(s) PROVE Applied' BY <1>0, <1>12 DEF ToolsLoaded
<1>13. ASSUME NEW s \in Servers, run(s) PROVE Applied' BY <1>0, <1>13 DEF run
<1>14. CASE UNCHANGED vars BY <1>0, <1>14 DEF vars
<1>. QED
  BY <1>1, <1>2, <1>3, <1>4, <1>5, <1>6, <1>7, <1>8, <1>9, <1>10, <1>11, <1>12, <1>13, <1>14
  DEF Next

----------------------------------------------------------------------------
(* The theorems *)

IInv == TypeOK /\ ToolsOfRunningServers /\ ConnectedServersRun /\ Applied

LEMMA InitIInv == Init => IInv
<1>. SUFFICES ASSUME Init PROVE IInv OBVIOUS
<1>1. TypeOK BY InitType
<1>2. \A s \in Servers : servers[s].status = "absent" BY DEF Init, Gone
<1>3. ToolsOfRunningServers
  <2>1. {s \in WithTools : servers[s].status = "Running"} = {} BY <1>2, WithToolsAssumption
  <2>. QED BY <2>1 DEF Init, ToolsOfRunningServers
<1>4. ConnectedServersRun BY <1>2 DEF Init, ConnectedServersRun
<1>5. Applied BY DEF Init, Applied, TargetsAreCurrent, SettingsAreApplied
<1>. QED BY <1>1, <1>3, <1>4, <1>5 DEF IInv

\* The conjunction of the properties is an inductive invariant of the store and
\* the registry.
THEOREM Invariance == Spec => []IInv
<1>1. IInv /\ [Next]_vars => IInv'
  BY StepType, ToolsStep, ClientsStep, AppliedStep DEF IInv
<1>. QED BY InitIInv, <1>1, PTL DEF Spec

\* Type correctness of store, registry and clients.
THEOREM TypeCorrect == Spec => []TypeOK
<1>1. IInv => TypeOK BY DEF IInv
<1>. QED BY Invariance, <1>1, PTL

\* However starts, stops, removals and lists of tools interleave, the registry
\* offers the tools of exactly the instances that run
\* (ContextServerRegistry::handle_context_server_store_event).
THEOREM ToolsAlwaysOfRunningServers == Spec => []ToolsOfRunningServers
<1>1. IInv => ToolsOfRunningServers BY DEF IInv
<1>. QED BY Invariance, <1>1, PTL

\* An instance has a client exactly while the store says that it is Running,
\* unless remove_server dropped it (ContextServerStore::stop_server).
THEOREM OnlyRunningServersConnected == Spec => []ConnectedServersRun
<1>1. IInv => ConnectedServersRun BY DEF IInv
<1>. QED BY Invariance, <1>1, PTL

\* No change of the settings or of the extensions is lost
\* (ContextServerStore::available_context_servers_changed).
THEOREM SettingsAlwaysApplied == Spec => []SettingsAreApplied
<1>1. IInv => SettingsAreApplied BY DEF IInv, Applied
<1>. QED BY Invariance, <1>1, PTL
=============================================================================
