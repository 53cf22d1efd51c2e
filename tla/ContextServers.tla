--------------------------- MODULE ContextServers ---------------------------
(***************************************************************************)
(* The "Model Context Protocol (MCP) Servers" section of the agent        *)
(* configuration panel (src/crates/agent_ui/src/agent_configuration.rs):   *)
(* the per-server switch, the tool-list disclosure, the "Uninstall" menu   *)
(* entry and the status toast it may raise.                               *)
(*                                                                         *)
(* The ContextServerStore, the ExtensionStore and the settings file live  *)
(* outside this repository; they are modelled by what these handlers       *)
(* observe and change: a server's status, whether get_server finds it,   *)
(* each extension's install state, and the context_servers entries of the *)
(* project settings.  update_settings_file is one atomic step.  Rendering *)
(* (icons, labels, tooltips) is left out.                                  *)
(***************************************************************************)
EXTENDS Naturals, FiniteSets

CONSTANTS
    Servers,        \* context server ids
    Extensions,     \* installed extension ids
    NoExtension,    \* no extension provides the server (custom server)
    Provider,       \* Provider[s]: the extension whose manifest lists s
    OnlyServer,     \* extensions whose manifest provides just one server
    ServersWithTools, \* servers that contribute tools to the ToolWorkingSet
    Absent,         \* no context_servers entry in the settings
    MaxTasks        \* bound on the Uninstall tasks pending for one server

ASSUME Provider \in [Servers -> Extensions \cup {NoExtension}]
ASSUME OnlyServer \subseteq Extensions
ASSUME MaxTasks \in Nat \ {0}

\* The status the ContextServerStore reports (Stopped when unknown).
Statuses == {"stopped", "starting", "running", "error"}

\* A context_servers settings entry, reduced to its enabled flag.
SettingsEntry == [enabled : BOOLEAN]

\* What the ExtensionStore knows of an extension.
ExtensionStates == {"installed", "uninstalling", "uninstalled"}

NoToast == "no_toast"

VARIABLES
    settings,    \* settings[s]: the context_servers entry of s, or Absent
    status,      \* status[s]: ContextServerStore::status_for_server
    extension,   \* extension[e]: install state in the ExtensionStore
    expanded,    \* expanded[s]: expanded_context_server_tools
    awaiting,    \* awaiting[s]: Uninstall tasks of s awaiting the extension
    removing,    \* removing[s]: Uninstall tasks of s about to remove settings
    toastRemove, \* servers whose settings removal the toast has spawned
    toast        \* the server the warning toast is shown for, or NoToast

vars == <<settings, status, extension, expanded, awaiting, removing, toastRemove,
          toast>>

TypeOK ==
    /\ settings \in [Servers -> SettingsEntry \cup {Absent}]
    /\ status \in [Servers -> Statuses]
    /\ extension \in [Extensions -> ExtensionStates]
    /\ expanded \in [Servers -> BOOLEAN]
    /\ awaiting \in [Servers -> 0..MaxTasks]
    /\ removing \in [Servers -> 0..MaxTasks]
    /\ toastRemove \subseteq Servers
    /\ toast \in Servers \cup {NoToast}

\* configuration_for_server(..) is ContextServerConfiguration::Extension:
\* the server was installed from an extension.
IsFromExtension(s) == Provider[s] # NoExtension

\* resolve_extension_for_context_server: the installed extension whose
\* manifest lists the server, if any.
ResolveExtension(s) ==
    IF IsFromExtension(s) /\ extension[Provider[s]] # "uninstalled"
    THEN {Provider[s]} ELSE {}

\* extension_only_provides_context_server: one context server and no
\* themes, languages, grammars, language servers, slash commands, ...
ExtensionOnlyProvidesContextServer(e) == e \in OnlyServer

\* configured_server_ids: a server with a settings entry or provided by an
\* installed extension is listed in the section.
Configured(s) == settings[s] # Absent \/ ResolveExtension(s) # {}

Init ==
    /\ settings = [s \in Servers |-> [enabled |-> TRUE]]
    /\ status \in [Servers -> Statuses]
    /\ extension = [e \in Extensions |-> "installed"]
    /\ expanded = [s \in Servers |-> FALSE]
    /\ awaiting = [s \in Servers |-> 0]
    /\ removing = [s \in Servers |-> 0]
    /\ toastRemove = {}
    /\ toast = NoToast

\* The tool-list disclosure: disabled when the server has no tools;
\* entry(..).or_insert(false) then negate.
ToggleTools(s) ==
    /\ Configured(s)
    /\ s \in ServersWithTools
    /\ expanded' = [expanded EXCEPT ![s] = ~@]
    /\ UNCHANGED <<settings, status, extension, awaiting, removing, toastRemove, toast>>

\* The server switch: it shows is_running, so a click on a running server
\* stops it and writes enabled: false; on any other server it starts the
\* server only if get_server finds it, yet writes enabled: true either way.
\* update_settings_file inserts an Extension entry when there is none and
\* then sets its enabled flag.
Switch(s) ==
    /\ Configured(s)
    /\ \/ /\ status[s] = "running"
          /\ status' = [status EXCEPT ![s] = "stopped"]
          /\ settings' = [settings EXCEPT ![s] = [enabled |-> FALSE]]
       \/ /\ status[s] # "running"
          /\ \E found \in BOOLEAN :
                status' = [status EXCEPT ![s] = IF found THEN "starting"
                                                         ELSE @]
          /\ settings' = [settings EXCEPT ![s] = [enabled |-> TRUE]]
    /\ UNCHANGED <<extension, expanded, awaiting, removing, toastRemove, toast>>

\* The store brings a starting server up, or it fails.
ServerStarted(s) ==
    /\ status[s] = "starting"
    /\ status' \in {[status EXCEPT ![s] = "running"],
                    [status EXCEPT ![s] = "error"]}
    /\ UNCHANGED <<settings, extension, expanded, awaiting, removing, toastRemove,
                   toast>>

\* Tasks an Uninstall click can still spawn for s within the bound.
CanSpawn(s) == awaiting[s] + removing[s] < MaxTasks

\* workspace.toggle_status_toast: a StatusToast already shown is hidden,
\* otherwise the new one is shown.
ToggleToast(s) == toast' = IF toast = NoToast THEN s ELSE NoToast

\* Mutation: the toast is raised with the id of the resolved extension
\* instead of the context server's.
ClickUninstallToastForExtension(s) ==
    /\ Configured(s)
    /\ CanSpawn(s)
    /\ IF \E e \in ResolveExtension(s) : ExtensionOnlyProvidesContextServer(e)
       THEN /\ extension' = [extension EXCEPT ![Provider[s]] = "uninstalling"]
            /\ awaiting' = [awaiting EXCEPT ![s] = @ + 1]
            /\ UNCHANGED <<removing, toast>>
       ELSE /\ IF ResolveExtension(s) # {} THEN ToggleToast(Provider[s])
                                           ELSE UNCHANGED toast
            /\ removing' = [removing EXCEPT ![s] = @ + 1]
            /\ UNCHANGED <<extension, awaiting>>
    /\ UNCHANGED <<settings, status, expanded, toastRemove>>

\* The "Uninstall" menu entry, offered whatever tasks earlier clicks left
\* pending.  An extension server whose extension provides only it asks
\* the ExtensionStore to uninstall the extension; while an uninstall of it
\* is outstanding the store answers Task::ready(Ok(())).  One whose
\* extension provides more toggles the warning toast and gets a ready
\* task; a custom server gets a ready task.  The spawned task awaits that
\* task and then removes the settings entry.
ClickUninstall(s) ==
    /\ Configured(s)
    /\ CanSpawn(s)
    /\ IF \E e \in ResolveExtension(s) : ExtensionOnlyProvidesContextServer(e)
       THEN IF extension[Provider[s]] = "installed"
            THEN /\ extension' = [extension EXCEPT ![Provider[s]] = "uninstalling"]
                 /\ awaiting' = [awaiting EXCEPT ![s] = @ + 1]
                 /\ UNCHANGED <<removing, toast>>
            ELSE /\ removing' = [removing EXCEPT ![s] = @ + 1]
                 /\ UNCHANGED <<extension, awaiting, toast>>
       ELSE /\ IF ResolveExtension(s) # {} THEN ToggleToast(s)
                                           ELSE UNCHANGED toast
            /\ removing' = [removing EXCEPT ![s] = @ + 1]
            /\ UNCHANGED <<extension, awaiting>>
    /\ UNCHANGED <<settings, status, expanded, toastRemove>>

\* ExtensionStore::uninstall_extension finishes, or fails and the
\* extension stays installed.
ExtensionUninstalled(e) ==
    /\ extension[e] = "uninstalling"
    /\ extension' \in {[extension EXCEPT ![e] = "uninstalled"],
                       [extension EXCEPT ![e] = "installed"]}
    /\ UNCHANGED <<settings, status, expanded, awaiting, removing, toastRemove, toast>>

\* uninstall_extension_task.await?: once the extension uninstall is over,
\* an error ends the task before the settings are touched.
AwaitUninstall(s) ==
    /\ awaiting[s] > 0
    /\ extension[Provider[s]] # "uninstalling"
    /\ awaiting' = [awaiting EXCEPT ![s] = @ - 1]
    /\ removing' = IF extension[Provider[s]] = "uninstalled"
                   THEN [removing EXCEPT ![s] = @ + 1] ELSE removing
    /\ UNCHANGED <<settings, status, extension, expanded, toastRemove, toast>>

\* update_settings_file removing settings.context_servers[s].
RemoveSettings(s) ==
    /\ removing[s] > 0
    /\ settings' = [settings EXCEPT ![s] = Absent]
    /\ removing' = [removing EXCEPT ![s] = @ - 1]
    /\ UNCHANGED <<status, extension, expanded, awaiting, toastRemove, toast>>

\* The toast's "Uninstall" action: if the extension still resolves, its
\* uninstall is started and detached, and a separate task is spawned to
\* remove the settings entry; the toast then goes away.
ConfirmToast ==
    /\ toast # NoToast
    /\ \/ /\ ResolveExtension(toast) # {}
          /\ extension' = [extension EXCEPT ![Provider[toast]] = "uninstalling"]
          /\ toastRemove' = toastRemove \cup {toast}
       \/ /\ ResolveExtension(toast) = {}
          /\ UNCHANGED <<extension, toastRemove>>
    /\ toast' = NoToast
    /\ UNCHANGED <<settings, status, expanded, awaiting, removing>>

\* The toast's dismiss button.
DismissToast ==
    /\ toast # NoToast
    /\ toast' = NoToast
    /\ UNCHANGED <<settings, status, extension, expanded, awaiting,
                   removing, toastRemove>>

\* The task the toast spawned removes the settings entry.
ToastRemoveSettings(s) ==
    /\ s \in toastRemove
    /\ settings' = [settings EXCEPT ![s] = Absent]
    /\ toastRemove' = toastRemove \ {s}
    /\ UNCHANGED <<status, extension, expanded, awaiting, removing, toast>>

Next ==
    \/ ConfirmToast
    \/ DismissToast
    \/ \E e \in Extensions : ExtensionUninstalled(e)
    \/ \E s \in Servers :
          \/ ToggleTools(s) \/ Switch(s) \/ ServerStarted(s)
          \/ ClickUninstall(s) \/ AwaitUninstall(s) \/ RemoveSettings(s)
          \/ ToastRemoveSettings(s)

Spec == Init /\ [][Next]_vars

(***************************************************************************)
(* Properties                                                              *)
(***************************************************************************)

\* The settings entry of server s, installed from an extension, is gone
\* only once that extension is uninstalled.
RemovedWithExtension(s) ==
    IsFromExtension(s) /\ settings[s] = Absent
        => extension[Provider[s]] = "uninstalled"

\* The warning toast asks whether to "Proceed to uninstall anyway?": until
\* the user confirms and the extension is uninstalled, a server of an
\* extension that provides more than the server keeps its settings entry.
\* The Uninstall entry's task removes it at once, without awaiting the
\* answer, and the toast's action removes it without awaiting the
\* extension uninstall it detached.  For an extension that provides only
\* the server, a second Uninstall click while the first is pending gets
\* the store's ready Ok and removes the entry before the uninstall ends.
SettingsKeptUntilUninstalled ==
    \A s \in Servers : RemovedWithExtension(s)

=============================================================================
