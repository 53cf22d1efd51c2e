\* Uninstalling the server of an extension that provides more than it.
CONSTANTS
    s1 = s1
    s2 = s2
    s3 = s3
    e1 = e1
    e2 = e2
    Servers = {s1, s2, s3}
    Extensions = {e1, e2}
    NoExtension = NoExtension
    Absent = Absent
    MaxTasks = 2
    Provider <- MCProvider
    OnlyServer <- MCOnlyServer
    ServersWithTools <- MCServersWithTools
SPECIFICATION Spec
INVARIANT SettingsKeptUntilUninstalled
\* Once every server is uninstalled the section lists nothing and offers no
\* step of this model (adding a server goes through a separate modal).
CHECK_DEADLOCK FALSE
