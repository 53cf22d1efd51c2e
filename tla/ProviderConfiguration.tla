------------------------ MODULE ProviderConfiguration ------------------------
(***************************************************************************)
(* The "LLM Providers" section of the agent configuration panel           *)
(* (src/crates/agent_ui/src/agent_configuration.rs): the panel keeps a    *)
(* configuration view and an expanded flag per provider, builds the views *)
(* from the LanguageModelRegistry when it is constructed, and follows the *)
(* registry's AddedProvider / RemovedProvider events through a            *)
(* subscription.  gpui queues emitted events and delivers them in order,  *)
(* so the panel may lag behind the registry; events is that queue.  The   *)
(* registry itself is outside this repository: it adds and removes        *)
(* providers and emits one event per change.  The provider list the user  *)
(* clicks is the one of the last rendered frame: the event handlers do    *)
(* not call cx.notify, so that frame may predate events already handled. *)
(***************************************************************************)
EXTENDS Naturals, Sequences

CONSTANTS
    Providers,      \* provider ids
    CloudProvider,  \* ZED_CLOUD_PROVIDER_ID
    MustAcceptTerms, \* whether the cloud provider must accept terms
    MaxEvents       \* bound on the undelivered events

ASSUME CloudProvider \in Providers /\ MustAcceptTerms \in BOOLEAN

Events == [kind : {"added", "removed"}, provider : Providers]

VARIABLES
    registry,   \* the providers the LanguageModelRegistry holds
    events,     \* registry events not yet delivered to the panel
    open,       \* whether the AgentConfiguration entity exists
    views,      \* DOMAIN of configuration_views_by_provider
    expanded,   \* expanded_provider_configurations, as a partial function
    shown       \* the providers listed by the last rendered frame

vars == <<registry, events, open, views, expanded, shown>>

TypeOK ==
    /\ registry \subseteq Providers
    /\ events \in Seq(Events) /\ Len(events) <= MaxEvents
    /\ open \in BOOLEAN
    /\ views \subseteq Providers
    /\ \E D \in SUBSET Providers : expanded \in [D -> BOOLEAN]
    /\ shown \subseteq Providers

Init ==
    /\ registry \in SUBSET Providers
    /\ events = << >>
    /\ open = FALSE
    /\ views = {}
    /\ expanded = << >>
    /\ shown = {}

\* The registry registers or unregisters a provider; the panel, once
\* subscribed, will be told.
RegistryChange ==
    /\ Len(events) < MaxEvents
    /\ \E p \in Providers :
          \/ /\ p \notin registry
             /\ registry' = registry \cup {p}
             /\ events' = IF open THEN Append(events, [kind |-> "added",
                                                        provider |-> p])
                                  ELSE events
          \/ /\ p \in registry
             /\ registry' = registry \ {p}
             /\ events' = IF open THEN Append(events, [kind |-> "removed",
                                                        provider |-> p])
                                  ELSE events
    /\ UNCHANGED <<open, views, expanded, shown>>

\* AgentConfiguration::new: subscribe to the registry, expand the cloud
\* provider when it must accept terms, then
\* build_provider_configuration_views adds a view for every provider.
New ==
    /\ ~open
    /\ open' = TRUE
    /\ views' = registry
    /\ expanded' = IF CloudProvider \in registry /\ MustAcceptTerms
                   THEN [p \in {CloudProvider} |-> TRUE] ELSE << >>
    /\ UNCHANGED <<registry, events, shown>>

\* add_provider_configuration_view: insert the provider's view.
AddProviderConfigurationView(p) == views' = views \cup {p}

\* Mutation: remove_provider_configuration_view keeps the view.
RemoveProviderConfigurationViewKeepingView(p) ==
    /\ views' = views
    /\ expanded' = [q \in DOMAIN expanded \ {p} |-> expanded[q]]

\* remove_provider_configuration_view: drop the view and the expanded flag.
RemoveProviderConfigurationView(p) ==
    /\ views' = views \ {p}
    /\ expanded' = [q \in DOMAIN expanded \ {p} |-> expanded[q]]

\* The subscription handles the oldest event: AddedProvider looks the
\* provider up in the registry and adds a view only if it is still there;
\* RemovedProvider removes the view.
HandleEvent ==
    /\ events # << >>
    /\ LET e == Head(events) IN
          IF e.kind = "added"
          THEN /\ IF e.provider \in registry
                  THEN AddProviderConfigurationView(e.provider)
                  ELSE UNCHANGED views
               /\ UNCHANGED expanded
          ELSE RemoveProviderConfigurationView(e.provider)
    /\ events' = Tail(events)
    /\ UNCHANGED <<registry, open, shown>>

\* render_provider_configuration_section, run whenever the panel is
\* notified by any of its other handlers: one block per provider the
\* registry lists now.
Render ==
    /\ open
    /\ shown' = registry
    /\ UNCHANGED <<registry, events, open, views, expanded>>

\* The disclosure of a provider block of the rendered frame:
\* entry(..).or_insert(false) then negate.
ToggleProvider(p) ==
    /\ open
    /\ p \in shown
    /\ expanded' = [q \in DOMAIN expanded \cup {p} |->
                       IF q = p THEN ~(p \in DOMAIN expanded /\ expanded[p])
                       ELSE expanded[q]]
    /\ UNCHANGED <<registry, events, open, views, shown>>

\* The panel is closed; its subscription goes with it.
Close ==
    /\ open
    /\ open' = FALSE
    /\ events' = << >>
    /\ views' = {}
    /\ expanded' = << >>
    /\ shown' = {}
    /\ UNCHANGED registry

Next ==
    \/ RegistryChange \/ New \/ HandleEvent \/ Render \/ Close
    \/ \E p \in Providers : ToggleProvider(p)

Spec == Init /\ [][Next]_vars

(***************************************************************************)
(* Properties                                                              *)
(***************************************************************************)

\* Once every registry event has been delivered, the panel has a
\* configuration view for exactly the providers the registry lists, so no
\* block renders "No configuration view for ...": an AddedProvider handled
\* after its provider was removed again adds nothing, and one handled
\* after a removal and re-add still adds the view.  Adds and removals
\* interleave with delivery and with clicks on stale frames in any order.
ViewsMirrorRegistry ==
    open /\ events = << >> => views = registry

=============================================================================
