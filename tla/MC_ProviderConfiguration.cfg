\* Two providers, one of them the cloud provider that must accept terms;
\* up to three undelivered events, enough for a remove, re-add and remove
\* of one provider to be queued behind the panel.
CONSTANTS
    p1 = p1
    p2 = p2
    Providers = {p1, p2}
    CloudProvider = p1
    MustAcceptTerms = TRUE
    MaxEvents = 3
SPECIFICATION Spec
INVARIANT ViewsMirrorRegistry
