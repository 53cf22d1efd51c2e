------------------------- MODULE MC_ContextServers -------------------------
(* Three servers: s1 from extension e1, which provides only it; s2 from   *)
(* extension e2, which also provides other things; s3 a custom server.    *)
EXTENDS ContextServers, TLC

CONSTANTS s1, s2, s3, e1, e2

MCProvider == (s1 :> e1) @@ (s2 :> e2) @@ (s3 :> NoExtension)

MCOnlyServer == {e1}

MCServersWithTools == {s1}
=============================================================================
