-------------------------- MODULE MCFallbackEnrich --------------------------
(* TLC instances of FallbackEnrich. *)
EXTENDS FallbackEnrich, TLC

CONSTANTS u1, u2

MCCritical == {CommandLine, Owner, ExecutablePath}
MCFetch == <<CommandLine, Owner, ExecutablePath>>
\* All is missing; only the path is, and the name is there.
MCResources == {{}, {CommandLine, Owner, ExecutableName}}

\* The command line is fetched and cached like the path: one of them is enough
\* for a run of two calls.
MCTwoCritical == {Owner, ExecutablePath}
MCTwoFetch == <<ExecutablePath, Owner>>
MCTwoResources == {{}, {Owner, ExecutableName}}
MCUidOf == (1 :> u1 @@ 2 :> u2)
=============================================================================
