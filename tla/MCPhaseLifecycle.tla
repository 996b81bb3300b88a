-------------------------- MODULE MCPhaseLifecycle --------------------------
(***************************************************************************)
(* Three phases in a chain, the last without tasks.  b and c depend on a,  *)
(* one in the phase of a and one in the next; d is a setup task b needs.   *)
(***************************************************************************)
EXTENDS PhaseLifecycle, TLC

CONSTANTS A, B, C, a, b, c, d, s1, s2

MCPhaseDeps == (A :> {}) @@ (B :> {A}) @@ (C :> {B})
MCPhaseOf == (a :> A) @@ (b :> A) @@ (c :> B) @@ (d :> A)
MCDependsOn == (a :> {}) @@ (b :> {a, d}) @@ (c :> {a}) @@ (d :> {})
MCRetryCap == [recoverable |-> 1, oom |-> 1]

Calm ==
    [setupAt |-> [t \in SetupTask |-> s2], mayBeEmpty |-> {C}, mortal |-> {}, kinds |-> {},
     replays |-> 0, rejects |-> 0, reinjects |-> 0, failovers |-> 0]

\* A death, a repeated report and a takeover; failures are final.
Faults ==
    [Calm EXCEPT !.mortal = {s1}, !.kinds = {"final"}, !.replays = 1, !.failovers = 1]

\* Every kind of failure and the operator; nobody dies.
Retries ==
    [Calm EXCEPT !.setupAt = [t \in SetupTask |-> NoSecondary], !.kinds = Kind,
                 !.rejects = 1, !.reinjects = 1]

\* A takeover among retries; the last phase was not meant to be empty.
Takeover == [Calm EXCEPT !.mayBeEmpty = {}, !.kinds = Retryable, !.failovers = 1]

MCEnvironment == {Faults, Retries, Takeover}

\* A dead secondary's report arrives after the task failed elsewhere.
MCLateSuccess == {[Calm EXCEPT !.mortal = {s1}, !.kinds = {"recoverable"}]}
=============================================================================
