--------------------------- MODULE MCLocalManager ---------------------------
(***************************************************************************)
(* Instances of LocalManager: two slots, two worker types, two phases.     *)
(***************************************************************************)
EXTENDS LocalManager

CONSTANTS lib, docs, app, first, second, build, test, w0, w1

\* lib and docs make up the first phase; app is the second and also needs lib.  docs
\* fits only w0, and overbooks the memory beside lib.
MCPhaseDeps == (first :> {}) @@ (second :> {first})
MCPhaseOf == (lib :> first) @@ (docs :> first) @@ (app :> second)
MCDependsOn == (lib :> {}) @@ (docs :> {}) @@ (app :> {lib})
MCTypeOf == (lib :> build) @@ (docs :> test) @@ (app :> build)
MCEstimate == (lib :> 1) @@ (docs :> 2) @@ (app :> 1)
MCBudget == (w0 :> 2) @@ (w1 :> 1)

NoFaults == [f \in Fault |-> 0]
MCPlans ==
    {[NoFaults EXCEPT !["crash"] = 1, !["error"] = 1],
     [NoFaults EXCEPT !["timeout"] = 1],
     [NoFaults EXCEPT !["error"] = 1, !["preempt"] = 1],
     [NoFaults EXCEPT !["spawn"] = 3]}

\* A task fails, and fails again when it is retried.
MCErrors == {[NoFaults EXCEPT !["error"] = 2]}
=============================================================================
