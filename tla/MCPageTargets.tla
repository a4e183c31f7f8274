----------------------------- MODULE MCPageTargets -----------------------------
(* PageTargets with three plans: two attempts one after the other on one      *)
(* engine, the first of which nobody cleans up behind; a node probe and a     *)
(* framework driver on one engine; two lanes that try one task at a time.     *)
EXTENDS PageTargets, TLC

Job(task, attempt, kind) ==
    [task |-> task, engine |-> "moli", attempt |-> attempt, kind |-> kind]
Plan(a, b, most) == [work |-> "a" :> a @@ "b" :> b, pages |-> "a" :> most @@ "b" :> 0]

MCPlans ==
    {Plan(<<Job("u", 1, "raw_cdp"), Job("t", 1, "agent_browser")>>, <<>>, 2),
     Plan(<<Job("u", 1, "probe"), Job("t", 1, "framework")>>, <<>>, 2),
     Plan(<<Job("t", 1, "agent_browser")>>, <<Job("t", 2, "agent_browser")>>, 1)}
=============================================================================
