----------------------------- MODULE MCAgentRun -----------------------------
(* AgentRun with two models and an Agent that says up to two things.       *)
EXTENDS AgentRun

Said(f, n, t, r) == [form |-> f, note |-> n, text |-> t, files |-> r]
MCEvents ==
    {Said("message", FALSE, TRUE, {}), Said("message", TRUE, TRUE, {"image"}),
     Said("message", FALSE, FALSE, {"image"}), Said("tool", TRUE, FALSE, {}),
     Said("delta", FALSE, TRUE, {"image"}), Said("delta", FALSE, FALSE, {}),
     Said("odd", FALSE, TRUE, {})}
=============================================================================
