---------------------------- MODULE MCAgentLoop ----------------------------
(* AgentLoop on a small instance: the demands a question makes. *)
EXTENDS AgentLoop

Demand(web, named, execution, install) ==
  [k \in Kinds |-> CASE k = "web" -> web [] k = "named" -> named
                     [] k = "execution" -> execution [] k = "install" -> install]

\* "Create an app, run task.start, then start it": the tool it names and the
\* execution it asks for; and a question that asks for two searches and an app.
MCDemands == {
  Demand({}, {"task.start"}, {"app.install", "task.start"}, {}),
  Demand({"task.start"}, {}, {}, {"app.install"})}

\* A question asked meanwhile in the same session.
MCOthers == {[turn |-> "other", kind |-> "user", n |-> 0]}
=============================================================================
