------------------------ MODULE MCAgentCoordination ------------------------
\* Two rivals for the same work, and the reviewer of the first.
EXTENDS AgentCoordination

MCAgents == [cursor |-> [read |-> FALSE, write |-> TRUE, limit |-> 1],
             claude |-> [read |-> TRUE, write |-> FALSE, limit |-> 1]]
App == <<"app">>
Driver == <<"app", "driver">>
Job(key, mode, deps, needs, scope, trees, ttl, groups) ==
  [key |-> key, mode |-> mode, deps |-> deps, needs |-> needs,
   scope |-> scope, scopes |-> {scope}, trees |-> trees, ttl |-> ttl,
   groups |-> groups]
Either == {"g", "none"}
MCAsked == {{"build", "rival"}, {"build", "review"}}
MCRequests ==
  [build  |-> Job("b", "read_write", {}, FALSE, {App}, {"t"}, TRUE, Either),
   rival  |-> Job("b", "read_write", {}, FALSE, {Driver}, {"t", "u"}, FALSE,
                  Either),
   review |-> Job("r", "read_only", {"build"}, TRUE, {}, {}, FALSE, {"none"})]
=============================================================================
