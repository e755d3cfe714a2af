---- MODULE MCAgentQueue ----
\* Instances of AgentQueue for TLC.
EXTENDS AgentQueue, TLC

Symmetric == Permutations(Worker) \cup Permutations(Upload)
====
