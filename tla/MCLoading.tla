---- MODULE MCLoading ----
EXTENDS Loading
CONSTANTS w1, s1, s2
MCPlan == <<"index", "bundles">>
====
