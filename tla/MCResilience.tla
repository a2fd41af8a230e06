---------------------------- MODULE MCResilience ----------------------------
EXTENDS Resilience

\* Every option on its own.
OneOption == {<<Layers>>, <<{"breaker"}>>, <<{"bulkhead"}>>, <<{"limiter"}>>}

\* WithCircuitBreaker and WithBulkhead, in either order.
Stacked == {<<{"breaker"}, {"bulkhead"}>>, <<{"bulkhead"}, {"breaker"}>>}

OptionsGiven == OneOption \cup Stacked
=============================================================================
