---------------------------- MODULE MCRetryLoop ----------------------------
EXTENDS RetryLoop

EveryKind == {"generated", "unsigned", "write", "read", "form", "upload"}
=============================================================================
