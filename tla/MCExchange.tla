----------------------------- MODULE MCExchange -----------------------------
EXTENDS Exchange

EveryKind == {"generated", "unsigned", "write", "read", "form", "upload"}
=============================================================================
