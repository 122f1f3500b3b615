--------------------------- MODULE MCServiceLifecycle ---------------------------
EXTENDS ServiceLifecycle
=============================================================================
