--------------------------- MODULE MCCrtLifecycle ---------------------------
EXTENDS CrtLifecycle
=============================================================================
