-------------------------- MODULE MCDaemonSession --------------------------
EXTENDS DaemonSession
=============================================================================
