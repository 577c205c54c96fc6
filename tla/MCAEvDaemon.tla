---------------------------- MODULE MCAEvDaemon ----------------------------
\* AEvDaemon with a connection and a message at a time.
EXTENDS AEvDaemon

CONSTANTS s1, r1

=============================================================================
