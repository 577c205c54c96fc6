--------------------------- MODULE MCSmtpSession ---------------------------
\* SmtpSession with one or two addresses.
EXTENDS SmtpSession

CONSTANTS a1, a2

=============================================================================
