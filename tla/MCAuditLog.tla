------------------------------- MODULE MCAuditLog -------------------------------
\* Two threads that complete calls with the same output, or append a note; model values only.
EXTENDS AuditLog
===============================================================================
