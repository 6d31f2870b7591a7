---- MODULE MCConnectionWindow ----
\* Two links make the second one that waits or follows; one trouble is a socket
\* reclaimed, a link broken or a retry.
EXTENDS ConnectionWindow
====
