---------------------------- MODULE MCNegotiation ----------------------------
(* Small instances of Negotiation for TLC.  Tokens bounds the infos alive   *)
(* at one time; the other bounds are the counters of the module.            *)
EXTENDS Negotiation

\* The safety run looks at retries and at guests that come again, each with the
\* other troubles; and at both together, without.
FewKinds == retries = 0 \/ joins = 0 \/ timeouts + lost = 0
=============================================================================
