---------------------------- MODULE MCAttribution ----------------------------
(* A small instance of Attribution: an OpenAI and an Anthropic request whose    *)
(* answers are not streamed, with the key and with one header or none.          *)
EXTENDS Attribution, TLC

CONSTANTS p, q

Two == {p, q}
Texts == {"", "default", "unknown", "acme", "globex", "bot", "cursor"}
None == {}
JustP == {p}
Headers == [r \in Two |-> [tenant |-> IF r = p THEN "acme" ELSE "", agent |-> ""]]

\* The key is created, deactivated and created again.
OneMapping == {[tenant |-> "globex", agent |-> "cursor"]}

Bodies == [r \in Two |-> <<[kind |-> "usage", name |-> "", in |-> 1, out |-> 2]>>]

=============================================================================
