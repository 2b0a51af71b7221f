----------------------------- MODULE MCRouting -----------------------------
\* One task to send, one more of its class and one of another.
EXTENDS Routing, TLC

CONSTANTS c1, c2, t1

MCClassOf == (c1 :> "code") @@ (c2 :> "text") @@ (t1 :> "code")
=============================================================================
