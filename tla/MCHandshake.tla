---------------------------- MODULE MCHandshake -----------------------------
(* An engine and a Python client: both sides of every message kind.        *)
EXTENDS Handshake
=============================================================================
