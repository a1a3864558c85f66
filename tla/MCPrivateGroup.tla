------------------------- MODULE MCPrivateGroup -------------------------
(* The private group with a few peers: an owner and one or two others.    *)
EXTENDS PrivateGroup

CONSTANTS o, a, b
=========================================================================
