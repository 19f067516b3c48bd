--------------------------- MODULE MCEvrtmpClient ---------------------------
(* A file for EvrtmpClient.                                                *)
EXTENDS EvrtmpClient
CONSTANTS a, b, p, q

Pic == <<[type |-> "idr", id |-> NoSet], [type |-> "slice", id |-> NoSet]>>
SPS(x) == <<[type |-> "sps", id |-> x]>>
PPS(x) == <<[type |-> "pps", id |-> x]>>

\* The one, the other and both parameter sets change, in either order.
Mixed == SPS(a) \o PPS(p) \o Pic \o SPS(b) \o PPS(p) \o Pic \o PPS(q) \o SPS(b) \o Pic
=============================================================================
