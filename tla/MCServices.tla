---------------------------- MODULE MCServices ----------------------------
(* Settings of the logs for TLC.                                            *)
EXTENDS Services

LogSettings == {[size |-> 2, excl |-> FALSE], [size |-> 2, excl |-> TRUE]}
=============================================================================
