----------------------------- MODULE MCIosTracking -----------------------------
(* Instance of IosTracking for TLC.                                          *)
EXTENDS IosTracking

CONSTANTS u1, u2
====
