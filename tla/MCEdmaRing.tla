----------------------------- MODULE MCEdmaRing -----------------------------
(* Four slots leave three in use, so that a ring fills, wraps and empties   *)
(* with frames in every position; two contents tell two frames apart.       *)
EXTENDS EdmaRing

MCMixed == {"good", "type"}
MCAll == {"good", "type", "range"}
=============================================================================
