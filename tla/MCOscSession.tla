---------------------------- MODULE MCOscSession ----------------------------
(* Instances of OscSession.                                                *)
EXTENDS OscSession

CONSTANTS c1, c2, MaxAlone, MaxTogether

\* The clients are alike: when both act, it is c1 that does more, which with
\* three events in all leaves one to c2.  c1 and the server do more while c2 does
\* nothing.
MCWithin(e) ==
    LET sum == e[Server] + e[c1] + e[c2]
    IN  (sum <= MaxTogether /\ e[c2] <= 1) \/ (e[c2] = 0 /\ sum <= MaxAlone)
=============================================================================
