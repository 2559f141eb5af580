----------------------------- MODULE MCMetainfo -----------------------------
(* Metainfo instantiated for TLC: one or two uplink sessions. *)
EXTENDS Metainfo, TLC

CONSTANTS s1, s2, p1

MCOneSession == {s1}
MCTwoSessions == {s1, s2}
MCPartners == {p1}
================================================================================
