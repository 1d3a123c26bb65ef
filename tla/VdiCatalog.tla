----------------------------- MODULE VdiCatalog -----------------------------
(***************************************************************************)
(* What a storage repository promises its clients: a catalog of VDIs, each *)
(* showing a content.  VDIs are published with a content, a content only   *)
(* changes where its VDI is written, the content of a snapshot VDI never,  *)
(* and a VDI leaves the catalog only by being retired, alone.              *)
(***************************************************************************)
CONSTANTS Vdis, Contents
VARIABLES listed,  \* the VDIs a client may use
          snaps,   \* those of them that are snapshots
          shows    \* shows[v]: what a client reads from v

vars == <<listed, snaps, shows>>

Init == listed = {} /\ snaps = {} /\ shows = [v \in {} |-> 0]

\* VDIs become usable together, all other contents unchanged.
Publish(new) ==
    /\ new \cap listed = {}
    /\ listed' = listed \cup new
    /\ snaps' \in {snaps, snaps \cup new}
    /\ DOMAIN shows' = listed'
    /\ \A v \in new : shows'[v] \in Contents
    /\ \A v \in listed : shows'[v] = shows[v]

Retire(v) ==
    /\ listed' = listed \ {v}
    /\ snaps' = snaps \ {v}
    /\ shows' = [w \in listed' |-> shows[w]]

Write(v) ==
    /\ v \notin snaps
    /\ \E c \in Contents : shows' = [shows EXCEPT ![v] = c]
    /\ UNCHANGED <<listed, snaps>>

Next ==
    \/ \E new \in (SUBSET Vdis) \ {{}} : Publish(new)
    \/ \E v \in listed : Retire(v) \/ Write(v)

Spec == Init /\ [][Next]_vars
=============================================================================
