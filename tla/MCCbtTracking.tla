---------------------------- MODULE MCCbtTracking ----------------------------
(* Model-checking instances of CbtTracking.                                *)
EXTENDS CbtTracking

\* The whole disk, and an extent that ends inside its last block.
All  == <<0, 3>>
Part == <<1, 2>>

\* The QEMUs that run at the start, and those that track: a VM whose attach got no
\* daemon; an attached VDI with a VM, tracked on both QEMUs, or on that of the VM
\* alone; an attached VDI that no VM uses.
VmOnly  == <<{1}, {1}>>
Both    == <<{Daemon, 1}, {Daemon, 1}>>
Hidden  == <<{Daemon, 1}, {1}>>
NoVm    == <<{Daemon}, {}>>

LifeLimits ==
    [m \in {"destroys", "failures", "restarts"} |->
        CASE m = "destroys" -> [snaps |-> 2, writes |-> 2, exits |-> 0, asked |-> {All},
                                grans |-> {1}, starts |-> {Both}]
          [] m = "failures" -> [snaps |-> 2, writes |-> 1, exits |-> 0, asked |-> {All, Part},
                                grans |-> {1, 2}, starts |-> {VmOnly}]
          [] m = "restarts" -> [snaps |-> 1, writes |-> 1, exits |-> 1, asked |-> {All},
                                grans |-> {1}, starts |-> {VmOnly, Hidden, NoVm}]]

LostLimits ==
    [m \in {"restarts"} |-> [snaps |-> 1, writes |-> 1, exits |-> 1, asked |-> {All},
                              grans |-> {1, 2}, starts |-> {VmOnly, NoVm}]]
=============================================================================
