------------------------------ MODULE MCAutoSync -----------------------------
(* The controller on either platform.  A backend's wish is longer than the    *)
(* ceiling of the cool-down.  Behind the mobile triggers a long cycle         *)
(* stretches the minimum interval; on the desktop times end at one unit.      *)
EXTENDS MobileTriggers

VARIABLE platform

Desktop == INSTANCE AutoSync WITH Mobile <- FALSE, Long <- 1, AdaptiveMax <- 1

EitherInit ==
    \/ platform = "mobile" /\ MobileInit
    \/ platform = "desktop" /\ Desktop!Init
       /\ seen = TRUE /\ sinceTrigger = AppStateDedupe /\ firing = FALSE /\ resuming = FALSE /\ aborted = FALSE
EitherNext ==
    /\ UNCHANGED platform
    /\ \/ platform = "mobile" /\ MobileNext
       \/ platform = "desktop" /\ Desktop!DesktopNext /\ UNCHANGED triggers
EitherSpec ==
    /\ EitherInit
    /\ [][EitherNext]_<<mobileVars, platform>>
    /\ \/ platform = "mobile" /\ MobileFairness
       \/ platform = "desktop" /\ Desktop!DesktopFairness
=============================================================================
