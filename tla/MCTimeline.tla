------------------------------ MODULE MCTimeline ------------------------------
(* Instance for TLC of the timeline alone.                                   *)
EXTENDS TimelineProjection

TheRank == [e \in Events |-> e[1] * 10 + e[2]]

\* The tables agree at first.
TheSpec ==
    /\ TimelineInit /\ wording = [c \in TimelineClaims |-> 1] /\ rowid = [c \in TimelineClaims |-> c]
    /\ Actual = Claimed
    /\ [][TimelineNext]_timelineVars
===============================================================================
