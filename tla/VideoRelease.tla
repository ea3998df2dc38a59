---------------------------- MODULE VideoRelease ----------------------------
(***************************************************************************)
(* What publishing promises about a video: it is announced to the video    *)
(* service before its transcoding is ordered, it is only released after    *)
(* its transcoding was ordered, and nothing it has gone through is ever    *)
(* taken back.                                                             *)
(***************************************************************************)
CONSTANT Videos

VARIABLES
    created,     \* the videos that have a row
    announced,   \* the videos that the video service knows
    ordered,     \* the videos whose transcoding was ordered
    released     \* the videos that have a date of publication

vars == <<created, announced, ordered, released>>

Init == created = {} /\ announced = {} /\ ordered = {} /\ released = {}

Create(v) ==
    /\ v \notin created
    /\ created' = created \cup {v}
    /\ UNCHANGED <<announced, ordered, released>>

Announce(v) ==
    /\ v \in created
    /\ announced' = announced \cup {v}
    /\ UNCHANGED <<created, ordered, released>>

Order(v) ==
    /\ v \in announced
    /\ ordered' = ordered \cup {v}
    /\ UNCHANGED <<created, announced, released>>

Publish(v) ==
    /\ v \in ordered
    /\ released' = released \cup {v}
    /\ UNCHANGED <<created, announced, ordered>>

Next == \E v \in Videos : Create(v) \/ Announce(v) \/ Order(v) \/ Publish(v)

Spec == Init /\ [][Next]_vars
=============================================================================
