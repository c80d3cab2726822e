--------------------------- MODULE MCControlLoop ---------------------------
(* ControlLoop for TLC: a course of four places that turns twice. *)
EXTENDS ControlLoop

\* The goal <<40, 20>> shares its x with the place before it and its y with the
\* start; 20 m before the goal is inside SLOW_DIST, everything earlier is not.
MCRoute == << <<0, 20>>, <<0, 0>>, <<40, 0>>, <<40, 20>> >>
=============================================================================
