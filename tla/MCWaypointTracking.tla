------------------------- MODULE MCWaypointTracking -------------------------
(* WaypointTracking for TLC: two legs of a road side by side, driven with   *)
(* short gaps, and a road with a right angle, driven with gaps of any       *)
(* length.  The distances are the code's to about a tenth.                  *)
EXTENDS WaypointTracking

Comma(p) == [sep |-> "comma", fields |-> <<p[1], p[2], 9>>]
Space(p) == [sep |-> "space", fields |-> <<p[1], p[2], 9>>]

\* Out, round, and back three to the left.
Hairpin ==
  [i \in 1 .. 7 |-> <<i, 0>>] \o << <<8, 1>>, <<8, 2>> >> \o [i \in 1 .. 7 |-> <<8 - i, 3>>]
Corner == [i \in 1 .. 7 |-> <<i, 0>>] \o [i \in 1 .. 6 |-> <<7, i>>]

\* The first row of the course file has letters before its x.  The point it is
\* misread as, its y and z, lies beside a later part of the course, as in the file.
Misread(way) == << [sep |-> "comma", fields |-> <<Text, way[1][2], 3>>] >>
                 \o [i \in 1 .. Len(way) - 1 |-> Comma(way[i + 1])]

MCCourses ==
  [hairpin |-> [rows |-> Misread(Hairpin), road |-> Hairpin, gap |-> 3],
   corner |-> [rows |-> [i \in DOMAIN Corner |-> Space(Corner[i])], road |-> Corner,
               gap |-> Len(Corner)]]

MCLookaheads == { <<2, 3, 4, 6>>, <<3, 4, 6, 8>> }
MCDrifts == { <<0, 0>>, <<0, 1>>, <<0, -1>>, <<-1, 0>> }
=============================================================================
