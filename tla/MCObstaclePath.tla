--------------------------- MODULE MCObstaclePath ---------------------------
(* ObstaclePath for TLC, in decimetres: padding, vehicle, rows, samples and *)
(* voxels have their real proportions; a cell has 1 dm instead of half.    *)
EXTENDS ObstaclePath

At(P, x, y) == {<<p[1] + x, p[2] + y>> : p \in P}

\* Five points of a square of three voxels: every shape, ahead and somewhat to the side.
Small == {P \in SUBSET ((0 .. 2) \X (0 .. 2)) : Cardinality(P) = 5}
Singles == {<< <<At(P, 12, y)>> >> : P \in Small, y \in {-6, 4}}
Pole == {<<0, 0>>, <<1, 0>>, <<0, 1>>, <<2, 0>>, <<2, 1>>}

\* Two rows of points, not quite in line, 3.3 m long.
Fence == {<<4 * k, 0>> : k \in 0 .. 8} \union {<<1, 1>>}
Turned(P) == {<<-p[2], p[1]>> : p \in P}

MCRecordings ==
  Singles
  \union {<< <<At(Pole, x, y)>>, << >> >> : x \in {6, 16}, y \in {0, -12}}
  \union {<< <<At(Pole, 16, -5), At(Pole, 10, 12)>> >>, << <<At(Pole, 20, -18)>>, <<At(Pole, 10, 9)>> >>}
  \union {<< <<At(Fence, -10, 4)>> >>, << <<At(Turned(Fence), 16, -12)>> >>}
  \union {<< <<At(Pole, 21, 10)>> >>, << <<At(Pole, -2, -1)>> >>}

Straight == <<25, 0>>
Left == <<24, 7>>
Right == <<24, -7>>
MCCandidates ==
  {<<Straight, Straight, Straight, Straight>>, <<Left, Left, Left, Left>>,
   <<Left, Left, Straight, Straight>>, <<Right, Straight, Straight, Left>>}
MCMount == <<2, 1>>
=============================================================================
