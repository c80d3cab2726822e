----------------------------- MODULE CameraLane -----------------------------
(***************************************************************************)
(* Camera.py: the point between the lane lines that the vehicle steers for *)
(* while GPS is jammed.  A line found in an image is fitted and kept among *)
(* the last fits of its side; the mean of each side counts, whatever the   *)
(* image at hand shows of it.                                              *)
(*                                                                         *)
(* A fit is where its curve crosses the row looked at, in pixels: taking   *)
(* the mean of coefficients and then the value there is taking the mean of *)
(* the values.  Segmentation, pixel filter and polyfit only decide which   *)
(* lines are seen and where (a fit that raises is a line not seen).        *)
(***************************************************************************)
EXTENDS Integers, Sequences, FiniteSetsExt

CONSTANTS
  Width,       \* of the image
  LANE_WIDTH,  \* 320: how far apart the lines are taken to be
  HistLen,     \* 5: maxlen of the histories
  Lefts,       \* where a left line can be seen
  Rights,      \* and a right one
  None

VARIABLES
  view,                \* what an image taken now shows
  left_fit_history,
  right_fit_history,
  lane                 \* the centre last published, in half pixels, or None
vars == <<view, left_fit_history, right_fit_history, lane>>

\* mask: the model finds anything at all; if it does, either line may still be missing.
Views == [mask : {TRUE}, left : Lefts \union {None}, right : Rights \union {None}]
         \union {[mask |-> FALSE, left |-> None, right |-> None]}

Init ==
  /\ view \in Views
  /\ left_fit_history = << >> /\ right_fit_history = << >>
  /\ lane = None

----------------------------------------------------------------------------
\* int() of a quotient.
Trunc(a, b) == IF a >= 0 THEN a \div b ELSE -((-a) \div b)

Sum(h) ==
  LET s[i \in 0 .. Len(h)] == IF i = 0 THEN 0 ELSE s[i - 1] + h[i]
  IN  s[Len(h)]

\* Mutant: what is full takes nothing more.
RememberFirst(h, fit) == IF fit = None \/ Len(h) = HistLen THEN h ELSE Append(h, fit)
\* Mutant: the deque holds the latest fit only.
RememberLast(h, fit) == IF fit = None THEN h ELSE [i \in 1 .. HistLen |-> fit]

\* fit_lane_curve: append to a deque of bounded length.
Remember(h, fit) ==
  IF fit = None THEN h
  ELSE IF Len(h) < HistLen THEN Append(h, fit) ELSE Append(Tail(h), fit)

\* target_left_x, target_right_x
Target(h) == IF h = << >> THEN None ELSE Trunc(Sum(h), Len(h))

\* Twice center_x; -2 stands for its initial -1, and a centre that comes out as -1.
Centre(l, r) ==
  IF l # None /\ r # None THEN l + r
  ELSE IF l # None THEN 2 * l + LANE_WIDTH
  ELSE IF r # None THEN 2 * r - LANE_WIDTH
  ELSE -2

Clip(c) == IF c < 0 THEN 0 ELSE IF c > 2 * (Width - 1) THEN 2 * (Width - 1) ELSE c

\* Of an image without a mask nothing is kept and nothing is published.
ImageCallback ==
  /\ view.mask
  /\ left_fit_history' = Remember(left_fit_history, view.left)
  /\ right_fit_history' = Remember(right_fit_history, view.right)
  /\ LET c == Centre(Target(left_fit_history'), Target(right_fit_history'))
     IN  lane' = IF c = -2 THEN lane ELSE Clip(c)
  /\ UNCHANGED view

\* The vehicle goes on, lines come and go.
Look ==
  /\ view' \in Views
  /\ UNCHANGED <<left_fit_history, right_fit_history, lane>>

----------------------------------------------------------------------------
\* Lines that stay where they are are followed in the end, whatever was seen before.
Settles ==
  \A l \in Lefts, r \in Rights :
    <>[](view.left = l /\ view.right = r) => <>[](lane = Clip(l + r))

Spread(S) == Max(S) - Min(S)

\* Once the histories are full, one image moves the centre by no more than its share
\* of the distance between where lines can be seen (and a pixel of truncation): a line
\* seen in the wrong place once does not throw the steering about.
Smooth ==
  [][ /\ Len(left_fit_history) = HistLen /\ Len(right_fit_history) = HistLen
      /\ lane # None
      => \A d \in {lane' - lane, lane - lane'} :
           d * HistLen <= Spread(Lefts) + Spread(Rights) + 2 * HistLen ]_vars

----------------------------------------------------------------------------
\* Camera.py:117 takes the mean of the last five frames: a left line that is gone for
\* good is forgotten in the end, and the vehicle goes by the right one alone.  But the
\* histories keep the last five fits, and an image without a line adds none.
GoneForgotten ==
  \A r \in Rights :
    <>[](view.mask /\ view.left = None /\ view.right = r)
      => <>[](lane = Clip(2 * r - LANE_WIDTH))
=============================================================================
