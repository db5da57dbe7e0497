--------------------------- MODULE MCWindowStream ---------------------------
(* Instances of WindowStream for TLC.                                      *)
EXTENDS WindowStream

Shape(mode, c, b, total) == [mode |-> mode, commit |-> c, buffer |-> b, total |-> total]

(* Sliding windows with and without a buffer, one window over everything,  *)
(* a commit that does not divide the total; parallel windows with one of    *)
(* the first phase (3 layers), two (4 to 6) and three (7), with a last gap  *)
(* and without.  With three, the first gap is ready before the third window *)
(* is, so the stream decodes a gap between windows of the first phase.      *)
Some ==
    {Shape("sliding", c, b, 5) : c \in {1, 2}, b \in {0, 1}}
        \cup {Shape("sliding", 9, 2, 4)}
        \cup {Shape("parallel", 1, 1, t) : t \in 3 .. 7}
        \cup {Shape("parallel", 2, 1, 5)}
=============================================================================
