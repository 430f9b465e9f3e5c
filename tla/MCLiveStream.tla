---------------------------- MODULE MCLiveStream ----------------------------
(* Small instances of LiveStream for TLC. *)
EXTENDS LiveStream

\* From the start, and as a client that already holds events 0 and 1 would ask.
FromStartOrLater == {-1, 1}
FromStart        == {-1}

=============================================================================
