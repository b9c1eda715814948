------------------------------- MODULE MCFeed -------------------------------
(* Instances of Feed for TLC. *)
EXTENDS Feed

\* A client that is slow to read: one message waits in the SUB socket and the
\* queue of the stream is full with two.  The second of three blocks pays.
OneOutput == {2}
=============================================================================
