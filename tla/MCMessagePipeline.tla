------------------------- MODULE MCMessagePipeline -------------------------
(* Model-checking instance of MessagePipeline. *)
EXTENDS MessagePipeline, TLC

RequestSymmetry == Permutations(Requests)

\* last_read_seq values: negative, within the log, and past its end.
Marks == {-1, 1, 9}
=============================================================================
