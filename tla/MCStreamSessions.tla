-------------------------- MODULE MCStreamSessions --------------------------
(* Model-checking instances of StreamSessions. *)
EXTENDS StreamSessions, TLC

KeySymmetry == Permutations(Key) \union Permutations(IdemKey)
=============================================================================
