--------------------------- MODULE MCSimplePubSub ---------------------------
(* Instances of SimplePubSub for TLC.                                      *)
EXTENDS SimplePubSub, TLC

(* Channels, topics and publishers are interchangeable in the safety runs. *)
Symmetric == Permutations(Topic) \cup Permutations(Chan) \cup Permutations(Publisher)
=============================================================================
