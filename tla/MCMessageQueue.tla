--------------------------- MODULE MCMessageQueue ---------------------------
(* Instances of MessageQueue for TLC: two posting threads and a queue of two. *)
EXTENDS MessageQueue

\* The first and the last code with a handler, and one that is posted without.
UserCodes == {128, 1151}
UserPosts == {128, 130}

\* The codes of AnnexControl, MSG_CONNECT_NETWORK to MSG_CLOSE_VACUUM; what a
\* cooler's and a gauge's callback posts.
AnnexCodes == 0..4
AnnexPosts == {3, 4}
=============================================================================
