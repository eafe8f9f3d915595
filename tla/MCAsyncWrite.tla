---------------------------- MODULE MCAsyncWrite ----------------------------
(* Instances of AsyncWrite for TLC: a ring of three bytes, written more than *)
(* twice over in messages and transfers of every size.                       *)
EXTENDS AsyncWrite

Ordered == {"tcp", "polled"}
AnyCaller == {"serial"}
=============================================================================
