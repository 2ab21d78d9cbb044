------------------------------- MODULE MCHmac -------------------------------
(***************************************************************************)
(* Instances of Hmac for TLC.                                              *)
(***************************************************************************)
EXTENDS Hmac

CONSTANTS MaxLen, PairLens, TripleLens

Call(w, k, lens) == [w |-> w, keyLen |-> k, lens |-> lens]

(* One message of every length, and a key of a part of a block; two of     *)
(* lengths on either side of where the padding changes, and a key that is  *)
(* hashed; three that overlap in the network, and a key of a whole block.  *)
Single == {Call(w, BlockBytes - 8, <<n>>) : w \in {4, 8}, n \in 0..MaxLen}
Pairs == {Call(4, BlockBytes + 5, <<a, b>>) : a, b \in PairLens}
Triples == {Call(8, BlockBytes, <<a, b, c>>) : a, b, c \in TripleLens}

AllCalls == Single \cup Pairs \cup Triples
=============================================================================
