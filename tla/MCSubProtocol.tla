--------------------------- MODULE MCSubProtocol ----------------------------
(* Finite instance of SubProtocol: two commands with arguments, one that a *)
(* read of 15 tokens takes whole, and one that is longer, so that its bulk *)
(* lengths may be cut with more than 15 tokens in the buffer.              *)
EXTENDS SubProtocol

MCChar     == {"s", "t"}
MCCommands == {<<<<"s">>, <<"t">>>>, <<<<"s">>, <<"t">>, <<"t">>>>}
=============================================================================
