---------------------------- MODULE MCSubWriter -----------------------------
(* Finite instance of SubWriter with its record: a message of one unit and *)
(* one that never fits the reply buffer as a whole.                        *)
EXTENDS SubWriterHistory, TLC

CONSTANTS m1, m2

MCMsgs   == {m1, m2}
MCSize   == m1 :> 1 @@ m2 :> WbufLen
=============================================================================
