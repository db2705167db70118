----------------------------- MODULE MCTrieWalk -----------------------------
(* Finite instance of TrieWalk: every trie over five keys of up to three   *)
(* letters, every message of up to MaxMsg characters.                      *)
EXTENDS TrieWalk, SequencesExt

CONSTANTS a, b, dash, stop, MaxMsg

MCLetters  == {a, b}
MCOthers   == {dash}
MCStops    == {stop}
MCKeySets  == SUBSET {<<>>, <<a>>, <<b>>, <<a, b>>, <<a, b, a>>}
MCMessages == SeqOf({a, b, dash, stop}, MaxMsg) \ {<<>>}
=============================================================================
