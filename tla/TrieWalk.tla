------------------------------ MODULE TrieWalk ------------------------------
(***************************************************************************)
(* One publish, from the message just read to the names it looks up in     *)
(* subscibe_table: process_pub_read_buf (protocol/pubcli.c) and the loop   *)
(* of trie_walker (common/trie_util.c), one iteration per step.            *)
(*                                                                         *)
(* A character is a letter of the trie's alphabet, another character that  *)
(* converts to UCS-4 (Others), or a byte at which the conversion stops     *)
(* (Stops: NUL, or an invalid sequence).  AlphaChar 0 is Nul.  libdatrie   *)
(* is external: a TrieState is the string walked so far, and the trie      *)
(* holds every key followed by Nul, its terminator.                        *)
(***************************************************************************)
EXTENDS Integers, Sequences

CONSTANTS
  Letters, Others, Stops,
  Nul,          \* AlphaChar 0, and the byte written after a found prefix
  KeySets,      \* contents the trie may have: sets of strings of letters
  Messages      \* what one read of a publisher may return

Chars == Letters \cup Others \cup Stops

ASSUME CharAssumption ==
  /\ Letters \cap Others = {} /\ Letters \cap Stops = {}
  /\ Others \cap Stops = {} /\ Nul \notin Chars
ASSUME KeyAssumption == KeySets \subseteq SUBSET Seq(Letters)
ASSUME MessageAssumption == Messages \subseteq Seq(Chars) \ {<<>>}

VARIABLES
  keys,      \* the keys of server.sub_trie, which a publish does not change
  msg,       \* the publisher's read_buf
  alpha,     \* the AlphaChar array, as far as the walk can look
  path,      \* the TrieState: the characters walked from the root
  cur,       \* characters of the message walked
  last,      \* length of the last prefix looked up
  prefix,    \* the copy of the message, cut after each prefix found
  found,     \* a terminal state was reached: single_chan_publish is next
  lookups,   \* history: the names looked up, in order
  done

vars == <<keys, msg, alpha, path, cur, last, prefix, found, lookups, done>>

(***************************************************************************)
(* conv_to_alpha: the characters before the first stop, then a 0; what is  *)
(* behind it in the malloced array is never written.                       *)
(***************************************************************************)
Converted(m) == {i \in DOMAIN m : \A j \in 1..i : m[j] \notin Stops}

IsAlphaOf(s, m) ==
  /\ s \in [DOMAIN m -> Letters \cup Others \cup {Nul}]
  /\ \A i \in DOMAIN m :
       /\ i \in Converted(m) => s[i] = m[i]
       /\ i \notin Converted(m) /\ (i = 1 \/ i - 1 \in Converted(m)) => s[i] = Nul

Init ==
  /\ keys \in KeySets
  /\ msg \in Messages
  /\ alpha \in [DOMAIN msg -> Letters \cup Others \cup {Nul}]
  /\ IsAlphaOf(alpha, msg)
  /\ path = <<>>
  /\ cur = 0
  /\ last = 0
  /\ prefix = Append(msg, Nul)
  /\ found = FALSE
  /\ lookups = <<>>
  /\ done = FALSE

-----------------------------------------------------------------------------
(* libdatrie.  A state behind a terminator stays there on another 0.       *)

StartsWith(s, t) == Len(t) <= Len(s) /\ SubSeq(s, 1, Len(t)) = t

Ended(p) == p # <<>> /\ p[Len(p)] = Nul

Walkable(p, ch) ==
  IF Ended(p) THEN ch = Nul
  ELSE \E k \in keys : StartsWith(Append(k, Nul), Append(p, ch))

Walk(p, ch) == IF Ended(p) THEN p ELSE Append(p, ch)

Terminal(p) == Walkable(p, Nul)

-----------------------------------------------------------------------------
(* An iteration of the loop in trie_walker that walks on. *)
CanStep == ~done /\ ~found /\ cur < Len(msg) /\ Walkable(path, alpha[cur + 1])

Step ==
  /\ CanStep
  /\ path' = Walk(path, alpha[cur + 1])
  /\ cur' = cur + 1
  /\ found' = Terminal(path')
  /\ UNCHANGED <<keys, msg, alpha, last, prefix, lookups, done>>

(* trie_walker returned the position of a terminal state: undo the last    *)
(* cut of prefix, cut it behind the position, and look the name up.        *)
LookupOnePast ==                 \* mutant: resumes one character late
  /\ found
  /\ prefix' = [prefix EXCEPT ![last + 1] = msg[last + 1], ![cur + 1] = Nul]
  /\ lookups' = Append(lookups, SubSeq(prefix', 1, cur))
  /\ last' = cur + 1
  /\ found' = FALSE
  /\ UNCHANGED <<keys, msg, alpha, path, cur, done>>

LookupKeepsCut ==                \* mutant: the last cut is not undone
  /\ found
  /\ prefix' = [prefix EXCEPT ![cur + 1] = Nul]
  /\ lookups' = Append(lookups, SubSeq(prefix', 1, cur))
  /\ last' = cur
  /\ found' = FALSE
  /\ UNCHANGED <<keys, msg, alpha, path, cur, done>>

LookupOnce ==                    \* mutant: stops at the first topic
  /\ found
  /\ prefix' = [prefix EXCEPT ![last + 1] = msg[last + 1], ![cur + 1] = Nul]
  /\ lookups' = Append(lookups, SubSeq(prefix', 1, cur))
  /\ last' = cur
  /\ found' = FALSE
  /\ done' = TRUE
  /\ UNCHANGED <<keys, msg, alpha, path, cur>>

Lookup ==
  /\ found
  /\ prefix' = [prefix EXCEPT ![last + 1] = msg[last + 1], ![cur + 1] = Nul]
  /\ lookups' = Append(lookups, SubSeq(prefix', 1, cur))
  /\ last' = cur
  /\ found' = FALSE
  /\ UNCHANGED <<keys, msg, alpha, path, cur, done>>

(* trie_walker returned -1. *)
FinishAtEnd ==                   \* mutant: a character not walkable is no end
  /\ ~done /\ ~found /\ cur = Len(msg)
  /\ done' = TRUE
  /\ UNCHANGED <<keys, msg, alpha, path, cur, last, prefix, found, lookups>>

Finish ==
  /\ ~done /\ ~found /\ ~CanStep
  /\ done' = TRUE
  /\ UNCHANGED <<keys, msg, alpha, path, cur, last, prefix, found, lookups>>

Next == Step \/ Lookup \/ Finish

Spec == Init /\ [][Next]_vars

(* A handler runs to its end. *)
FairSpec == Spec /\ WF_vars(Next)

-----------------------------------------------------------------------------
TypeOK ==
  /\ keys \in KeySets
  /\ msg \in Messages
  /\ alpha \in [DOMAIN msg -> Letters \cup Others \cup {Nul}]
  /\ path \in Seq(Letters \cup Others \cup {Nul})
  /\ cur \in 0..Len(msg)
  /\ last \in 0..cur
  /\ prefix \in Seq(Chars \cup {Nul}) /\ Len(prefix) = Len(msg) + 1
  /\ found \in BOOLEAN
  /\ lookups \in Seq(Seq(Chars))
  /\ done \in BOOLEAN

(***************************************************************************)
(* Every name looked up is a prefix of the message, each longer than the   *)
(* one before: cutting the copy and undoing the cut leaves no byte of an   *)
(* earlier round behind.                                                   *)
(***************************************************************************)
LooksUpPrefixes ==
  /\ \A i \in DOMAIN lookups : lookups[i] # <<>> /\ StartsWith(msg, lookups[i])
  /\ \A i, j \in DOMAIN lookups : i < j => Len(lookups[i]) < Len(lookups[j])

(***************************************************************************)
(* A publish looks up every nonempty key of the trie the message starts    *)
(* with, and nothing else but names that contain a byte the conversion     *)
(* stops at, which are no keys.                                            *)
(***************************************************************************)
FindsEveryTopic ==
  done =>
    /\ \A k \in keys \ {<<>>} :
         StartsWith(msg, k) => \E i \in DOMAIN lookups : lookups[i] = k
    /\ \A i \in DOMAIN lookups :
         lookups[i] \in keys \/ \E j \in DOMAIN lookups[i] : lookups[i][j] \in Stops

(* The walk ends, also past the end of what was converted. *)
PublishEnds == <>done

=============================================================================
