------------------------------ MODULE FileModes -------------------------------
(***************************************************************************)
(* The mode argument of open, which the remote and the local file system   *)
(* parse alike: a string of the letters r, w, o and n.                     *)
(***************************************************************************)
EXTENDS Integers, FiniteSetsExt, SequencesExt

BadMode == {"bad"}

\* No letter twice, o and n not together, and no other letter.
Legal(mode) ==
  /\ IsInjective(mode) /\ ToSet(mode) \subseteq {"r", "w", "o", "n"}
  /\ ~({"o", "n"} \subseteq ToSet(mode))

\* Reading and writing are both allowed when neither is named.
Bits(mode) == IF ToSet(mode) \cap {"r", "w"} = {} THEN ToSet(mode) \cup {"r", "w"} ELSE ToSet(mode)

Getmode(mode) == IF Legal(mode) THEN Bits(mode) ELSE BadMode
===============================================================================
