-------------------------------- MODULE Lists --------------------------------
(***************************************************************************)
(* What the components do with a std::vector beyond Append and Head:       *)
(* std::remove_if, std::copy_if and the loops that do the same.            *)
(***************************************************************************)
EXTENDS Integers, Sequences, FiniteSets

Sequence == INSTANCE SequencesExt

Elems(s) == {s[k] : k \in 1 .. Len(s)}
NoRepeats(s) == Cardinality(Elems(s)) = Len(s)
LastOf(s) == s[Len(s)]
ButLast(s) == SubSeq(s, 1, Len(s) - 1)

(* The members of a set that stand in s, in their order.                   *)
Only(s, kept) ==
    LET upTo[k \in 0 .. Len(s)] ==
            IF k = 0 THEN <<>>
            ELSE IF s[k] \in kept THEN Append(upTo[k - 1], s[k]) ELSE upTo[k - 1]
    IN upTo[Len(s)]
Without(s, x) == Only(s, Elems(s) \ {x})
=============================================================================
