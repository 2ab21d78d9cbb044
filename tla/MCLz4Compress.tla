--------------------------- MODULE MCLz4Compress ---------------------------
(***************************************************************************)
(* Instances of Lz4Compress for TLC.  A block is a parse of a text of n    *)
(* bytes; literals are numbered by position modulo the byte range, so that *)
(* any loss, duplication or reordering of literals changes the text.       *)
(***************************************************************************)
EXTENDS Lz4Compress

CONSTANTS MaxSize, MaxMatchLen, MinOffset

(* A match that fits the token, one that just does not, and the longest. *)
MatchLens == {MinMatch, MinMatch + NibbleMax, MaxMatchLen}

(* All parses of n bytes into literals and matches, with the shortest and  *)
(* the longest legal distance of each match.                               *)
RECURSIVE Parses(_)
Parses(n) ==
    IF n = 0 THEN {<< >>}
    ELSE {Append(p, Literal(n % ByteBase)) : p \in Parses(n - 1)}
         \cup UNION {{Append(p, Match(l, o)) : p \in Parses(n - l),
                                               o \in {MinOffset, n - l - 1}}
                       : l \in {m \in MatchLens : n - m - 1 >= MinOffset}}

(* The match finder passes the last bytes of a block through as literals.  *)
EndsInLiteral(p) == p = << >> \/ p[Len(p)].len = 0

BlocksOfSize(n) == {p \in Parses(n) : EndsInLiteral(p)}

(* One block of every size up to MaxSize. *)
BlockOf(recs) == [size |-> SizeOf(recs), recs |-> recs]
SingleBlocks == {<<BlockOf(b)>> : b \in UNION {BlocksOfSize(n) : n \in 0..MaxSize}}

Lits(n) == [k \in 1..n |-> Literal(k % ByteBase)]

(* A block that compresses, one that hits the literal limit in the middle, *)
(* one that ends at the limit, one that does not shrink, and an empty one. *)
Shrinks == Lits(3) \o <<Match(MaxMatchLen, 1), Match(MaxMatchLen, 2),
                        Match(MaxMatchLen, 1)>> \o Lits(1)
HitsLimit == Lits(MaxLit + 1) \o <<Match(MinMatch, 1)>> \o Lits(2)
EndsAtLimit == Lits(2) \o <<Match(MaxMatchLen, 1), Match(MaxMatchLen, 1)>> \o Lits(MaxLit)
Grows == Lits(2) \o <<Match(MinMatch, 1)>> \o Lits(1)
Kinds == {Shrinks, HitsLimit, EndsAtLimit, Grows, << >>}

(* Two calls in a row, of any kinds. *)
TwoBlocks == {<<BlockOf(a), BlockOf(b)>> : a, b \in Kinds}

AllSessions == SingleBlocks \cup TwoBlocks
=============================================================================
