--------------------------------- MODULE Human ---------------------------------
(***************************************************************************)
(* cifs_decode_hsize (human.c): the argument of -s, "<int>[k|m|g|t]", as   *)
(* cifscp puts it into flow->limit, which is an int.                       *)
(*                                                                         *)
(* An argument is the number n that strtol() finds in front, the letters   *)
(* after it, and what lies in memory behind its final 0: the pointer moves *)
(* on by one also when there was no suffix.                                *)
(***************************************************************************)
EXTENDS Integers, Sequences

CONSTANTS
    Kilo,       \* 1024
    IntRange,   \* the values an int has: 2^32
    Arguments   \* the arguments of -s

VARIABLE argument   \* the argument that was decoded, if any

Nul == "NUL"

\* An argument is a number and a string; more than two bytes lie behind it.
ASSUME HumanAssumption ==
    /\ Kilo \in Nat /\ IntRange \in Nat /\ IntRange >= 2
    /\ \A x \in Arguments :
          /\ x.n \in Nat /\ x.letters \in Seq(STRING) /\ x.beyond \in Seq(STRING)
          /\ \A j \in 1..Len(x.letters) : x.letters[j] # Nul
          /\ Len(x.beyond) >= 2

\* Mutant of Factor: each case ends with a break.
FactorOnce(c) == IF c \in {"t", "T", "g", "G", "m", "M", "k", "K"} THEN Kilo ELSE 1

\* The cases of the switch fall through, each to one factor of Kilo more.
Factor(c) ==
    CASE c \in {"t", "T"} -> Kilo * Kilo * Kilo * Kilo [] c \in {"g", "G"} -> Kilo * Kilo * Kilo
      [] c \in {"m", "M"} -> Kilo * Kilo               [] c \in {"k", "K"} -> Kilo
      [] OTHER -> 1

DecodeHsize(n, letters, beyond) ==
    LET memory == letters \o <<Nul>> \o beyond
        p == IF memory[2] \in {"b", "B"} THEN 3 ELSE 2
    IN  IF memory[p] # Nul THEN -1 ELSE n * Factor(memory[1])

\* A uint64_t in an int.
AsInt(x) ==
    LET w == x % IntRange IN IF 2 * w >= IntRange THEN w - IntRange ELSE w

Limit(n, letters, beyond) == AsInt(DecodeHsize(n, letters, beyond))

HumanInit == argument = {}
DecodeArgument == argument = {} /\ \E x \in Arguments : argument' = {x}
HumanSpec == HumanInit /\ [][DecodeArgument]_argument
-------------------------------------------------------------------------------
\* A number with one of the suffixes of the usage text is decoded to its value, if a long
\* long holds it, of which the limit is what an int keeps: all of it below 2g, and of a
\* number of "t" nothing. A further "b" changes nothing, more letters are refused.
SuffixDecoded(n, letters, beyond) ==
    LET l == Limit(n, letters, beyond)
        units == << <<"k", "K">>, <<"m", "M">>, <<"g", "G">>, <<"t", "T">> >>
        value == << n * Kilo, n * (Kilo * Kilo), n * (Kilo * Kilo * Kilo),
                    n * (Kilo * Kilo * Kilo * Kilo) >>
        more == SubSeq(letters, 2, Len(letters))
        final == {<<>>, <<"b">>, <<"B">>}
    IN  /\ \A u \in 1..4 :
              letters # <<>> /\ letters[1] \in {units[u][1], units[u][2]} /\ more \in final
              /\ 2 * value[u] < IntRange * IntRange =>
                   l = AsInt(value[u]) /\ (2 * value[u] < IntRange => l = value[u])
        /\ more \notin final => l = -1

\* An argument of -s with a suffix limits the speed to what an int keeps of the value
\* (cifs_decode_hsize, cifscp.c:467). Of a number without one see LimitAsDocumented.
LimitDecoded == \A x \in argument : SuffixDecoded(x.n, x.letters, x.beyond)

\* The usage text, cifscp.c:34: "-s <int>[k|m|g|t]". A number without a suffix is a limit
\* as well, and it is that number.
LimitAsDocumented ==
    \A x \in argument :
        x.letters = <<>> /\ 2 * x.n < IntRange => Limit(x.n, x.letters, x.beyond) = x.n
===============================================================================
