----------------------------- MODULE PathNames -----------------------------
(***************************************************************************)
(* sanitize_segment in transform/paths.py: the name a file or a folder is  *)
(* given at the destination.  A name is a sequence of characters, of which *)
(* those that are treated alike are one: "?" is every character OneDrive   *)
(* refuses, "x" every other.  Whole words stand for one character each, so *)
(* "vti" and "CON" do for themselves.                                      *)
(***************************************************************************)
EXTENDS Integers, Sequences, FiniteSets, SequencesExt

CONSTANTS
  SegmentMax,   \* characters kept of a name (_SEGMENT_MAX)
  Reserved,     \* words that are no name, alone or before an extension
  Forbidden     \* whole names that are refused

ASSUME SegmentAssumption == SegmentMax \in Nat \ {0}

\* A name without those of its characters that repeat the one before.
Squeeze(name, c) ==
  LET keep == SelectSeq([i \in DOMAIN name |-> i],
                        LAMBDA i : i = 1 \/ name[i] # c \/ name[i - 1] # c)
  IN [i \in DOMAIN keep |-> name[keep[i]]]

\* A name from its first character that is not c to its last.
Strip(name, c) ==
  LET other == {i \in DOMAIN name : name[i] # c}
      \* The extent of what is left: both ends are in other.
      from == CHOOSE i \in other : \A j \in other : i <= j
      to == CHOOSE i \in other : \A j \in other : j <= i
  IN IF other = {} THEN <<>> ELSE SubSeq(name, from, to)

Holds(name, word) == \E i \in DOMAIN name :
  /\ i + Len(word) - 1 <= Len(name)
  /\ SubSeq(name, i, i + Len(word) - 1) = word

Vti == <<"_", "vti", "_">>

\* The sign that closes each "_vti_" becomes a hyphen, from the left, and
\* closes what it closed: it opens no other.
WithoutVti(name) ==
  LET Closes[i \in 0..Len(name)] ==
        /\ i >= 3
        /\ SubSeq(name, i - 2, i) = Vti
        /\ ~Closes[i - 2]
  IN [i \in DOMAIN name |-> IF Closes[i] THEN "-" ELSE name[i]]

\* Where the last dot of a name is; 0 if it has none.
LastDot(name) ==
  LET dots == {i \in DOMAIN name : name[i] = "."}
  IN IF dots = {} THEN 0 ELSE CHOOSE i \in dots : \A j \in dots : j <= i

Stem(name) == IF LastDot(name) = 0 THEN name ELSE SubSeq(name, 1, LastDot(name) - 1)
Ext(name) == IF LastDot(name) = 0 THEN <<>> ELSE SubSeq(name, LastDot(name) + 1, Len(name))
Joined(stem, ext) == IF ext = <<>> THEN stem ELSE stem \o <<".">> \o ext

IsReserved(name) ==
  name \in Forbidden \/ \E word \in Reserved : Stem(name) = <<word>>

\* name[:n] of Python: a negative n counts from the end.
UpTo(name, n) ==
  SubSeq(name, 1, IF n >= 0 THEN n ELSE Len(name) + n)

\* The characters and the words OneDrive refuses, replaced or left out.
\* Variant, a plausible mistake: the dots go before the spaces.
TidiedDotsFirst(name) ==
  LET legal == [i \in DOMAIN name |-> IF name[i] = "?" THEN "_" ELSE name[i]]
  IN WithoutVti(Strip(Strip(Squeeze(legal, "."), "."), " "))
Tidied(name) ==
  LET once == Squeeze(name, "?")
      legal == [i \in DOMAIN once |-> IF once[i] = "?" THEN "_" ELSE once[i]]
  IN WithoutVti(Strip(Squeeze(Strip(legal, " "), "."), "."))

\* A reserved word gets a sign, with an extension or without.
Escaped(name) ==
  IF IsReserved(name) THEN Joined(Append(Stem(name), "_"), Ext(name)) ELSE name

\* An extension survives, whatever its length.
Cut(name, ext) ==
  CASE Len(name) <= SegmentMax -> name
    [] Len(name) > SegmentMax /\ ext # <<>> ->
         UpTo(name, SegmentMax - Len(ext) - 1) \o <<".">> \o ext
    [] Len(name) > SegmentMax /\ ext = <<>> -> UpTo(name, SegmentMax)

Sanitized(name) ==
  LET tidy == IF Tidied(name) = <<>> THEN <<"_", "unnamed">> ELSE Tidied(name)
  IN Cut(Escaped(tidy), Ext(tidy))

-----------------------------------------------------------------------------
\* What OneDrive accepts as a name.
Accepted(name) ==
  /\ name # <<>>
  /\ "?" \notin ToSet(name)
  /\ ~Holds(name, Vti)
  /\ Head(name) # " " /\ Last(name) \notin {" ", "."}
  /\ ~IsReserved(name)
=============================================================================
