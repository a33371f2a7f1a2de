---------------------------- MODULE MCSpamFilter -----------------------------
\* Instances of SpamFilter for TLC.
EXTENDS SpamFilter, TLC

CONSTANTS s, e, h, d, c, space, dot, dollar, bracket, Capital, t1, t2

Letters == {s, e, h, d, c, Capital, space}
Chars == Letters \cup {dot, dollar, bracket}

\* As regular expressions: every character, leaving nothing but empty pieces,
\* and the end of the text, which makes one piece.
PiecesOf(text, entry) == IF entry = <<dot>> THEN -1 ELSE 0

\* Like sex, sexo and hard core.
FixedEntries == <<<<s>>, <<s, e>>, <<h, d, space, c, e>>>>

\* The parts of the compound entry that overlap.
FrontHalf == <<h, d, space, c>>
BackHalf == <<d, space, c, e>>

BrokenEntries == {<<bracket>>}

\* Blank, listed already, part of a fixed entry, never found in a text, and what
\* is no plain expression.
Entries == {<<>>, <<s>>, <<h>>, FrontHalf, <<Capital>>, <<dot>>, <<dollar>>, <<bracket>>}
TypedLists == {<<>>, <<FrontHalf, BackHalf>>, <<FrontHalf, BackHalf, <<dot>>>>}
  \cup {<<f>> : f \in Entries} \cup {<<<<h>>, f>> : f \in Entries}
  \cup {<<f, <<dot>>>> : f \in Entries}

Texts == {<<s>>, <<s, e>>, <<h, d, space, c, e>>, <<h>>, <<dot>>, <<s, dollar>>,
  <<e, bracket>>, <<s, s>>, <<s, s, space, e>>, <<s, s, space, e, space, e, space, e>>,
  <<s, space, e, space, e>>, <<space, s, e, space, space, e, space>>,
  <<s, space, h, d, space, c, e>>, <<h, d, space, c, e, dot>>,
  <<d, space, c, e, space, s>>, <<h, d, space, c, space, d, space, c, e>>}

LowAndHigh == {34, 100}
TwoTabs == {t1, t2}
Tabs == Permutations(TwoTabs)

===============================================================================
