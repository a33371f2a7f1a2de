------------------------------ MODULE SpamFilter ------------------------------
(***************************************************************************)
(* The list of spam words, the page an administrator edits it on, the      *)
(* verdict ValidateSpam gives on a text, and the shouts of the visitors,   *)
(* which are stored when neither their author nor their text is spam.      *)
(*                                                                         *)
(* Texts and entries are sequences of characters, since an entry is found  *)
(* in a text wherever it is a part of it, also inside a token or across    *)
(* several; the tokens of a text are what split(" ") makes of it.  The     *)
(* list has one row; its words keep the order they were stored in.         *)
(***************************************************************************)
EXTENDS Integers, FiniteSets, SequencesExt

CONSTANTS
  Char,        \* the characters
  Space,       \* the one that separates tokens
  Plain,       \* those that mean themselves in a regular expression: letters
               \* and the space, but no full stop or bracket
  Pieces(_, _),  \* external: the pieces split makes of a text, less one, for an
               \* entry that is not plain; -1 if all pieces are empty
  Broken,      \* the entries that are no regular expression, e.g. (
  Fixed,       \* the entries the list is populated with, eleven in the code
  Typed,       \* what an administrator may type: sequences of entries, some
               \* of them blank (the empty entry)
  Text,        \* the texts of the shouts, in lower case and not blank
  Threshold,   \* the thresholds a form may carry, in per cent
  InitialThreshold,
  Tab,         \* the tabs of the administrators
  NoPage,      \* no page is open
  MaxVersion,  \* bound on the version counter
  MaxShouts    \* bound on the number of shouts

\* An entry is not blank and has no spaces around it: the update trims it.
Entry == {s \in Seq(Char) \ {<<>>} : s[1] # Space /\ s[Len(s)] # Space}

ASSUME FilterAssumption ==
  /\ Fixed \in Seq(Entry)
  /\ Typed \subseteq Seq(Entry \cup {<<>>})
  /\ Text \subseteq Seq(Char)
  /\ Threshold \subseteq 1 .. 100 /\ InitialThreshold \in Threshold
  /\ MaxVersion \in Nat

\* What the populated list gives: no fixed entry is listed twice, and they
\* consist of letters and spaces.
ASSUME WordsAssumption ==
  /\ \A i, j \in DOMAIN Fixed : Fixed[i] = Fixed[j] => i = j
  /\ \A i \in DOMAIN Fixed : Range(Fixed[i]) \subseteq Plain

VARIABLES
  words,      \* Spam.words
  threshold,  \* Spam.threshold
  version,    \* Spam.version
  page,       \* the page open at each tab
  shouts      \* the texts in table Shout

vars == <<words, threshold, version, page, shouts>>

Page == [words : Seq(Entry), threshold : Threshold, version : 0 .. MaxVersion]

TypeOK ==
  /\ words \in Seq(Entry)
  /\ threshold \in Threshold
  /\ version \in 0 .. MaxVersion
  /\ page \in [Tab -> Page \cup {NoPage}]
  /\ shouts \subseteq Text

Init ==
  /\ words = Fixed
  /\ threshold = InitialThreshold
  /\ version = 0
  /\ page = [t \in Tab |-> NoPage]
  /\ shouts = {}

-----------------------------------------------------------------------------
(***************************************************************************)
(* The verdict.                                                            *)
(***************************************************************************)

\* Whether an entry is the part of a text that begins at its i-th character.
OccursAt(text, entry, i) ==
  /\ i + Len(entry) - 1 =< Len(text)
  /\ SubSeq(text, i, i + Len(entry) - 1) = entry

Has(text, entry) == \E i \in DOMAIN text : OccursAt(text, entry, i)

\* How often an entry is found from each character on: from the left, without
\* overlaps.
OccurrencesFrom(text, entry) ==
  LET from[i \in 1 .. Len(text) + Len(entry)] ==
        IF i > Len(text) THEN 0
        ELSE IF OccursAt(text, entry, i) THEN 1 + from[i + Len(entry)]
        ELSE from[i + 1]
  IN  from

\* A plain entry matches itself and nothing else.
IsPlain(entry) == Range(entry) \subseteq Plain

\* How often split finds an entry.  The space that is put behind the text is
\* never part of a match, so that a plain entry leaves one piece more than it
\* matches.
Occurrences(text, entry) ==
  IF IsPlain(entry) THEN OccurrencesFrom(text, entry)[1] ELSE Pieces(text, entry)

\* The spaces that separate one token from the next: split drops the empty
\* pieces at the end.
Spaces(s) == {i \in DOMAIN s : s[i] = Space /\ \E j \in i + 1 .. Len(s) : s[j] # Space}

\* The number of its tokens.
Tokens(s) == Cardinality(Spaces(s)) + 1

Found(list, text) == {i \in DOMAIN list : Has(text, list[i])}

\* Mutant: the pieces that split returns, not the entries between them.
MutTextCounter(list, text) ==
  LET found == Found(list, text)
  IN  IF found = {} THEN 0 ELSE Occurrences(text, list[Max(found)]) + 1

\* Each entry that is found overwrites the count of the one before.
TextCounter(list, text) ==
  LET found == Found(list, text)
  IN  IF found = {} THEN 0 ELSE Occurrences(text, list[Max(found)])

\* The spaces inside the entries of a list that are numbered.
SpacesOf(list, numbers) == UNION {{i} \X Spaces(list[i]) : i \in numbers}

\* Those of the compound entries that are found.
TextCounterCompous(list, text) == Cardinality(SpacesOf(list, Found(list, text)))

\* Mutant: the threshold has to be exceeded.
MutValidateSpam(list, limit, text) ==
  LET counter == TextCounter(list, text)
      divisor == Tokens(text) - TextCounterCompous(list, text)
  IN  \/ divisor > 0 /\ counter * 100 > limit * divisor
      \/ divisor = 0 /\ counter > 0
      \/ divisor < 0 /\ counter * 100 < limit * divisor

\* A quotient of doubles: over zero it is infinite, with the sign of the count,
\* or not a number if the count is zero, too.
ValidateSpam(list, limit, text) ==
  LET counter == TextCounter(list, text)
      divisor == Tokens(text) - TextCounterCompous(list, text)
  IN  \/ divisor > 0 /\ counter * 100 >= limit * divisor
      \/ divisor = 0 /\ counter > 0
      \/ divisor < 0 /\ counter * 100 =< limit * divisor

\* split throws when an entry that the text contains is no regular expression.
Throws(list, text) ==
  \E i \in Found(list, text) : list[i] \in Broken

-----------------------------------------------------------------------------
(***************************************************************************)
(* The page of the list.                                                   *)
(***************************************************************************)

\* Mutant: the first word after the fixed ones is not shown.
MutShown(list) == SubSeq(list, Len(Fixed) + 2, Len(list))

\* The words that can be edited: those behind the first eleven.
Shown(list) == SubSeq(list, Len(Fixed) + 1, Len(list))

Show(t) ==
  /\ page' = [page EXCEPT ![t] =
       [words |-> Shown(words), threshold |-> threshold, version |-> version]]
  /\ UNCHANGED <<words, threshold, version, shouts>>

\* Mutant: subList(1, 11).
MutKept(list) == SubSeq(list, 2, Len(Fixed))

\* The first eleven words are the fixed ones.
Kept(list) == SubSeq(list, 1, Len(Fixed))

\* Mutant: blanks are added, too.
MutAdded(list, typed) ==
  {i \in DOMAIN typed :
     /\ typed[i] \notin ToSet(Kept(list))
     /\ \A j \in 1 .. i - 1 : typed[j] # typed[i]}

\* The typed entries that are added: neither blank nor there already.
Added(list, typed) ==
  {i \in DOMAIN typed :
     /\ typed[i] # <<>>
     /\ typed[i] \notin ToSet(Kept(list))
     /\ \A j \in 1 .. i - 1 : typed[j] # typed[i]}

\* The place of the k-th of them.
NthAdded(list, typed, k) ==
  CHOOSE i \in Added(list, typed) :
    Cardinality({j \in Added(list, typed) : j =< i}) = k

\* The list that is saved: the added entries follow in the order they were typed.
Edited(list, typed) ==
  Kept(list) \o
    [k \in 1 .. Cardinality(Added(list, typed)) |-> typed[NthAdded(list, typed, k)]]

\* Mutant: the hidden version is not bound.
MutUpdate(t, typed, limit) ==
  /\ page[t] # NoPage
  /\ version < MaxVersion
  /\ words' = Edited(words, typed)
  /\ threshold' = limit
  /\ version' = version + 1
  /\ UNCHANGED <<page, shouts>>

\* The collection is replaced by a new one even when it has the same words, so
\* that every update counts.  The page stays as it is in the tab's history.
Update(t, typed, limit) ==
  /\ page[t] # NoPage
  /\ page[t].version = version
  /\ version < MaxVersion
  /\ words' = Edited(words, typed)
  /\ threshold' = limit
  /\ version' = version + 1
  /\ UNCHANGED <<page, shouts>>

\* Its author goes through the same filter as its text.
Shout(text) ==
  /\ ~Throws(words, text)
  /\ ~ValidateSpam(words, threshold, text)
  /\ Cardinality(shouts) < MaxShouts
  /\ shouts' = shouts \cup {text}
  /\ UNCHANGED <<words, threshold, version, page>>

Post(t) ==
  \E limit \in Threshold :
    \E typed \in Typed \cup (IF page[t] = NoPage THEN {} ELSE {page[t].words}) :
      Update(t, typed, limit)

Next ==
  \/ \E t \in Tab : Show(t) \/ Post(t)
  \/ \E text \in Text : Shout(text)

Spec == Init /\ [][Next]_vars

-----------------------------------------------------------------------------
(***************************************************************************)
(* Properties.                                                             *)
(***************************************************************************)

\* The words the list is populated with stay in it, at its beginning, although
\* nothing but their position tells them from the others and every update
\* writes the whole list anew.
FixedWordsSurvive ==
  Len(Fixed) =< Len(words) /\ SubSeq(words, 1, Len(Fixed)) = Fixed

\* A page that is posted as it was shown leaves the list as it was: no word is
\* lost, doubled or moved on its way through the page.
PagesRoundTrip == Edited(words, Shown(words)) = words

\* Whatever words administrators add and whatever the threshold, a shout that is
\* a fixed entry passes only because other entries found in it have two spaces
\* or more between them: all of these are discounted, the divisor becomes
\* negative, and the quotient with it.
FixedWordsPassOnlyInOverlaps ==
  [][\A i \in DOMAIN Fixed : Fixed[i] \in shouts' \ shouts =>
       Cardinality(SpacesOf(words, Found(words, Fixed[i]) \ {i})) >= 2]_vars

\* A text in which only plain entries without spaces are found is called spam
\* only when the places where one of them begins, as a share of its tokens,
\* reach the threshold.  (The words on the list are no such share: several
\* may be found in one token.)
NoFalsePositives ==
  \A text \in Text :
    LET found == Found(words, text)
        places == {k \in DOMAIN text : \E i \in found : OccursAt(text, words[i], k)}
    IN  (\A i \in found : IsPlain(words[i]) /\ Spaces(words[i]) = {})
          /\ ValidateSpam(words, threshold, text)
          => Cardinality(places) * 100 >= threshold * Tokens(text)

\* An update replaces only the list and the threshold that its page showed.
UpdatesReplaceWhatWasShown ==
  [][version' # version =>
       \E t \in Tab : page[t] # NoPage /\ page[t].version = version
                      /\ page[t].words = Shown(words)
                      /\ page[t].threshold = threshold]_vars

\* A page of the current version shows the list as it is.
PagesAreTrue ==
  \A t \in Tab : page[t] # NoPage =>
    /\ page[t].version =< version
    /\ page[t].version = version =>
         page[t].words = Shown(words) /\ page[t].threshold = threshold

\* No word behind the fixed ones is the same as one before it.
NothingTwice ==
  \A i \in DOMAIN words : i > Len(Fixed) =>
    \A j \in 1 .. i - 1 : words[j] # words[i]

\* A fixed entry without a space is never shouted: none that is found in it has
\* a space to discount.
SingleWordsNotShouted ==
  \A i \in DOMAIN Fixed : Spaces(Fixed[i]) = {} => Fixed[i] \notin shouts

\* The inductive invariant behind the properties.
IInv ==
  /\ TypeOK
  /\ FixedWordsSurvive
  /\ NothingTwice
  /\ PagesAreTrue
  /\ SingleWordsNotShouted
===============================================================================
