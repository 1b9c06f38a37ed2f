----------------------------- MODULE BackOfficeMC -----------------------------
(* The instances of the services of BackOffice for TLC.                    *)
EXTENDS BackOffice, TLC

CONSTANTS d1, d2   \* two requests at a desk

\* Rows 1 and 2 are the same string, row 3 another; in the two desks with
\* concurrent requests one row of a string is enough, and the movie desk, of
\* which a string is also typed in, serves one request at a time.
DeskRows == "amenities" :> {1} @@ "movies" :> {1, 2, 3} @@ "intl" :> {1, 3}
DeskSingles == "amenities" :> {} @@ "movies" :> {4} @@ "intl" :> {}
DeskRequests == "amenities" :> {d1, d2} @@ "movies" :> {"m"} @@ "intl" :> {d1, d2}
TwoKeys == <<"a", "b">>
DeskKeys == [s \in DOMAIN DeskRows |-> [r \in DeskRows[s] \cup DeskSingles[s] |-> IF r <= 2 THEN "a" ELSE "b"]]
RequestSymmetry == Permutations({d1, d2})

\* Two words, joined or not, each with and without a stopword, a trade mark
\* or "vip": the forms of a keyword and of a segment that the tracks tell
\* apart.  Two mappings in the order of their tiers, in the domestic engine
\* of one circuit or of none, with a format for other circuits or without.
Phrase(words, hyphen) == [words |-> words, hyphen |-> hyphen, sign |-> FALSE]
The == <<"t">>
Vip == <<"v">>
Joined == Phrase(<<<<"x", "d">>>>, FALSE)
Apart == Phrase(<<<<"x">>, <<"d">>>>, FALSE)
SomeSegments ==
  {[Joined EXCEPT !.sign = TRUE], Apart, Phrase(<<The>> \o Apart.words, FALSE),
   Phrase(<<Vip>>, FALSE), Phrase(<<The>>, FALSE)}

SomeMappings(circuits, nas) ==
  {[keyword |-> k, tier |-> t, circuit |-> c, na |-> n, format |-> IF c = "" THEN "F" ELSE "G"] :
     k \in {Joined, [Apart EXCEPT !.hyphen = TRUE]}, t \in 1 .. 2, c \in circuits, n \in nas}

ByTier(mappings) == {s \in mappings \X mappings : s[1].tier <= s[2].tier}

SomeIndexes ==
  "domestic" :> ByTier(SomeMappings({"", "c"}, {"", "N"}))
    @@ "movie" :> ByTier(SomeMappings({""}, {""}))
    @@ "intl" :> ByTier(SomeMappings({""}, {""}))
SomeStrings == {<<>>} \cup {<<s>> : s \in SomeSegments} \cup (SomeSegments \X SomeSegments)
SaysNothing == {Phrase(<<The>>, FALSE)}
SomeCircuits == "" :> "" @@ "alias" :> "c" @@ "imax" :> "imax" @@ "vip" :> "vip"

Mails == <<"email", "sns">>
===============================================================================
