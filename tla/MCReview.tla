------------------------------ MODULE MCReview -------------------------------
EXTENDS Review, TLC

CONSTANTS d1, d2

\* A word, with every kind of issue about it.
Word == {"role1", "role2", "field", "history", "media", "sense", "cue", "fact"}
\* A page whose pattern is a region to choose, and that may repeat another note.
Page == {"role1", "segmentation", "missing", "duplicate", "claim", "fact"}
Both == (d1 :> Word) @@ (d2 :> Page)
\* Two documents, to see what a change of one does to the other.
Pair == (d1 :> {"html"}) @@ (d2 :> {"html", "fact"})

\* The file may list equally ranked decisions either way.
ByName == <<"claim", "cue", "duplicate", "fact", "field", "history", "html",
            "media", "missing", "role1", "role2", "segmentation", "sense">>
BothWays == {ByName, Reverse(ByName)}
=============================================================================
