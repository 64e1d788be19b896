------------------------------ MODULE MCSplitter ------------------------------
\* Messages for TLC: lines of words, with or without a fence in front.
EXTENDS Splitter

CONSTANTS
  WordLens,  \* lengths of the words of a message
  MaxLines   \* bound: lines of a message

Lines == [fence : BOOLEAN, words : {<<a>> : a \in WordLens} \cup {<<a, b>> : a, b \in WordLens}]

Word(from, n) == [i \in 1 .. n |-> from + i]

RenderLine(l, from) ==
  (IF l.fence THEN Fence ELSE <<>>) \o Word(from, l.words[1])
    \o (IF Len(l.words) = 2 THEN <<Space>> \o Word(from + l.words[1], l.words[2]) ELSE <<>>)
    \o <<Newline>>

LettersOf(l) == l.words[1] + IF Len(l.words) = 2 THEN l.words[2] ELSE 0

Render(ls) ==
  LET r[n \in 0 .. Len(ls)] ==
        IF n = 0 THEN [text |-> <<>>, n |-> 0]
        ELSE [text |-> r[n - 1].text \o RenderLine(ls[n], r[n - 1].n), n |-> r[n - 1].n + LettersOf(ls[n])]
  IN r[Len(ls)]

MCMessages == {Render(ls).text : ls \in UNION {[1 .. n -> Lines] : n \in 1 .. MaxLines}}
===============================================================================
