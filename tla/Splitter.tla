------------------------------- MODULE Splitter -------------------------------
\* SplitMessage of pkg/utils/message.go, which the Discord and XMPP adapters call
\* from the outbound dispatcher: one round of its loop is one step. Lengths and
\* positions are the code's, counted from the start of the rest; the numbers 50,
\* 20, 200 and 100 of the code are parameters. A character of text is its place
\* in the message, so that what a chunk holds can be told.
EXTENDS Integers, Sequences, FiniteSets, FiniteSetsExt

CONSTANTS
  MaxLen,         \* the longest message of the platform
  MinBuffer,      \* 50: least room left for a closing fence
  MinInside,      \* 20: least text for a split inside a block
  NewlineWindow,  \* 200: how far back a newline is looked for
  SpaceWindow,    \* 100: how far back a blank is looked for
  Messages,       \* the messages to split
  MaxRest         \* bound: length of the rest at which a behaviour is cut

\* The letters of a message are numbered in the order in which they appear.
ASSUME SplitAssumption ==
  /\ MaxLen \in Nat /\ MaxLen > 9 /\ MinBuffer \in Nat /\ MinBuffer > 1
  /\ MinInside \in Nat /\ NewlineWindow \in Nat /\ SpaceWindow \in Nat
  /\ \A m \in Messages :
       /\ m \in Seq(Int)
       /\ \A i \in DOMAIN m : m[i] > 1 => \E j \in 1 .. i - 1 : m[j] = m[i] - 1

VARIABLES
  rest,           \* content: what is still to be split
  chunk,          \* the message appended last
  said,           \* places of the characters in the messages so far
  size,           \* characters of text in the whole message
  parity          \* number of messages so far, modulo 2: a round is a step even
                  \* if it changes nothing else

splitVars == <<rest, chunk, said, size, parity>>
-----------------------------------------------------------------------------
Newline == 0
Space == -1
Tick == -2
Fence == <<Tick, Tick, Tick>>
-----------------------------------------------------------------------------
Cut(s, n)  == SubSeq(s, 1, n)
From(s, n) == SubSeq(s, n + 1, Len(s))
Letters(s) == {s[i] : i \in {j \in DOMAIN s : s[j] > 0}}
MaxOr(S, none) == IF S = {} THEN none ELSE Max(S)

\* TrimSpace, and TrimRight of blanks.
TrimRight(s) == Cut(s, MaxOr({i \in DOMAIN s : s[i] \notin {Newline, Space}}, 0))
TrimSpace(s) ==
  LET text == {i \in DOMAIN s : s[i] \notin {Newline, Space}}
  IN IF text = {} THEN <<>> ELSE SubSeq(s, Min(text), Max(text))

\* findLastNewline and findLastSpace of the first n characters.
FindLast(s, n, c, window) ==
  MaxOr({i \in Max({n - window, 0}) .. n - 1 : s[i + 1] = c}, -1)

IsFence(s, i) == i + 3 <= Len(s) /\ SubSeq(s, i + 1, i + 3) = Fence

\* A round of the loop over the first n characters, at the i-th: whether it is
\* in a block, where the last one opened, and where to go on: after a fence.
Toggle(b, s, n, i) ==
  IF IsFence(s, i - 1) /\ i + 2 <= n /\ b.next < i
  THEN [inCodeBlock |-> ~b.inCodeBlock, lastOpenIdx |-> IF b.inCodeBlock THEN b.lastOpenIdx ELSE i - 1, next |-> i + 2]
  ELSE b

FindLastUnclosedCodeBlock(s, n) ==
  LET scan[i \in 0 .. n] == IF i = 0 THEN [inCodeBlock |-> FALSE, lastOpenIdx |-> -1, next |-> 0]
                            ELSE Toggle(scan[i - 1], s, n, i)
      last == scan[n]
  IN IF last.inCodeBlock THEN last.lastOpenIdx ELSE -1

FindNextClosingCodeBlock(s, start) ==
  LET at == {i \in start .. Len(s) : IsFence(s, i)} IN IF at = {} THEN -1 ELSE Min(at) + 3
-----------------------------------------------------------------------------
EffectiveLimit == Max({MaxLen - Min({Max({MaxLen \div 10, MinBuffer}), MaxLen \div 2}), MaxLen \div 2})

NaturalEnd(s, n) ==
  LET nl == FindLast(s, n, Newline, NewlineWindow)
  IN IF nl > 0 THEN nl ELSE FindLast(s, n, Space, SpaceWindow)

Plain(end) == [end |-> end, header |-> <<>>]

\* A cut inside the block: the fence is closed here and its first line repeated.
Inside(end, header) == [end |-> end, header |-> header]

\* Where the block opened at position u cannot be closed within MaxLen.
SplitBlock(s, msgEnd, u) ==
  LET nl == {i \in u .. Len(s) - 1 : s[i + 1] = Newline}
      headerEnd == IF nl = {} THEN u + 3 ELSE Min(nl)
      header == TrimSpace(SubSeq(s, u + 1, headerEnd))
      better == FindLast(s, MaxLen - 5, Newline, NewlineWindow)
      before == NaturalEnd(s, u)
  IN CASE msgEnd > headerEnd + MinInside -> Inside(IF better > headerEnd THEN better ELSE MaxLen - 5, header)
       [] msgEnd <= headerEnd + MinInside /\ before > 0 -> Plain(before)
       [] msgEnd <= headerEnd + MinInside /\ before <= 0 /\ u > MinInside -> Plain(u)
       [] OTHER -> Inside(MaxLen - 5, header)

NaturalOrLimit(s) ==
  LET natural == NaturalEnd(s, EffectiveLimit) IN IF natural > 0 THEN natural ELSE EffectiveLimit

\* Mutant: a chunk is extended to the end of its block however far that is.
SplitPointAnyClose(s, msgEnd, u, closing) ==
  CASE u < 0 -> Plain(msgEnd)
    [] u >= 0 /\ closing > 0 -> Plain(closing)
    [] OTHER -> SplitBlock(s, msgEnd, u)

SplitPoint(s, msgEnd, u, closing) ==
  CASE u < 0 -> Plain(msgEnd)
    [] u >= 0 /\ closing > 0 /\ closing <= MaxLen -> Plain(closing)
    [] OTHER -> SplitBlock(s, msgEnd, u)
-----------------------------------------------------------------------------
SplitInit ==
  /\ rest \in Messages /\ size = Cardinality(Letters(rest))
  /\ chunk = <<>> /\ said = {} /\ parity = 0

Emit(c, r) ==
  /\ chunk' = c /\ rest' = r
  /\ said' = said \cup Letters(c)
  /\ parity' = 1 - parity
  /\ UNCHANGED size

\* The whole rest fits.
LastChunk == rest # <<>> /\ Len(rest) <= MaxLen /\ Emit(rest, <<>>)

\* One round of the loop.
CutChunk ==
  /\ Len(rest) > MaxLen /\ Len(rest) <= MaxRest
  /\ \E msgEnd \in {NaturalOrLimit(rest)} :
     \E p \in {SplitPoint(rest, msgEnd, FindLastUnclosedCodeBlock(rest, msgEnd),
                          FindNextClosingCodeBlock(rest, msgEnd))} :
       IF p.header = <<>>
       THEN Emit(Cut(rest, p.end), TrimSpace(From(rest, p.end)))
       ELSE Emit(TrimRight(Cut(rest, p.end)) \o <<Newline>> \o Fence,
                 TrimSpace(p.header \o <<Newline>> \o From(rest, p.end)))

SplitNext == LastChunk \/ CutChunk

SplitSpec == SplitInit /\ [][SplitNext]_splitVars /\ WF_splitVars(SplitNext)
-----------------------------------------------------------------------------
\* Every message is within the limit of the platform and holds something, and
\* no text is lost: what was sent is a prefix of the message and, with the rest,
\* all of it. (The first line of a block may be sent again.)
ChunksFit ==
  /\ Len(chunk) <= MaxLen
  /\ chunk = <<>> => said = {}
  /\ said = 1 .. Cardinality(said)
  /\ said \cup Letters(rest) = 1 .. size

\* SplitMessage returns.
SplitReturns == <>(rest = <<>>)
===============================================================================
