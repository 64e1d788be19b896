---------------------------- MODULE AgentLoopProof ----------------------------
(***************************************************************************)
(* Proofs about the agent loop: what sanitizing a history yields, that     *)
(* every prompt a turn makes is one the provider accepts, and that every   *)
(* user message is answered.                                               *)
(***************************************************************************)
EXTENDS AgentLoop, SequenceTheorems, WellFoundedInduction, TLAPS

Messages == [role : Roles, turn : Nat, iter : Nat, n : Nat]

(* Every tool result follows, with nothing but tool results between, a     *)
(* message that carries calls.                                             *)
Orphanless(p) ==
  \A i \in 1 .. Len(p) :
    p[i].role = "tool" =>
      \E j \in 1 .. i - 1 : HasCalls(p[j]) /\ \A k \in j + 1 .. i - 1 : p[k].role = "tool"

(* The calls of message p of h, with what follows it: the results stand    *)
(* behind it in the order of the calls, and no other results do.           *)
Answers(h, p) ==
  /\ \A c \in 1 .. h[p].n :
       p + c <= Len(h) => h[p + c] = ToolResult(h[p].turn, h[p].iter, c)
  /\ \A i \in p + 1 .. Len(h) :
       (\A k \in p + 1 .. i : h[k].role = "tool") =>
         h[i].turn = h[p].turn /\ h[i].iter = h[p].iter

(* From position lo on, calls are followed by their results.  A history    *)
(* that was cut is good from 2 on: what stands first may have lost them.   *)
Good(lo, h) == \A p \in lo .. Len(h) : HasCalls(h[p]) => Answers(h, p)

(* ... and by all of them.                                                 *)
Closed(lo, h) == \A p \in lo .. Len(h) : HasCalls(h[p]) => p + h[p].n <= Len(h)

(* Nothing but tool results follows the calls of message p.                *)
Open(h, p) == HasCalls(h[p]) /\ \A q \in p + 1 .. Len(h) : h[q].role = "tool"

(* The only calls that may be open are those of m, with k results.         *)
Pends(lo, h, m, k) == \A p \in lo .. Len(h) : Open(h, p) => h[p] = m /\ Len(h) - p = k

(* m may follow h, as far as the calls of message p go.                    *)
Fits(h, p, m) ==
  /\ m.role = "tool" => m.turn = h[p].turn /\ m.iter = h[p].iter
  /\ Len(h) + 1 - p <= h[p].n => m = ToolResult(h[p].turn, h[p].iter, Len(h) + 1 - p)
-------------------------------------------------------------------------------
(* Induction over the positions of a sequence, by least counterexample.    *)

(* A set of naturals that is not empty has a least element.                *)
LEMMA LeastElement ==
  ASSUME NEW T, T \subseteq Nat, T # {}
  PROVE  \E x \in T : \A y \in T : x <= y
<1> DEFINE R == {ss \in Nat \X Nat : ss[1] < ss[2]}
<1>1. IsWellFoundedOn(R, Nat)
  BY NatLessThanWellFounded DEF OpToRel
<1> HIDE DEF R
<1>2. PICK x \in T : \A y \in T : ~(<<y, x>> \in R)
  BY <1>1, WFMin
<1>3. \A y \in T : ~(y < x)
  BY <1>2 DEF R
<1> QED
  BY <1>3

(* A set of positions that holds 0, and i whenever it holds i - 1, holds   *)
(* them all.                                                               *)
LEMMA Positions ==
  ASSUME NEW n \in Nat, NEW S, 0 \in S, \A i \in 1 .. n : i - 1 \in S => i \in S
  PROVE  0 .. n \subseteq S
<1> DEFINE T == (0 .. n) \ S
<1>1. SUFFICES ASSUME T # {} PROVE FALSE
  OBVIOUS
<1>2. PICK x \in T : \A y \in T : x <= y
  <2>1. T \subseteq Nat
    OBVIOUS
  <2> HIDE DEF T
  <2> QED
    BY <1>1, <2>1, LeastElement
<1>3. x \in 1 .. n /\ x - 1 \in 0 .. n /\ ~(x <= x - 1)
  BY <1>2
<1>4. x - 1 \in S
  BY <1>2, <1>3
<1> QED
  BY <1>2, <1>3, <1>4

-------------------------------------------------------------------------------
(* sanitizeHistoryForProvider                                              *)

(* g is what the loop has made of the first 0, 1, ... n messages of h.     *)
Sanitizes(g, h, n) ==
  g = [i \in 0..n |->
        IF i = 0 THEN <<>>
        ELSE IF Admit(g[i - 1], h[i]) THEN Append(g[i - 1], h[i])
        ELSE g[i - 1]]

(* The rounds of the loop.                                                 *)
LEMMA Rounds ==
  ASSUME NEW h, NEW n \in Nat, NEW g, Sanitizes(g, h, n)
  PROVE  /\ g[0] = <<>>
         /\ \A i \in 1 .. n :
              /\ Admit(g[i - 1], h[i]) => g[i] = Append(g[i - 1], h[i])
              /\ ~Admit(g[i - 1], h[i]) => g[i] = g[i - 1]
<1>1. \A i \in 0 .. n : g[i] = IF i = 0 THEN <<>>
                               ELSE IF Admit(g[i - 1], h[i]) THEN Append(g[i - 1], h[i])
                               ELSE g[i - 1]
  BY DEF Sanitizes
<1>2. 0 \in 0 .. n /\ \A i \in 1 .. n : i \in 0 .. n /\ i # 0
  OBVIOUS
<1> HIDE DEF Sanitizes
<1> QED
  BY <1>1, <1>2

(* The loop yields something for every history.                            *)
LEMMA SanitizeExists ==
  ASSUME NEW h, NEW n \in Nat
  PROVE  \E g : Sanitizes(g, h, n)
<1> DEFINE S == {i \in 0 .. n : \E g : Sanitizes(g, h, i)}
<1>1. 0 \in S
  <2> DEFINE g == [i \in 0 .. 0 |-> <<>>]
  <2>1. Sanitizes(g, h, 0)
    BY DEF Sanitizes
  <2> QED
    BY <2>1
<1>2. ASSUME NEW x \in 1 .. n, x - 1 \in S PROVE x \in S
  <2>1. PICK g : Sanitizes(g, h, x - 1)
    BY <1>2
  <2> DEFINE last == IF Admit(g[x - 1], h[x]) THEN Append(g[x - 1], h[x]) ELSE g[x - 1]
             f == [i \in 0 .. x |-> IF i = x THEN last ELSE g[i]]
  <2>2. x - 1 \in Nat /\ x - 1 \in 0 .. x /\ x - 1 # x /\ x # 0 /\ x \in 0 .. x
    OBVIOUS
  <2>3. f[x] = last /\ \A i \in 0 .. x : i # x => f[i] = g[i]
    BY <2>2
  <2>4. f[x - 1] = g[x - 1]
    BY <2>2, <2>3
  <2>5. ASSUME NEW i \in 0 .. x
        PROVE  f[i] = IF i = 0 THEN <<>>
                      ELSE IF Admit(f[i - 1], h[i]) THEN Append(f[i - 1], h[i]) ELSE f[i - 1]
    <3>1. CASE i = x
      BY <2>2, <2>3, <2>4, <3>1
    <3>2. CASE i # x /\ i = 0
      BY <2>1, <2>2, <2>3, <3>2, Rounds
    <3>3. CASE i # x /\ i # 0
      <4>1. i \in 1 .. x - 1 /\ i - 1 \in 0 .. x /\ i - 1 # x
        BY <3>3
      <4>2. f[i] = g[i] /\ f[i - 1] = g[i - 1]
        BY <2>3, <3>3, <4>1
      <4>3. /\ Admit(g[i - 1], h[i]) => g[i] = Append(g[i - 1], h[i])
            /\ ~Admit(g[i - 1], h[i]) => g[i] = g[i - 1]
        BY <2>1, <2>2, <4>1, Rounds
      <4> QED
        BY <3>3, <4>2, <4>3
    <3> QED
      BY <3>1, <3>2, <3>3
  <2>6. DOMAIN f = 0 .. x /\ f = [i \in 0 .. x |-> f[i]]
    OBVIOUS
  <2> HIDE DEF f
  <2>7. Sanitizes(f, h, x)
    BY <2>5, <2>6 DEF Sanitizes
  <2> QED
    BY <2>7
<1> HIDE DEF S
<1>3. 0 .. n \subseteq S
  BY <1>1, <1>2, Positions
<1> QED
  BY <1>3 DEF S

(* SanitizeHistory is what the loop has made of all messages.              *)
LEMMA SanitizeIs ==
  ASSUME NEW h, Len(h) \in Nat
  PROVE  \E g : Sanitizes(g, h, Len(h)) /\ SanitizeHistory(h) = g[Len(h)]
<1> DEFINE f == CHOOSE g : Sanitizes(g, h, Len(h))
<1>1. Sanitizes(f, h, Len(h))
  BY SanitizeExists
<1>2. SanitizeHistory(h) = f[Len(h)]
  BY Zenon DEF SanitizeHistory, Sanitizes
<1> QED
  BY <1>1, <1>2

-------------------------------------------------------------------------------
(* One more message.                                                       *)

(* What Append yields.                                                     *)
LEMMA AppendFacts ==
  ASSUME NEW o \in Seq(Messages), NEW m \in Messages
  PROVE  /\ Append(o, m) \in Seq(Messages) /\ Len(o) \in Nat /\ DOMAIN o = 1 .. Len(o)
         /\ Len(Append(o, m)) = Len(o) + 1 /\ DOMAIN Append(o, m) = 1 .. Len(o) + 1
         /\ \A k \in 1 .. Len(o) : Append(o, m)[k] = o[k]
         /\ Append(o, m)[Len(o) + 1] = m
BY AppendProperties, LenProperties

(* A message that is not a tool result, or one that follows calls, makes   *)
(* no orphan.                                                              *)
LEMMA OrphanlessAppend ==
  ASSUME NEW o \in Seq(Messages), NEW m \in Messages, Orphanless(o),
         m.role = "tool" => AfterCalls(o)
  PROVE  Orphanless(Append(o, m))
<1> DEFINE q == Append(o, m)
           L == Len(o)
<1>1. /\ q \in Seq(Messages) /\ L \in Nat /\ Len(q) = L + 1
      /\ \A k \in 1 .. L : q[k] = o[k] /\ q[L + 1] = m
  BY AppendFacts
<1>2. q[L + 1] = m
  BY AppendFacts
<1> HIDE DEF q, L
<1> SUFFICES ASSUME NEW i \in 1 .. L + 1, q[i].role = "tool"
             PROVE  \E j \in 1 .. i - 1 : HasCalls(q[j]) /\ \A k \in j + 1 .. i - 1 : q[k].role = "tool"
  BY <1>1 DEF Orphanless, q
<1>3. CASE i = L + 1
  <2>1. PICK j \in 1 .. L : HasCalls(o[j]) /\ \A k \in j + 1 .. L : o[k].role = "tool"
    BY <1>2, <1>3 DEF AfterCalls, L
  <2>2. HasCalls(q[j])
    BY <1>1, <2>1
  <2>3. \A k \in j + 1 .. L : k \in 1 .. L
    BY <1>1
  <2>4. \A k \in j + 1 .. L : q[k].role = "tool"
    BY <1>1, <2>1, <2>3
  <2>5. i - 1 = L
    BY <1>1, <1>3
  <2> QED
    BY <2>1, <2>2, <2>4, <2>5
<1>4. CASE i # L + 1
  <2>1. i \in 1 .. L
    BY <1>1, <1>4
  <2>2. PICK j \in 1 .. i - 1 : HasCalls(o[j]) /\ \A k \in j + 1 .. i - 1 : o[k].role = "tool"
    BY <1>1, <2>1 DEF Orphanless, L
  <2>3. j \in 1 .. L /\ \A k \in j + 1 .. i - 1 : k \in 1 .. L
    BY <1>1, <2>1
  <2>4. HasCalls(q[j]) /\ \A k \in j + 1 .. i - 1 : q[k].role = "tool"
    BY <1>1, <2>2, <2>3
  <2> QED
    BY <2>4
<1> QED
  BY <1>3, <1>4

(* After a message with calls, or one more result, a result may follow.    *)
LEMMA AfterCallsAppend ==
  ASSUME NEW o \in Seq(Messages), NEW m \in Messages,
         HasCalls(m) \/ (m.role = "tool" /\ AfterCalls(o))
  PROVE  AfterCalls(Append(o, m))
<1> DEFINE q == Append(o, m)
           L == Len(o)
<1>1. /\ L \in Nat /\ Len(q) = L + 1 /\ q[L + 1] = m
      /\ \A k \in 1 .. L : q[k] = o[k]
  BY AppendFacts
<1> HIDE DEF q, L
<1>2. CASE HasCalls(m)
  <2>1. HasCalls(q[L + 1]) /\ L + 1 \in 1 .. Len(q) /\ \A j \in L + 1 + 1 .. Len(q) : FALSE
    BY <1>1, <1>2
  <2> QED
    BY <2>1 DEF AfterCalls, q
<1>3. CASE m.role = "tool" /\ AfterCalls(o)
  <2>1. PICK j \in 1 .. L : HasCalls(o[j]) /\ \A k \in j + 1 .. L : o[k].role = "tool"
    BY <1>3 DEF AfterCalls, L
  <2>2. \A k \in j + 1 .. Len(q) : k = L + 1 \/ (k \in j + 1 .. L /\ k \in 1 .. L)
    BY <1>1
  <2>3. \A k \in j + 1 .. Len(q) : q[k].role = "tool"
    BY <1>1, <1>3, <2>1, <2>2
  <2>4. HasCalls(q[j]) /\ j \in 1 .. Len(q)
    BY <1>1, <2>1
  <2> QED
    BY <2>3, <2>4 DEF AfterCalls, q
<1> QED
  BY <1>2, <1>3

(* When a round keeps the message.                                         *)
LEMMA AdmitFacts ==
  ASSUME NEW o, NEW m \in Messages
  PROVE  /\ m.role = "tool" => (Admit(o, m) <=> AfterCalls(o))
         /\ HasCalls(m) => (Admit(o, m) <=> (o # <<>> /\ o[Len(o)].role \in {"user", "tool"}))
         /\ ~HasCalls(m) /\ m.role # "tool" => Admit(o, m)
<1>1. m.role \in Roles /\ m.role # "system"
  BY DEF Messages, Roles
<1>2. CASE m.role = "tool"
  <2>1. ~HasCalls(m) /\ m.role # "system"
    BY <1>2 DEF HasCalls
  <2>2. Admit(o, m) <=> AfterCalls(o)
    BY <1>2, <2>1 DEF Admit
  <2> QED
    BY <1>2, <2>1, <2>2
<1>3. CASE HasCalls(m)
  <2>1. m.role # "tool"
    BY <1>3 DEF HasCalls
  <2>2. Admit(o, m) <=> (o # <<>> /\ o[Len(o)].role \in {"user", "tool"})
    BY <1>1, <1>3, <2>1 DEF Admit
  <2> QED
    BY <1>3, <2>1, <2>2
<1>4. CASE ~HasCalls(m) /\ m.role # "tool"
  <2>1. Admit(o, m)
    BY <1>1, <1>4 DEF Admit
  <2> QED
    BY <1>4, <2>1
<1> QED
  BY <1>2, <1>3, <1>4

(* Whatever the history, the sanitized one has no orphaned tool result.    *)
LEMMA SanitizedOrphanless ==
  ASSUME NEW h \in Seq(Messages)
  PROVE  SanitizeHistory(h) \in Seq(Messages) /\ Orphanless(SanitizeHistory(h))
<1> DEFINE n == Len(h)
<1>0. n \in Nat /\ \A i \in 1 .. n : h[i] \in Messages
  BY LenProperties
<1>1. PICK g : Sanitizes(g, h, n) /\ SanitizeHistory(h) = g[n]
  BY <1>0, SanitizeIs
<1> HIDE DEF n
<1>2. /\ g[0] = <<>>
      /\ \A i \in 1 .. n : /\ Admit(g[i - 1], h[i]) => g[i] = Append(g[i - 1], h[i])
                           /\ ~Admit(g[i - 1], h[i]) => g[i] = g[i - 1]
  BY <1>0, <1>1, Rounds
<1> DEFINE S == {i \in 0 .. n : g[i] \in Seq(Messages) /\ Orphanless(g[i])}
<1>3. 0 \in S
  <2>1. <<>> \in Seq(Messages) /\ Orphanless(<<>>)
    BY DEF Orphanless
  <2>2. 0 \in 0 .. n
    BY <1>0
  <2>3. g[0] \in Seq(Messages) /\ Orphanless(g[0])
    BY <1>2, <2>1
  <2> QED
    BY <2>2, <2>3
<1>4. ASSUME NEW i \in 1 .. n, i - 1 \in S PROVE i \in S
  <2>1. CASE Admit(g[i - 1], h[i])
    <3>1. h[i].role = "tool" => AfterCalls(g[i - 1])
      BY <1>0, <2>1, AdmitFacts
    <3>2. g[i - 1] \in Seq(Messages) /\ Orphanless(g[i - 1]) /\ h[i] \in Messages
      BY <1>0, <1>4
    <3>3. g[i] = Append(g[i - 1], h[i])
      BY <1>2, <2>1
    <3>4. Append(g[i - 1], h[i]) \in Seq(Messages) /\ Orphanless(Append(g[i - 1], h[i]))
      BY <3>1, <3>2, OrphanlessAppend, AppendFacts
    <3>5. i \in 0 .. n
      BY <1>0
    <3> QED
      BY <3>3, <3>4, <3>5
  <2>2. CASE ~Admit(g[i - 1], h[i])
    <3>1. i \in 0 .. n /\ g[i] = g[i - 1]
      BY <1>0, <1>2, <2>2
    <3> QED
      BY <1>4, <3>1
  <2> QED
    BY <2>1, <2>2
<1> HIDE DEF S
<1>5. 0 .. n \subseteq S
  BY <1>0, <1>3, <1>4, Positions
<1>6. n \in 0 .. n
  BY <1>0
<1> QED
  BY <1>1, <1>5, <1>6 DEF S

-------------------------------------------------------------------------------
(* Calls and their results                                                 *)

(* What messages are made of.                                              *)
LEMMA MessageFacts ==
  ASSUME NEW a \in Nat, NEW b \in Nat, NEW c \in Nat
  PROVE  /\ User(a) \in Messages /\ Assistant(a, b, c) \in Messages /\ ToolResult(a, b, c) \in Messages
         /\ User(a).role = "user" /\ Assistant(a, b, c).role = "assistant"
         /\ ToolResult(a, b, c).role = "tool"
         /\ Assistant(a, b, c).turn = a /\ Assistant(a, b, c).iter = b /\ Assistant(a, b, c).n = c
         /\ ToolResult(a, b, c).turn = a /\ ToolResult(a, b, c).iter = b
BY DEF User, Assistant, ToolResult, Messages, Roles

(* The fields of a message.                                                *)
LEMMA FieldFacts ==
  ASSUME NEW m \in Messages
  PROVE  m.role \in Roles /\ m.turn \in Nat /\ m.iter \in Nat /\ m.n \in Nat
BY DEF Messages

(* Calls that still miss results, or have just got the last one, are open. *)
LEMMA UnansweredOpen ==
  ASSUME NEW h \in Seq(Messages), NEW p \in 1 .. Len(h), HasCalls(h[p]), Answers(h, p),
         Len(h) <= p + h[p].n
  PROVE  Open(h, p)
<1>1. Len(h) \in Nat /\ h[p] \in Messages
  BY LenProperties
<1>2. h[p].turn \in Nat /\ h[p].iter \in Nat /\ h[p].n \in Nat
  BY <1>1, FieldFacts
<1>3. ASSUME NEW q \in p + 1 .. Len(h) PROVE h[q].role = "tool"
  <2>1. q - p \in 1 .. h[p].n /\ q - p \in Nat /\ p + (q - p) = q /\ q <= Len(h)
    BY <1>1, <1>2
  <2>2. h[q] = ToolResult(h[p].turn, h[p].iter, q - p)
    BY <2>1 DEF Answers
  <2> QED
    BY <2>2 DEF ToolResult
<1> QED
  BY <1>3 DEF Open

(* A message that fits the open calls leaves a good history good.          *)
LEMMA GoodAppend ==
  ASSUME NEW lo \in Nat \ {0}, NEW h \in Seq(Messages), NEW m \in Messages, Good(lo, h),
         \A p \in lo .. Len(h) : Open(h, p) => Fits(h, p, m)
  PROVE  Good(lo, Append(h, m))
<1> DEFINE q == Append(h, m)
           L == Len(h)
<1>1. /\ L \in Nat /\ Len(q) = L + 1 /\ q[L + 1] = m /\ q \in Seq(Messages)
      /\ \A k \in 1 .. L : q[k] = h[k]
  BY AppendFacts
<1> HIDE DEF q, L
<1> SUFFICES ASSUME NEW p \in lo .. Len(q), HasCalls(q[p]) PROVE Answers(q, p)
  BY DEF Good, q
<1>2. CASE p = L + 1
  <2>1. \A c \in 1 .. q[p].n : ~(p + c <= Len(q))
    BY <1>1, <1>2
  <2>2. \A i \in p + 1 .. Len(q) : FALSE
    BY <1>1, <1>2
  <2> QED
    BY <2>1, <2>2 DEF Answers
<1>3. CASE p # L + 1
  <2>1. p \in lo .. L /\ p \in 1 .. L
    BY <1>1, <1>3
  <2>2. q[p] = h[p] /\ HasCalls(h[p])
    BY <1>1, <2>1
  <2>3. Answers(h, p)
    BY <2>1, <2>2 DEF Good, L
  <2>4. h[p] \in Messages
    BY <2>1, ElementOfSeq DEF L
  <2>5. h[p].n \in Nat
    BY <2>4, FieldFacts
  <2>6. ASSUME NEW c \in 1 .. h[p].n, p + c <= L + 1
        PROVE  q[p + c] = ToolResult(h[p].turn, h[p].iter, c)
    <3>1. CASE p + c <= L
      <4>1. p + c \in 1 .. L
        BY <1>1, <2>1, <3>1
      <4>2. h[p + c] = ToolResult(h[p].turn, h[p].iter, c)
        BY <2>3, <3>1 DEF Answers, L
      <4> QED
        BY <1>1, <4>1, <4>2
    <3>2. CASE ~(p + c <= L)
      <4>0. p \in Nat /\ c \in Nat /\ c <= h[p].n
        BY <2>1, <2>5
      <4>1. p + c = L + 1 /\ c = L + 1 - p /\ L + 1 - p <= h[p].n /\ L <= p + h[p].n
        BY <1>1, <2>5, <2>6, <3>2, <4>0
      <4>2. Open(h, p)
        BY <2>1, <2>2, <2>3, <4>1, UnansweredOpen DEF L
      <4>3. m = ToolResult(h[p].turn, h[p].iter, L + 1 - p)
        BY <2>1, <4>1, <4>2 DEF Fits, L
      <4> QED
        BY <1>1, <4>1, <4>3
    <3> QED
      BY <3>1, <3>2
  <2>7. ASSUME NEW i \in p + 1 .. L + 1, \A k \in p + 1 .. i : q[k].role = "tool"
        PROVE  q[i].turn = h[p].turn /\ q[i].iter = h[p].iter
    <3>1. CASE i <= L
      <4>1. i \in p + 1 .. L /\ i \in 1 .. L /\ \A k \in p + 1 .. i : k \in 1 .. L
        BY <1>1, <2>1, <3>1
      <4>2. \A k \in p + 1 .. i : h[k].role = "tool"
        BY <1>1, <2>7, <4>1
      <4>3. h[i].turn = h[p].turn /\ h[i].iter = h[p].iter
        BY <2>3, <4>1, <4>2 DEF Answers, L
      <4> QED
        BY <1>1, <4>1, <4>3
    <3>2. CASE ~(i <= L)
      <4>1. i = L + 1 /\ L + 1 \in p + 1 .. i /\ \A k \in p + 1 .. L : k \in p + 1 .. i /\ k \in 1 .. L
        BY <1>1, <2>1, <3>2
      <4>2. m.role = "tool" /\ q[i] = m
        BY <1>1, <2>7, <4>1
      <4>3. \A k \in p + 1 .. L : h[k].role = "tool"
        BY <1>1, <2>7, <4>1
      <4>4. Open(h, p)
        BY <2>2, <4>3 DEF Open, L
      <4> QED
        BY <2>1, <4>2, <4>4 DEF Fits, L
    <3> QED
      BY <3>1, <3>2
  <2> QED
    BY <1>1, <2>2, <2>6, <2>7 DEF Answers
<1> QED
  BY <1>2, <1>3

(* With all calls answered, anything but a tool result fits.               *)
LEMMA GoodAppendPlain ==
  ASSUME NEW lo \in Nat \ {0}, NEW h \in Seq(Messages), NEW m \in Messages,
         Good(lo, h), Closed(lo, h), m.role # "tool"
  PROVE  Good(lo, Append(h, m)) /\ (~HasCalls(m) => Closed(lo, Append(h, m)))
<1> DEFINE q == Append(h, m)
           L == Len(h)
<1>1. /\ L \in Nat /\ Len(q) = L + 1 /\ q[L + 1] = m
      /\ \A k \in 1 .. L : q[k] = h[k]
  BY AppendFacts
<1> HIDE DEF q, L
<1>2. \A p \in lo .. L : h[p] \in Messages
  BY ElementOfSeq DEF L
<1>3. \A p \in lo .. L : h[p].n \in Nat
  BY <1>2, FieldFacts
<1>4. ASSUME NEW p \in lo .. L, Open(h, p) PROVE Fits(h, p, m)
  <2>1. p + h[p].n <= L
    BY <1>4 DEF Closed, Open, L
  <2>2. ~(L + 1 - p <= h[p].n)
    BY <1>1, <1>3, <2>1
  <2> QED
    BY <2>2 DEF Fits, L
<1>5. Good(lo, q)
  BY <1>4, GoodAppend DEF q, L
<1>6. ASSUME ~HasCalls(m), NEW p \in lo .. Len(q), HasCalls(q[p]) PROVE p + q[p].n <= Len(q)
  <2>1. p # L + 1
    BY <1>1, <1>6
  <2>2. p \in lo .. L /\ p \in 1 .. L
    BY <1>1, <2>1
  <2>3. q[p] = h[p]
    BY <1>1, <2>2
  <2>4. p + h[p].n <= L
    BY <1>6, <2>2, <2>3 DEF Closed, L
  <2> QED
    BY <1>1, <1>3, <2>2, <2>3, <2>4
<1> QED
  BY <1>5, <1>6 DEF Closed, q

(* Cutting a history, or moving its end behind its first message, leaves   *)
(* it good from the second message on.                                     *)
LEMMA CutGood ==
  ASSUME NEW h \in Seq(Messages), NEW q \in Seq(Messages), NEW d \in Nat,
         NEW lo \in Nat \ {0}, Len(q) + d = Len(h), \A k \in lo .. Len(q) : q[k] = h[k + d]
  PROVE  /\ Good(lo, h) => Good(lo, q)
         /\ Closed(lo, h) => Closed(lo, q)
         /\ \A m, k : Pends(lo, h, m, k) => Pends(lo, q, m, k)
<1> DEFINE L == Len(q)
           M == Len(h)
<1>1. L \in Nat /\ M \in Nat /\ L + d = M
  BY LenProperties
<1> HIDE DEF L, M
<1>2. \A k \in lo .. L : q[k] = h[k + d] /\ k + d \in lo .. M /\ q[k] \in Messages
  <2>1. \A k \in lo .. L : k + d \in lo .. M /\ k \in 1 .. L
    BY <1>1
  <2> QED
    BY <2>1, ElementOfSeq DEF L
<1>3. \A k \in lo .. L : q[k].n \in Nat
  BY <1>2, FieldFacts
<1>4. ASSUME Good(lo, h), NEW p \in lo .. L, HasCalls(q[p]) PROVE Answers(q, p)
  <2>1. Answers(h, p + d) /\ q[p] = h[p + d]
    BY <1>2, <1>4 DEF Good, M
  <2>2. ASSUME NEW c \in 1 .. q[p].n, p + c <= L
        PROVE  q[p + c] = ToolResult(q[p].turn, q[p].iter, c)
    <3>1. p + c \in lo .. L /\ (p + d) + c = (p + c) + d /\ (p + d) + c <= M
      BY <1>1, <1>3, <2>2
    <3>2. h[(p + d) + c] = ToolResult(h[p + d].turn, h[p + d].iter, c)
      BY <2>1, <2>2, <3>1 DEF Answers, M
    <3>3. q[p + c] = h[(p + c) + d]
      BY <1>2, <3>1
    <3> QED
      BY <2>1, <3>1, <3>2, <3>3
  <2>3. ASSUME NEW i \in p + 1 .. L, \A k \in p + 1 .. i : q[k].role = "tool"
        PROVE  q[i].turn = q[p].turn /\ q[i].iter = q[p].iter
    <3>1. i + d \in (p + d) + 1 .. M /\ i \in lo .. L
      BY <1>1
    <3>2. ASSUME NEW k \in (p + d) + 1 .. i + d PROVE h[k].role = "tool"
      <4>1. k - d \in p + 1 .. i /\ k - d \in lo .. L /\ (k - d) + d = k
        BY <1>1
      <4> QED
        BY <1>2, <2>3, <4>1
    <3>3. h[i + d].turn = h[p + d].turn /\ h[i + d].iter = h[p + d].iter
      BY <2>1, <3>1, <3>2 DEF Answers, M
    <3> QED
      BY <1>2, <2>1, <3>1, <3>3
  <2> QED
    BY <2>2, <2>3 DEF Answers, L
<1>5. ASSUME Closed(lo, h), NEW p \in lo .. L, HasCalls(q[p]) PROVE p + q[p].n <= L
  <2>1. (p + d) + q[p].n <= M
    BY <1>2, <1>5 DEF Closed, M
  <2> QED
    BY <1>1, <1>3, <2>1
<1>6. ASSUME NEW m, NEW n, Pends(lo, h, m, n), NEW p \in lo .. L, Open(q, p)
      PROVE  q[p] = m /\ L - p = n
  <2>1. HasCalls(h[p + d]) /\ q[p] = h[p + d] /\ p + d \in lo .. M
    BY <1>2, <1>6 DEF Open
  <2>2. ASSUME NEW k \in (p + d) + 1 .. M PROVE h[k].role = "tool"
    <3>1. k - d \in p + 1 .. L /\ k - d \in lo .. L /\ (k - d) + d = k
      BY <1>1
    <3> QED
      BY <1>2, <1>6, <3>1 DEF Open, L
  <2>3. Open(h, p + d)
    BY <2>1, <2>2 DEF Open, M
  <2>4. h[p + d] = m /\ M - (p + d) = n
    BY <1>6, <2>1, <2>3 DEF Pends, M
  <2>5. M - (p + d) = L - p
    BY <1>1
  <2> QED
    BY <2>1, <2>4, <2>5
<1>7. Good(lo, h) => Good(lo, q)
  BY <1>4 DEF Good, L
<1>8. Closed(lo, h) => Closed(lo, q)
  BY <1>5 DEF Closed, L
<1>9. \A m, k : Pends(lo, h, m, k) => Pends(lo, q, m, k)
  BY <1>6 DEF Pends, L
<1> QED
  BY <1>7, <1>8, <1>9

-------------------------------------------------------------------------------
(* What sanitizing makes of a good history                                 *)

(* What is open in the output o after i messages of h is also the end of   *)
(* what was read: everything since those calls has been kept.              *)
Linked(o, h, i) ==
  \A p \in 1 .. Len(o) :
    Open(o, p) =>
      /\ 2 <= p + (i - Len(o))
      /\ \A k \in p .. Len(o) : o[k] = h[k + (i - Len(o))]

(* A round of the loop keeps the output good and linked to the input.      *)
LEMMA RoundGood ==
  ASSUME NEW h \in Seq(Messages), Good(2, h), NEW i \in 1 .. Len(h),
         NEW o \in Seq(Messages), Len(o) <= i - 1, Good(1, o), Linked(o, h, i - 1),
         NEW r \in Seq(Messages),
         Admit(o, h[i]) => r = Append(o, h[i]),
         ~Admit(o, h[i]) => r = o
  PROVE  Len(r) <= i /\ Good(1, r) /\ Linked(r, h, i)
<1> DEFINE L == Len(o)
           M == Len(h)
           d == i - 1 - L
           m == h[i]
<1>1. L \in Nat /\ M \in Nat /\ L <= i - 1 /\ i \in 1 .. M
  BY LenProperties
<1>2. m \in Messages
  BY ElementOfSeq
<1>3. /\ Len(Append(o, m)) = L + 1 /\ Append(o, m)[L + 1] = m
      /\ \A k \in 1 .. L : Append(o, m)[k] = o[k]
  BY <1>2, AppendFacts
<1> HIDE DEF L, M
<1>4. /\ d \in Nat /\ i = L + 1 + d /\ i - 1 = L + d
      /\ \A p \in 1 .. L : p + d \in 1 .. i - 1 /\ p + d \in 1 .. M
  BY <1>1
<1> HIDE DEF d, m
<1>5. ASSUME NEW p \in 1 .. L, Open(o, p)
      PROVE  /\ p + d \in 2 .. M /\ HasCalls(h[p + d]) /\ o[p] = h[p + d]
             /\ \A k \in p .. L : o[k] = h[k + d]
             /\ \A k \in (p + d) + 1 .. i - 1 : h[k].role = "tool"
  <2>1. 2 <= p + d /\ \A k \in p .. L : o[k] = h[k + d]
    BY <1>5 DEF Linked, L, d
  <2>2. p + d \in 2 .. M /\ p \in p .. L
    BY <1>1, <1>4, <2>1
  <2>3. o[p] = h[p + d] /\ HasCalls(o[p])
    BY <1>5, <2>1, <2>2 DEF Open
  <2>4. ASSUME NEW k \in (p + d) + 1 .. i - 1 PROVE h[k].role = "tool"
    <3>0. k \in (p + d) + 1 .. L + d
      BY <1>4
    <3>1. k - d \in p + 1 .. L /\ k - d \in p .. L /\ (k - d) + d = k
      BY <1>1, <1>4, <3>0
    <3> QED
      BY <1>5, <2>1, <3>1 DEF Open, L
  <2> QED
    BY <2>1, <2>2, <2>3, <2>4
<1>6. ASSUME NEW p \in 1 .. L, Open(o, p) PROVE Fits(o, p, m)
  <2>1. Answers(h, p + d)
    BY <1>5, <1>6 DEF Good, M
  <2>2. ASSUME m.role = "tool" PROVE m.turn = o[p].turn /\ m.iter = o[p].iter
    <3>1. i \in (p + d) + 1 .. M
      BY <1>1, <1>4
    <3>2. \A k \in (p + d) + 1 .. i : k \in (p + d) + 1 .. i - 1 \/ k = i
      BY <1>4
    <3>3. \A k \in (p + d) + 1 .. i : h[k].role = "tool"
      BY <1>5, <1>6, <2>2, <3>2 DEF m
    <3>4. h[i].turn = h[p + d].turn /\ h[i].iter = h[p + d].iter
      BY <2>1, <3>1, <3>3 DEF Answers, M
    <3> QED
      BY <1>5, <1>6, <3>4 DEF m
  <2>3. ASSUME L + 1 - p <= o[p].n PROVE m = ToolResult(o[p].turn, o[p].iter, L + 1 - p)
    <3>0. o[p] \in Messages
      BY ElementOfSeq DEF L
    <3>1. o[p].n \in Nat
      BY <3>0, FieldFacts
    <3>2. L + 1 - p \in 1 .. o[p].n /\ (p + d) + (L + 1 - p) = i /\ i <= M
      BY <1>1, <1>4, <2>3, <3>1
    <3>3. o[p] = h[p + d]
      BY <1>5, <1>6
    <3>4. h[(p + d) + (L + 1 - p)] = ToolResult(h[p + d].turn, h[p + d].iter, L + 1 - p)
      BY <2>1, <3>2, <3>3 DEF Answers, M
    <3> QED
      BY <3>2, <3>3, <3>4 DEF m
  <2> QED
    BY <2>2, <2>3 DEF Fits, L
<1>7. CASE Admit(o, m)
  <2>1. r = Append(o, m)
    BY <1>7 DEF m
  <2>2. Good(1, r)
    BY <1>2, <1>6, <2>1, GoodAppend DEF L
  <2>3. Len(r) = L + 1 /\ Len(r) <= i /\ i - Len(r) = d
    BY <1>3, <1>4, <2>1
  <2>4. ASSUME NEW p \in 1 .. L + 1, Open(r, p)
        PROVE  2 <= p + d /\ \A k \in p .. L + 1 : r[k] = h[k + d]
    <3>1. CASE p = L + 1
      <4>1. HasCalls(m)
        BY <1>3, <2>1, <2>4, <3>1 DEF Open
      <4>2. o # <<>>
        BY <1>2, <1>7, <4>1, AdmitFacts
      <4>3. L # 0
        BY <4>2, EmptySeq DEF L
      <4>4. \A k \in p .. L + 1 : k = L + 1
        BY <1>1, <3>1
      <4>5. r[L + 1] = h[L + 1 + d]
        BY <1>3, <1>4, <2>1 DEF m
      <4>6. 2 <= p + d
        BY <1>1, <1>4, <3>1, <4>3
      <4> QED
        BY <4>4, <4>5, <4>6
    <3>2. CASE p # L + 1
      <4>1. p \in 1 .. L /\ L + 1 \in p + 1 .. L + 1 /\ \A k \in p + 1 .. L : k \in p + 1 .. L + 1 /\ k \in 1 .. L
        BY <1>1, <3>2
      <4>2. \A k \in p + 1 .. L : o[k].role = "tool"
        BY <1>3, <2>1, <2>3, <2>4, <4>1 DEF Open
      <4>3. HasCalls(o[p])
        BY <1>3, <2>1, <2>4, <4>1 DEF Open
      <4>4. Open(o, p)
        BY <4>2, <4>3 DEF Open, L
      <4>5. 2 <= p + d /\ \A k \in p .. L : o[k] = h[k + d]
        BY <1>5, <4>1, <4>4
      <4>6. \A k \in p .. L + 1 : k = L + 1 \/ (k \in p .. L /\ k \in 1 .. L)
        BY <1>1, <4>1
      <4>7. r[L + 1] = h[L + 1 + d]
        BY <1>3, <1>4, <2>1 DEF m
      <4> QED
        BY <1>3, <2>1, <4>5, <4>6, <4>7
    <3> QED
      BY <3>1, <3>2
  <2>5. Linked(r, h, i)
    BY <2>3, <2>4 DEF Linked
  <2> QED
    BY <2>2, <2>3, <2>5
<1>8. CASE ~Admit(o, m)
  <2>1. r = o
    BY <1>8 DEF m
  <2>2. ASSUME NEW p \in 1 .. L, Open(o, p) PROVE FALSE
    <3>1. AfterCalls(o)
      BY <2>2 DEF AfterCalls, Open, L
    <3>2. m.role # "tool" /\ HasCalls(m)
      BY <1>2, <1>8, <3>1, AdmitFacts
    <3>3. L \in 1 .. L /\ o # <<>>
      BY <1>1, EmptySeq DEF L
    <3>4. o[L].role \notin {"user", "tool"}
      BY <1>2, <1>8, <3>2, <3>3, AdmitFacts DEF L
    <3>5. p = L
      <4>1. SUFFICES ASSUME p # L PROVE FALSE
        OBVIOUS
      <4>2. L \in p + 1 .. L
        BY <1>1, <4>1
      <4> QED
        BY <2>2, <3>4, <4>2 DEF Open, L
    <3>6. Fits(o, L, m) /\ HasCalls(o[L])
      BY <1>6, <2>2, <3>5 DEF Open
    <3>7. o[L] \in Messages
      BY <3>3, ElementOfSeq DEF L
    <3>8. o[L].n \in Nat /\ o[L].n > 0 /\ L + 1 - L = 1
      BY <1>1, <3>6, <3>7, FieldFacts DEF HasCalls
    <3>9. m = ToolResult(o[L].turn, o[L].iter, L + 1 - L)
      BY <3>6, <3>8 DEF Fits, L
    <3> QED
      BY <3>2, <3>9 DEF ToolResult
  <2>3. Linked(r, h, i)
    BY <2>1, <2>2 DEF Linked, L
  <2> QED
    BY <1>1, <2>1, <2>3 DEF L
<1> QED
  BY <1>7, <1>8 DEF m

(* A history whose calls have all their results, but for what stands first *)
(* after a cut, is sanitized to one whose calls all have.                  *)
LEMMA SanitizedGood ==
  ASSUME NEW h \in Seq(Messages), Good(2, h), Closed(2, h)
  PROVE  Good(1, SanitizeHistory(h)) /\ Closed(1, SanitizeHistory(h))
<1> DEFINE n == Len(h)
<1>0. n \in Nat /\ \A i \in 1 .. n : h[i] \in Messages
  BY LenProperties
<1>1. PICK g : Sanitizes(g, h, n) /\ SanitizeHistory(h) = g[n]
  BY <1>0, SanitizeIs
<1> HIDE DEF n
<1>2. /\ g[0] = <<>>
      /\ \A i \in 1 .. n : /\ Admit(g[i - 1], h[i]) => g[i] = Append(g[i - 1], h[i])
                           /\ ~Admit(g[i - 1], h[i]) => g[i] = g[i - 1]
  BY <1>0, <1>1, Rounds
<1> DEFINE S == {i \in 0 .. n : /\ g[i] \in Seq(Messages) /\ Len(g[i]) <= i
                                /\ Good(1, g[i]) /\ Linked(g[i], h, i)}
<1>3. 0 \in S
  <2>1. <<>> \in Seq(Messages) /\ Len(<<>>) = 0
    OBVIOUS
  <2>2. \A p \in 1 .. Len(<<>>) : FALSE
    OBVIOUS
  <2>3. Good(1, <<>>) /\ Linked(<<>>, h, 0)
    BY <2>2 DEF Good, Linked
  <2>4. 0 \in 0 .. n /\ Len(<<>>) <= 0
    BY <1>0, <2>1
  <2> QED
    BY <1>2, <2>1, <2>3, <2>4
<1>4. ASSUME NEW i \in 1 .. n, i - 1 \in S PROVE i \in S
  <2>1. /\ g[i - 1] \in Seq(Messages) /\ Len(g[i - 1]) <= i - 1
        /\ Good(1, g[i - 1]) /\ Linked(g[i - 1], h, i - 1)
    BY <1>4
  <2>2. /\ Admit(g[i - 1], h[i]) => g[i] = Append(g[i - 1], h[i])
        /\ ~Admit(g[i - 1], h[i]) => g[i] = g[i - 1]
    BY <1>2
  <2>3. g[i] \in Seq(Messages)
    BY <1>0, <2>1, <2>2, AppendFacts
  <2>4. Len(g[i]) <= i /\ Good(1, g[i]) /\ Linked(g[i], h, i)
    BY <2>1, <2>2, <2>3, RoundGood DEF n
  <2>5. i \in 0 .. n
    BY <1>0
  <2> QED
    BY <2>3, <2>4, <2>5
<1> HIDE DEF S
<1>5. 0 .. n \subseteq S
  BY <1>0, <1>3, <1>4, Positions
<1>6. n \in 0 .. n
  BY <1>0
<1> DEFINE o == g[n]
           L == Len(o)
<1>7. o \in Seq(Messages) /\ L <= n /\ Good(1, o) /\ Linked(o, h, n)
  BY <1>5, <1>6 DEF S
<1>8. L \in Nat
  BY <1>7, LenProperties
<1> HIDE DEF o, L
<1>9. ASSUME NEW p \in 1 .. L, HasCalls(o[p]) PROVE p + o[p].n <= L
  <2>1. SUFFICES ASSUME ~(p + o[p].n <= L) PROVE FALSE
    OBVIOUS
  <2>2. o[p] \in Messages
    BY <1>7, ElementOfSeq DEF L
  <2>3. o[p].n \in Nat
    BY <2>2, FieldFacts
  <2>4. L <= p + o[p].n
    BY <1>8, <2>1, <2>3
  <2>5. Answers(o, p)
    BY <1>7, <1>9 DEF Good, L
  <2>6. Open(o, p)
    BY <1>7, <1>9, <2>4, <2>5, UnansweredOpen DEF L
  <2>7. p \in p .. L
    BY <1>8
  <2>8. 2 <= p + (n - L) /\ o[p] = h[p + (n - L)]
    BY <1>7, <2>6, <2>7 DEF Linked, L
  <2>9. p + (n - L) \in 2 .. n
    BY <1>0, <1>7, <1>8, <2>8
  <2>10. (p + (n - L)) + o[p].n <= n
    BY <1>9, <2>8, <2>9 DEF Closed, n
  <2> QED
    BY <1>0, <1>8, <2>1, <2>3, <2>10
<1> QED
  BY <1>1, <1>7, <1>9 DEF Closed, o, L

(* A prompt without orphans whose calls have all their results is well     *)
(* formed.                                                                 *)
LEMMA WellFormed ==
  ASSUME NEW p \in Seq(Messages), Orphanless(p), Good(1, p), Closed(1, p)
  PROVE  WellFormedPrompt(p)
<1> DEFINE L == Len(p)
<1>1. L \in Nat /\ DOMAIN p = 1 .. L /\ \A j \in 1 .. L : p[j] \in Messages
  BY LenProperties
<1> HIDE DEF L
<1>2. \A j \in 1 .. L : p[j].n \in Nat
  BY <1>1, FieldFacts
<1>3. ResultsAnswerCalls(p)
  <2> SUFFICES ASSUME NEW i \in 1 .. L, p[i].role = "tool"
               PROVE  \E j \in 1..(i - 1) :
                        /\ HasCalls(p[j]) /\ p[j].turn = p[i].turn /\ p[j].iter = p[i].iter
                        /\ \A k \in (j + 1)..(i - 1) : p[k].role = "tool"
    BY <1>1 DEF ResultsAnswerCalls
  <2>1. PICK j \in 1 .. i - 1 : HasCalls(p[j]) /\ \A k \in j + 1 .. i - 1 : p[k].role = "tool"
    BY DEF Orphanless, L
  <2>2. j \in 1 .. L /\ i \in j + 1 .. L /\ \A k \in j + 1 .. i : k = i \/ k \in j + 1 .. i - 1
    BY <1>1
  <2>3. \A k \in j + 1 .. i : p[k].role = "tool"
    BY <2>1, <2>2
  <2>4. Answers(p, j)
    BY <2>1, <2>2 DEF Good, L
  <2>5. p[i].turn = p[j].turn /\ p[i].iter = p[j].iter
    BY <2>2, <2>3, <2>4 DEF Answers, L
  <2> QED
    BY <2>1, <2>5
<1>4. CallsAreAnswered(p)
  <2> SUFFICES ASSUME NEW j \in 1 .. L, HasCalls(p[j]), NEW c \in 1 .. p[j].n
               PROVE  j + c \in 1 .. L /\ p[j + c] = ToolResult(p[j].turn, p[j].iter, c)
    BY <1>1 DEF CallsAreAnswered
  <2>1. j + p[j].n <= L /\ Answers(p, j)
    BY DEF Closed, Good, L
  <2>2. j + c \in 1 .. L /\ j + c <= L
    BY <1>1, <1>2, <2>1
  <2> QED
    BY <2>1, <2>2 DEF Answers, L
<1> QED
  BY <1>3, <1>4 DEF WellFormedPrompt

(* sanitizeHistoryForProvider repairs every history in which only what     *)
(* stands before the second message is missing, which is what the cuts of  *)
(* forceCompression and TruncateHistory leave (context.go:479-520).        *)
THEOREM SanitizedWellFormed ==
  ASSUME NEW h \in Seq(Messages), Good(2, h), Closed(2, h)
  PROVE  WellFormedPrompt(SanitizeHistory(h))
BY SanitizedOrphanless, SanitizedGood, WellFormed

-------------------------------------------------------------------------------
(* Truncation, compression and the prompts built from a history            *)

(* q is the end of h, but for its first message.                           *)
CutOf(q, h) ==
  /\ q \in Seq(Messages)
  /\ \E d \in Nat : Len(q) + d = Len(h) /\ \A k \in 2 .. Len(q) : q[k] = h[k + d]

(* A cut of a good history is good.                                        *)
LEMMA CutOfGood ==
  ASSUME NEW h \in Seq(Messages), NEW q, CutOf(q, h)
  PROVE  /\ Good(2, h) => Good(2, q)
         /\ Closed(2, h) => Closed(2, q)
         /\ \A m, k : Pends(2, h, m, k) => Pends(2, q, m, k)
<1>1. q \in Seq(Messages)
  BY DEF CutOf
<1>2. PICK d \in Nat : Len(q) + d = Len(h) /\ \A k \in 2 .. Len(q) : q[k] = h[k + d]
  BY DEF CutOf
<1> QED
  BY <1>1, <1>2, CutGood

(* TruncateHistory cuts.                                                   *)
LEMMA KeepLastCuts ==
  ASSUME NEW h \in Seq(Messages), NEW keep \in Nat
  PROVE  CutOf(KeepLast(h, keep), h)
<1> DEFINE L == Len(h)
<1>1. L \in Nat /\ \A i \in 1 .. L : h[i] \in Messages
  BY LenProperties
<1> HIDE DEF L
<1>2. CASE L =< keep
  <2>1. KeepLast(h, keep) = h
    BY <1>2 DEF KeepLast, L
  <2>2. Len(h) + 0 = Len(h) /\ \A k \in 2 .. Len(h) : h[k] = h[k + 0]
    BY <1>1 DEF L
  <2> QED
    BY <2>1, <2>2 DEF CutOf
<1>3. CASE ~(L =< keep)
  <2> DEFINE d == L - keep
             q == SubSeq(h, d + 1, L)
  <2>0. d \in Nat /\ d + 1 \in Int /\ L \in Int /\ d <= L /\ L - (d + 1) + 1 = L - d
    BY <1>1, <1>3
  <2>1. KeepLast(h, keep) = q
    BY <1>3 DEF KeepLast, L
  <2> HIDE DEF d
  <2>2. \A i \in d + 1 .. L : h[i] \in Messages
    BY <1>1, <2>0
  <2>3. /\ q \in Seq(Messages) /\ Len(q) = (IF d + 1 <= L THEN L - (d + 1) + 1 ELSE 0)
        /\ \A i \in 1 .. L - (d + 1) + 1 : q[i] = h[d + 1 + i - 1]
    BY <2>0, <2>2, SubSeqProperties
  <2> HIDE DEF q
  <2>4. Len(q) = L - d
    BY <1>1, <2>0, <2>3
  <2>5. \A k \in 2 .. Len(q) : k \in 1 .. L - (d + 1) + 1 /\ d + 1 + k - 1 = k + d
    BY <1>1, <2>0, <2>4
  <2>6. \A k \in 2 .. Len(q) : q[k] = h[k + d]
    BY <2>3, <2>5
  <2>7. Len(q) + d = Len(h)
    BY <1>1, <2>0, <2>4 DEF L
  <2> QED
    BY <2>0, <2>1, <2>3, <2>6, <2>7 DEF CutOf
<1> QED
  BY <1>2, <1>3

(* forceCompression cuts, and keeps the first message in front.            *)
LEMMA CompressedCuts ==
  ASSUME NEW h \in Seq(Messages), Len(h) > 4
  PROVE  CutOf(Compressed(h), h)
<1> DEFINE L == Len(h)
           d == (L - 2) \div 2
           r == SubSeq(h, d + 2, L)
           q == <<h[1]>> \o r
<1>1. L \in Nat /\ L > 4 /\ \A i \in 1 .. L : h[i] \in Messages
  BY LenProperties
<1>2. Compressed(h) = q
  BY DEF Compressed
<1> HIDE DEF L
<1>3. d \in Nat /\ d + 2 \in Int /\ L \in Int /\ d + 2 <= L /\ L - (d + 2) + 1 = L - d - 1
  BY <1>1
<1> HIDE DEF d
<1>4. \A i \in d + 2 .. L : h[i] \in Messages
  BY <1>1, <1>3
<1>5. /\ r \in Seq(Messages) /\ Len(r) = (IF d + 2 <= L THEN L - (d + 2) + 1 ELSE 0)
      /\ \A i \in 1 .. L - (d + 2) + 1 : r[i] = h[d + 2 + i - 1]
  BY <1>3, <1>4, SubSeqProperties
<1> HIDE DEF r
<1>6. Len(r) = L - d - 1 /\ \A i \in 1 .. L - d - 1 : r[i] = h[d + 2 + i - 1]
  BY <1>3, <1>5
<1>7. h[1] \in Messages
  BY <1>1
<1>8. <<h[1]>> \in Seq(Messages) /\ Len(<<h[1]>>) = 1
  BY <1>7
<1>9. /\ q \in Seq(Messages) /\ Len(q) = 1 + Len(r)
      /\ \A i \in 1 .. 1 + Len(r) : q[i] = IF i <= 1 THEN <<h[1]>>[i] ELSE r[i - 1]
  BY <1>5, <1>8, ConcatProperties
<1> HIDE DEF q
<1>10. Len(q) = L - d
  BY <1>1, <1>3, <1>6, <1>9
<1>11. ASSUME NEW k \in 2 .. Len(q) PROVE q[k] = h[k + d]
  <2>1. /\ k \in 1 .. 1 + Len(r) /\ ~(k <= 1) /\ k - 1 \in 1 .. L - d - 1
        /\ d + 2 + (k - 1) - 1 = k + d
    BY <1>1, <1>3, <1>6, <1>10
  <2>2. q[k] = r[k - 1]
    BY <1>9, <2>1
  <2>3. r[k - 1] = h[d + 2 + (k - 1) - 1]
    BY <1>6, <2>1
  <2> QED
    BY <2>1, <2>2, <2>3
<1>12. Len(q) + d = Len(h)
  BY <1>1, <1>3, <1>10 DEF L
<1> QED
  BY <1>2, <1>3, <1>9, <1>11, <1>12 DEF CutOf

(* The first prompt of a turn, and the one rebuilt after a compression.    *)
LEMMA BuildFacts ==
  ASSUME NEW h \in Seq(Messages), NEW n \in Nat
  PROVE  /\ BuildMessages(h, <<>>) = SanitizeHistory(h)
         /\ BuildMessages(h, <<User(n)>>) = Append(SanitizeHistory(h), User(n))
         /\ BuildMessages(h, <<User(n)>>) \in Seq(Messages) /\ Orphanless(BuildMessages(h, <<User(n)>>))
         /\ BuildMessages(h, <<>>) \in Seq(Messages) /\ Orphanless(BuildMessages(h, <<>>))
<1>1. SanitizeHistory(h) \in Seq(Messages) /\ Orphanless(SanitizeHistory(h))
  BY SanitizedOrphanless
<1>2. User(n) \in Messages /\ User(n).role # "tool"
  BY DEF User, Messages, Roles
<1> HIDE DEF User
<1>3. BuildMessages(h, <<User(n)>>) = Append(SanitizeHistory(h), User(n))
  BY <1>1, <1>2, AppendIsConcat DEF BuildMessages
<1>4. Append(SanitizeHistory(h), User(n)) \in Seq(Messages)
  BY <1>1, <1>2, AppendFacts
<1>5. Orphanless(Append(SanitizeHistory(h), User(n)))
  BY <1>1, <1>2, OrphanlessAppend
<1>6. BuildMessages(h, <<>>) = SanitizeHistory(h)
  BY <1>1, ConcatEmptySeq DEF BuildMessages
<1> QED
  BY <1>1, <1>3, <1>4, <1>5, <1>6

(* The prompts of a good history are good.                                 *)
LEMMA BuildGood ==
  ASSUME NEW h \in Seq(Messages), NEW n \in Nat, Good(2, h), Closed(2, h)
  PROVE  /\ Good(1, BuildMessages(h, <<>>)) /\ Closed(1, BuildMessages(h, <<>>))
         /\ Good(1, BuildMessages(h, <<User(n)>>)) /\ Closed(1, BuildMessages(h, <<User(n)>>))
<1>1. SanitizeHistory(h) \in Seq(Messages)
  BY SanitizedOrphanless
<1>2. Good(1, SanitizeHistory(h)) /\ Closed(1, SanitizeHistory(h))
  BY SanitizedGood
<1>3. User(n) \in Messages /\ User(n).role # "tool" /\ ~HasCalls(User(n))
  BY DEF User, Messages, Roles, HasCalls
<1> HIDE DEF User
<1>4. Good(1, Append(SanitizeHistory(h), User(n))) /\ Closed(1, Append(SanitizeHistory(h), User(n)))
  BY <1>1, <1>2, <1>3, GoodAppendPlain
<1> QED
  BY <1>2, <1>4, BuildFacts

(* Orphanless is what NoOrphanResults says of a prompt.                    *)
LEMMA OrphanlessMeans ==
  ASSUME NEW p \in Seq(Messages), Orphanless(p), NEW i \in DOMAIN p, p[i].role = "tool"
  PROVE  AfterCalls(SubSeq(p, 1, i - 1))
<1> DEFINE q == SubSeq(p, 1, i - 1)
<1>1. Len(p) \in Nat /\ DOMAIN p = 1 .. Len(p)
  BY LenProperties
<1>2. i \in 1 .. Len(p)
  BY <1>1
<1>3. \A k \in 1 .. i - 1 : k \in 1 .. Len(p)
  BY <1>1, <1>2
<1>4. \A k \in 1 .. i - 1 : p[k] \in Messages
  BY <1>3, ElementOfSeq
<1>5. 1 \in Int /\ i - 1 \in Int /\ i - 1 - 1 + 1 = i - 1 /\ i - 1 \in Nat
  BY <1>2
<1>6. /\ Len(q) = (IF 1 <= i - 1 THEN i - 1 - 1 + 1 ELSE 0)
      /\ \A k \in 1 .. i - 1 - 1 + 1 : q[k] = p[1 + k - 1]
  BY <1>4, <1>5, SubSeqProperties
<1> HIDE DEF q
<1>7. Len(q) = i - 1
  BY <1>5, <1>6
<1>8. \A k \in 1 .. i - 1 : q[k] = p[k]
  <2>1. \A k \in 1 .. i - 1 : 1 + k - 1 = k
    BY <1>5
  <2> QED
    BY <1>5, <1>6, <2>1
<1>9. PICK j \in 1 .. i - 1 : HasCalls(p[j]) /\ \A k \in j + 1 .. i - 1 : p[k].role = "tool"
  BY <1>2 DEF Orphanless
<1>10. \A k \in j + 1 .. i - 1 : k \in 1 .. i - 1
  BY <1>5
<1>11. HasCalls(q[j]) /\ \A k \in j + 1 .. Len(q) : q[k].role = "tool"
  BY <1>7, <1>8, <1>9, <1>10
<1> QED
  BY <1>7, <1>11 DEF AfterCalls, q

-------------------------------------------------------------------------------
(* The state of the loop                                                   *)

Calls == {"msg", "msgTo", "bad", "plain", "forUser"}
Resps == {"none", "answer", "empty", "error", "command"}
Steps == {"idle", "adduser", "llm", "compress", "context", "execute", "finish", "respond"}
AskedKinds == {"none", "user", "system", "command", "cron", "heartbeat", "api"}

TurnRecord ==
  [turn : Nat, agent : Agents, chat : Targets, session : Sessions, send : BOOLEAN,
   summarize : BOOLEAN, iter : Nat, retry : Nat, resp : Resps, calls : Seq(Calls),
   next : Nat, prompt : Seq(Messages), snap : Seq(Messages)]

Calling(w) == pc[w] \in {"context", "execute"}

TurnTypes == pc \in [Workers -> Steps] /\ t \in [Workers -> TurnRecord]

(* No prompt holds an orphaned result, and while a turn works on its calls *)
(* a further result would not be one.                                      *)
PromptInv ==
  \A w \in Workers :
    /\ Orphanless(t[w].prompt)
    /\ Calling(w) => AfterCalls(t[w].prompt) /\ t[w].next \in 1 .. Len(t[w].calls)

HistTypes == hist \in [Sessions -> Seq(Messages)]

Published == [kind : {"reply", "tool", "notice"}, chat : Targets \cup {NoChat}, turn : Nat]

OutTypes ==
  /\ tool \in [Agents -> [chat : Targets \cup {NoChat}, sent : BOOLEAN]]
  /\ out \in Seq(Published)

AskedTypes ==
  /\ turns \in Nat /\ turns <= MaxTurns
  /\ asked \in [1 .. MaxTurns -> [kind : AskedKinds, chat : Targets, end : Resps \cup {"no"}]]
  /\ \A w \in Workers : pc[w] # "idle" => t[w].turn \in 1 .. turns

SumTypes ==
  /\ sum \in [Sessions -> [at : {"none", "notify", "read", "store", "truncate"}, chat : Targets,
                           snap : Seq(Messages), covers : SUBSET Messages]]
  /\ summary \in [Sessions -> SUBSET Messages]

LoopInv == TurnTypes /\ PromptInv /\ HistTypes /\ OutTypes /\ AskedTypes /\ SumTypes

-------------------------------------------------------------------------------
(* Steps of a turn, as changes of its record                               *)

Started(n, a, c, s, send, sm, p) ==
  [NoTurn EXCEPT !.turn = n, !.agent = a, !.chat = c, !.session = s, !.send = send,
                 !.summarize = sm, !.iter = 1, !.prompt = p]

(* No turn.                                                                *)
LEMMA NoTurnFacts ==
  /\ NoTurn \in TurnRecord /\ Orphanless(NoTurn.prompt)
  /\ NoTurn.prompt = <<>> /\ NoTurn.snap = <<>>
<1>1. DefaultAgent \in Agents /\ Internal \in Targets /\ "heartbeat" \in Sessions
  BY LoopAssumption DEF Targets
<1>2. <<>> \in Seq(Messages) /\ <<>> \in Seq(Calls) /\ "none" \in Resps
  BY DEF Resps
<1>3. Orphanless(<<>>)
  BY DEF Orphanless
<1> QED
  BY <1>1, <1>2, <1>3 DEF NoTurn, TurnRecord

(* A turn that begins.                                                     *)
LEMMA StartedFacts ==
  ASSUME NEW n \in Nat, NEW a \in Agents, NEW c \in Targets, NEW s \in Sessions,
         NEW send \in BOOLEAN, NEW sm \in BOOLEAN, NEW p \in Seq(Messages)
  PROVE  /\ Started(n, a, c, s, send, sm, p) \in TurnRecord
         /\ Started(n, a, c, s, send, sm, p).turn = n
         /\ Started(n, a, c, s, send, sm, p).agent = a
         /\ Started(n, a, c, s, send, sm, p).session = s
         /\ Started(n, a, c, s, send, sm, p).prompt = p
         /\ Started(n, a, c, s, send, sm, p).snap = <<>>
<1>1. <<>> \in Seq(Messages) /\ <<>> \in Seq(Calls) /\ "none" \in Resps
  BY DEF Resps
<1> QED
  BY <1>1 DEF Started, NoTurn, TurnRecord

(* A turn that gets its response.                                          *)
LEMMA RespFacts ==
  ASSUME NEW r \in TurnRecord, NEW x \in Resps
  PROVE  /\ [r EXCEPT !.resp = x] \in TurnRecord
         /\ [r EXCEPT !.resp = x].resp = x
         /\ [r EXCEPT !.resp = x].turn = r.turn /\ [r EXCEPT !.resp = x].agent = r.agent
         /\ [r EXCEPT !.resp = x].session = r.session
         /\ [r EXCEPT !.resp = x].prompt = r.prompt /\ [r EXCEPT !.resp = x].snap = r.snap
BY DEF TurnRecord

(* A turn whose response carries calls.                                    *)
Called(r, cs, p) == [r EXCEPT !.calls = cs, !.next = 1, !.prompt = p]

(* ... keeps the rest.                                                     *)
LEMMA CalledFacts ==
  ASSUME NEW r \in TurnRecord, NEW cs \in Seq(Calls), NEW p \in Seq(Messages)
  PROVE  /\ Called(r, cs, p) \in TurnRecord /\ Called(r, cs, p).turn = r.turn
         /\ Called(r, cs, p).agent = r.agent /\ Called(r, cs, p).session = r.session
         /\ Called(r, cs, p).iter = r.iter /\ Called(r, cs, p).calls = cs
         /\ Called(r, cs, p).next = 1 /\ Called(r, cs, p).prompt = p
         /\ Called(r, cs, p).snap = r.snap
BY DEF TurnRecord, Called

(* A turn that reads its history to compress it.                           *)
LEMMA SnapFacts ==
  ASSUME NEW r \in TurnRecord, NEW h \in Seq(Messages)
  PROVE  /\ [r EXCEPT !.snap = h] \in TurnRecord
         /\ [r EXCEPT !.snap = h].turn = r.turn /\ [r EXCEPT !.snap = h].agent = r.agent
         /\ [r EXCEPT !.snap = h].session = r.session
         /\ [r EXCEPT !.snap = h].prompt = r.prompt /\ [r EXCEPT !.snap = h].snap = h
BY DEF TurnRecord

(* A turn that has compressed it.                                          *)
Rebuilt(r, k, p) == [r EXCEPT !.snap = <<>>, !.retry = k, !.prompt = p]

(* ... keeps the rest.                                                     *)
LEMMA RebuiltFacts ==
  ASSUME NEW r \in TurnRecord, NEW k \in Nat, NEW p \in Seq(Messages)
  PROVE  /\ Rebuilt(r, k, p) \in TurnRecord /\ Rebuilt(r, k, p).turn = r.turn
         /\ Rebuilt(r, k, p).agent = r.agent /\ Rebuilt(r, k, p).session = r.session
         /\ Rebuilt(r, k, p).prompt = p /\ Rebuilt(r, k, p).snap = <<>>
<1>1. <<>> \in Seq(Messages)
  OBVIOUS
<1> QED
  BY <1>1 DEF TurnRecord, Rebuilt

(* A turn that has got the result m of its current call.                   *)
LEMMA DoneFacts ==
  ASSUME TurnTypes, NEW w \in Workers, NEW m \in Messages
  PROVE  /\ ToolDone(w, m) \in TurnRecord /\ ToolDone(w, m).turn = t[w].turn
         /\ ToolDone(w, m).agent = t[w].agent /\ ToolDone(w, m).session = t[w].session
         /\ ToolDone(w, m).calls = t[w].calls /\ ToolDone(w, m).next = t[w].next + 1
         /\ ToolDone(w, m).prompt = Append(t[w].prompt, m) /\ ToolDone(w, m).snap = t[w].snap
         /\ AfterTool(w) = "context" => ToolDone(w, m).iter = t[w].iter
         /\ AfterTool(w) \in {"context", "llm", "finish"}
         /\ AfterTool(w) = "context" <=> t[w].next < Len(t[w].calls)
<1> DEFINE r == t[w]
           p == Append(r.prompt, m)
           k == r.next + 1
           moved == [r EXCEPT !.prompt = p, !.next = k]
<1>1. r \in TurnRecord
  BY DEF TurnTypes
<1>2. r.prompt \in Seq(Messages) /\ r.next \in Nat /\ r.iter \in Nat
  BY <1>1 DEF TurnRecord
<1>3. p \in Seq(Messages)
  BY <1>2, AppendFacts
<1>0. k \in Nat
  BY <1>2
<1> HIDE DEF p, r, k
<1>4. /\ moved \in TurnRecord /\ moved.turn = r.turn /\ moved.agent = r.agent
      /\ moved.session = r.session /\ moved.calls = r.calls /\ moved.next = k
      /\ moved.prompt = p /\ moved.snap = r.snap /\ moved.iter = r.iter
  BY <1>0, <1>1, <1>3 DEF TurnRecord
<1> DEFINE i == moved.iter + 1
           again == [moved EXCEPT !.iter = i, !.retry = 0]
           over == [moved EXCEPT !.resp = "empty"]
<1>5. ToolDone(w, m) = CASE AfterTool(w) = "context" -> moved
                         [] AfterTool(w) = "llm" -> again
                         [] OTHER -> over
  BY <1>1 DEF ToolDone, r, p, k
<1> HIDE DEF moved
<1>6. i \in Nat
  BY <1>2, <1>4
<1> HIDE DEF i
<1>7. /\ again \in TurnRecord /\ again.turn = r.turn /\ again.agent = r.agent
      /\ again.session = r.session /\ again.calls = r.calls /\ again.next = k
      /\ again.prompt = p /\ again.snap = r.snap
  BY <1>4, <1>6 DEF TurnRecord
<1>8. /\ over \in TurnRecord /\ over.turn = r.turn /\ over.agent = r.agent
      /\ over.session = r.session /\ over.calls = r.calls /\ over.next = k
      /\ over.prompt = p /\ over.snap = r.snap
  BY <1>4 DEF TurnRecord, Resps
<1> HIDE DEF again, over
<1>9. AfterTool(w) \in {"context", "llm", "finish"} /\ (AfterTool(w) = "context" <=> r.next < Len(r.calls))
  <2>1. CASE r.next < Len(r.calls)
    <3>1. ~(r.next = Len(r.calls))
      BY <1>2, <2>1
    <3>2. AfterTool(w) = "context"
      BY <2>1, <3>1 DEF AfterTool, r
    <3> QED
      BY <2>1, <3>2
  <2>2. CASE ~(r.next < Len(r.calls))
    <3>1. AfterTool(w) \in {"llm", "finish"}
      BY <2>2 DEF AfterTool, r
    <3> QED
      BY <2>2, <3>1
  <2> QED
    BY <2>1, <2>2
<1>10. CASE AfterTool(w) = "context"
  <2>1. ToolDone(w, m) = moved
    BY <1>5, <1>10
  <2> QED
    BY <1>4, <1>9, <1>10, <2>1 DEF r, p, k
<1>11. CASE AfterTool(w) = "llm"
  <2>1. ToolDone(w, m) = again
    BY <1>5, <1>11
  <2> QED
    BY <1>7, <1>9, <1>11, <2>1 DEF r, p, k
<1>12. CASE AfterTool(w) = "finish"
  <2>1. ToolDone(w, m) = over
    BY <1>5, <1>12
  <2> QED
    BY <1>8, <1>9, <1>12, <2>1 DEF r, p, k
<1> QED
  BY <1>9, <1>10, <1>11, <1>12

-------------------------------------------------------------------------------
(* The invariant is kept, part by part                                     *)

(* A worker that moves to a position at, with its turn changed to r.       *)
Moves(w, at, r) == pc' = [pc EXCEPT ![w] = at] /\ t' = [t EXCEPT ![w] = r]

(* A move leaves the other workers alone.                                  *)
LEMMA MoveFacts ==
  ASSUME TurnTypes, NEW w \in Workers, NEW at \in Steps, NEW r \in TurnRecord, Moves(w, at, r)
  PROVE  /\ TurnTypes' /\ pc'[w] = at /\ t'[w] = r
         /\ \A v \in Workers \ {w} : pc'[v] = pc[v] /\ t'[v] = t[v]
BY DEF TurnTypes, Moves

(* ... and the prompts are kept in order if the moved one is.              *)
LEMMA MovedInv ==
  ASSUME LoopInv, NEW w \in Workers, NEW at \in Steps, NEW r \in TurnRecord, Moves(w, at, r),
         Orphanless(r.prompt),
         at \in {"context", "execute"} => AfterCalls(r.prompt) /\ r.next \in 1 .. Len(r.calls)
  PROVE  TurnTypes' /\ PromptInv'
<1>1. /\ TurnTypes' /\ pc'[w] = at /\ t'[w] = r
      /\ \A v \in Workers \ {w} : pc'[v] = pc[v] /\ t'[v] = t[v]
  BY MoveFacts DEF LoopInv
<1>2. ASSUME NEW v \in Workers
      PROVE  /\ Orphanless(t'[v].prompt)
             /\ pc'[v] \in {"context", "execute"} =>
                  AfterCalls(t'[v].prompt) /\ t'[v].next \in 1 .. Len(t'[v].calls)
  <2>1. CASE v = w
    BY <1>1, <2>1
  <2>2. CASE v # w
    BY <1>1, <2>2 DEF LoopInv, PromptInv, Calling
  <2> QED
    BY <2>1, <2>2
<1> QED
  BY <1>1, <1>2 DEF PromptInv, Calling

(* A turn that goes on keeps its number.                                   *)
LEMMA MovedAsked ==
  ASSUME LoopInv, NEW w \in Workers, NEW at \in Steps, NEW r \in TurnRecord, Moves(w, at, r),
         pc[w] # "idle", r.turn = t[w].turn, UNCHANGED <<turns, asked>>
  PROVE  AskedTypes'
<1>1. /\ pc'[w] = at /\ t'[w] = r
      /\ \A v \in Workers \ {w} : pc'[v] = pc[v] /\ t'[v] = t[v]
  BY MoveFacts DEF LoopInv
<1>2. \A v \in Workers : pc'[v] # "idle" => t'[v].turn \in 1 .. turns
  BY <1>1 DEF LoopInv, AskedTypes
<1> QED
  BY <1>2 DEF LoopInv, AskedTypes

(* A message joins a session.                                              *)
LEMMA AddTyped ==
  ASSUME HistTypes, NEW s \in Sessions, NEW m \in Messages, AddMessage(s, m)
  PROVE  /\ HistTypes' /\ hist'[s] = Append(hist[s], m)
         /\ \A z \in Sessions \ {s} : hist'[z] = hist[z]
<1>1. hist[s] \in Seq(Messages)
  BY DEF HistTypes
<1>2. Append(hist[s], m) \in Seq(Messages)
  BY <1>1, AppendFacts
<1>3. hist' = [hist EXCEPT ![s] = Append(hist[s], m)]
  BY DEF AddMessage
<1> QED
  BY <1>2, <1>3 DEF HistTypes

(* A message is published.                                                 *)
LEMMA PublishTyped ==
  ASSUME out \in Seq(Published), NEW k \in {"reply", "tool", "notice"},
         NEW c \in Targets \cup {NoChat}, NEW n \in Nat, Publish(k, c, n)
  PROVE  /\ out' \in Seq(Published) /\ DOMAIN out' = 1 .. Len(out) + 1 /\ DOMAIN out = 1 .. Len(out)
         /\ Len(out) \in Nat /\ \A i \in DOMAIN out : out'[i] = out[i]
         /\ out'[Len(out) + 1] = [kind |-> k, chat |-> c, turn |-> n]
<1> DEFINE e == [kind |-> k, chat |-> c, turn |-> n]
<1>1. e \in Published
  BY DEF Published
<1>2. out' = Append(out, e)
  BY DEF Publish
<1> HIDE DEF e
<1> QED
  BY <1>1, <1>2, AppendProperties, LenProperties DEF e

(* A new target for the message tool.                                      *)
LEMMA ContextTyped ==
  ASSUME OutTypes, NEW a \in Agents, NEW c \in Targets, SetContext(a, c), UNCHANGED out
  PROVE  OutTypes' /\ tool'[a].sent = FALSE
<1> DEFINE e == [chat |-> c, sent |-> FALSE]
<1>1. e \in [chat : Targets \cup {NoChat}, sent : BOOLEAN]
  OBVIOUS
<1>2. tool' = [tool EXCEPT ![a] = e]
  BY DEF SetContext
<1> QED
  BY <1>1, <1>2 DEF OutTypes

(* The start.                                                              *)
LEMMA LoopInit ==
  ASSUME Init PROVE LoopInv
<1>1. TurnTypes
  BY NoTurnFacts DEF Init, TurnTypes, Steps
<1>2. PromptInv
  BY NoTurnFacts DEF Init, PromptInv, Calling
<1>3. HistTypes
  BY DEF Init, HistTypes
<1>4. OutTypes
  BY DEF Init, OutTypes
<1>5. AskedTypes
  <2>1. Internal \in Targets /\ 0 <= MaxTurns /\ 0 \in Nat
    BY LoopAssumption DEF Targets
  <2>2. asked \in [1 .. MaxTurns -> [kind : AskedKinds, chat : Targets, end : Resps \cup {"no"}]]
    BY <2>1 DEF Init, AskedKinds
  <2> QED
    BY <2>1, <2>2 DEF Init, AskedTypes
<1>6. SumTypes
  <2>1. Internal \in Targets /\ <<>> \in Seq(Messages)
    BY DEF Targets
  <2> QED
    BY <2>1 DEF Init, SumTypes, NoSummarizer
<1> QED
  BY <1>1, <1>2, <1>3, <1>4, <1>5, <1>6 DEF LoopInv

(* A turn begins.                                                          *)
LEMMA BeginStep ==
  ASSUME LoopInv, NEW w \in Workers, NEW kind \in AskedKinds, NEW a \in Agents,
         NEW c \in Targets, NEW s \in Sessions, NEW send \in BOOLEAN, NEW sm \in BOOLEAN,
         NEW h \in Seq(Messages), Begin(w, kind, a, c, s, send, sm, h)
  PROVE  /\ LoopInv'
         /\ Moves(w, "adduser", Started(turns + 1, a, c, s, send, sm, BuildMessages(h, <<User(turns + 1)>>)))
<1> DEFINE n == turns + 1
           p == BuildMessages(h, <<User(n)>>)
           r == Started(n, a, c, s, send, sm, p)
<1>0. turns \in Nat /\ MaxTurns \in Nat
  BY LoopAssumption DEF LoopInv, AskedTypes
<1>1. n \in Nat /\ n \in 1 .. MaxTurns /\ n <= MaxTurns /\ n \in 1 .. n /\ \A i \in 1 .. turns : i \in 1 .. n
  BY <1>0 DEF Begin
<1>2. Moves(w, "adduser", r)
  BY DEF Begin, Goto, Moves, Started
<1>3. turns' = n /\ asked' = [asked EXCEPT ![n] = [kind |-> kind, chat |-> c, end |-> "no"]]
  BY DEF Begin
<1>4. SetContext(a, c) /\ UNCHANGED <<out, hist, summary, sum>>
  BY DEF Begin
<1>5. p \in Seq(Messages) /\ Orphanless(p)
  BY <1>1, BuildFacts
<1> HIDE DEF p, n
<1>6. r \in TurnRecord /\ r.turn = n /\ r.prompt = p
  BY <1>1, <1>5, StartedFacts
<1> HIDE DEF r
<1>7. "adduser" \in Steps
  BY DEF Steps
<1>8. TurnTypes' /\ PromptInv'
  BY <1>2, <1>5, <1>6, <1>7, MovedInv
<1>9. AskedTypes'
  <2>1. [kind |-> kind, chat |-> c, end |-> "no"] \in [kind : AskedKinds, chat : Targets, end : Resps \cup {"no"}]
    OBVIOUS
  <2>2. asked' \in [1 .. MaxTurns -> [kind : AskedKinds, chat : Targets, end : Resps \cup {"no"}]]
    BY <1>3, <2>1 DEF LoopInv, AskedTypes
  <2>3. \A v \in Workers : pc'[v] # "idle" => t'[v].turn \in 1 .. n
    BY <1>1, <1>2, <1>6, <1>7, MoveFacts DEF LoopInv, AskedTypes
  <2> QED
    BY <1>1, <1>3, <2>2, <2>3 DEF AskedTypes
<1>10. OutTypes'
  BY <1>4, ContextTyped DEF LoopInv
<1>11. HistTypes' /\ SumTypes'
  BY <1>4 DEF LoopInv, HistTypes, SumTypes
<1> QED
  BY <1>2, <1>8, <1>9, <1>10, <1>11 DEF LoopInv, r, p, n

(* A message that never reaches an agent.                                  *)
LEMMA UnroutedStep ==
  ASSUME LoopInv, NEW kind \in AskedKinds, NEW c \in Targets, NEW x \in Resps,
         TakeUnrouted(kind, c, x)
  PROVE  /\ LoopInv'
         /\ Moves("run", "respond", [NoTurn EXCEPT !.turn = turns + 1, !.chat = c, !.resp = x])
<1> DEFINE n == turns + 1
           r == [NoTurn EXCEPT !.turn = n, !.chat = c, !.resp = x]
<1>0. turns \in Nat /\ MaxTurns \in Nat /\ "run" \in Workers
  BY LoopAssumption DEF LoopInv, AskedTypes, Workers
<1>1. n \in Nat /\ n \in 1 .. MaxTurns /\ n <= MaxTurns /\ n \in 1 .. n /\ \A i \in 1 .. turns : i \in 1 .. n
  BY <1>0 DEF TakeUnrouted
<1>2. Moves("run", "respond", r)
  BY DEF TakeUnrouted, Goto, Moves
<1>3. turns' = n /\ asked' = [asked EXCEPT ![n] = [kind |-> kind, chat |-> c, end |-> "no"]]
  BY DEF TakeUnrouted
<1>4. UNCHANGED <<tool, out, hist, summary, sum>>
  BY DEF TakeUnrouted
<1> HIDE DEF n
<1>6. r \in TurnRecord /\ r.turn = n /\ r.prompt = <<>>
  <2> HIDE DEF NoTurn
  <2> QED
    BY <1>1, NoTurnFacts DEF TurnRecord
<1> HIDE DEF r
<1>7. "respond" \in Steps /\ Orphanless(r.prompt)
  BY <1>6 DEF Steps, Orphanless
<1>8. TurnTypes' /\ PromptInv'
  BY <1>0, <1>2, <1>6, <1>7, MovedInv
<1>9. AskedTypes'
  <2>1. [kind |-> kind, chat |-> c, end |-> "no"] \in [kind : AskedKinds, chat : Targets, end : Resps \cup {"no"}]
    OBVIOUS
  <2>2. asked' \in [1 .. MaxTurns -> [kind : AskedKinds, chat : Targets, end : Resps \cup {"no"}]]
    BY <1>3, <2>1 DEF LoopInv, AskedTypes
  <2>3. \A v \in Workers : pc'[v] # "idle" => t'[v].turn \in 1 .. n
    BY <1>0, <1>1, <1>2, <1>6, <1>7, MoveFacts DEF LoopInv, AskedTypes
  <2> QED
    BY <1>1, <1>3, <2>2, <2>3 DEF AskedTypes
<1>10. OutTypes' /\ HistTypes' /\ SumTypes'
  BY <1>4 DEF LoopInv, OutTypes, HistTypes, SumTypes
<1> QED
  BY <1>2, <1>8, <1>9, <1>10 DEF LoopInv, r, n

(* What is known of a turn in progress.                                    *)
LEMMA TurnFacts ==
  ASSUME LoopInv, NEW w \in Workers
  PROVE  /\ t[w] \in TurnRecord /\ t[w].prompt \in Seq(Messages) /\ t[w].snap \in Seq(Messages)
         /\ t[w].session \in Sessions /\ t[w].agent \in Agents /\ t[w].chat \in Targets
         /\ t[w].turn \in Nat /\ t[w].iter \in Nat /\ t[w].next \in Nat /\ t[w].retry \in Nat
         /\ t[w].calls \in Seq(Calls) /\ t[w].resp \in Resps
         /\ Orphanless(t[w].prompt) /\ hist[t[w].session] \in Seq(Messages)
<1>1. t[w] \in TurnRecord
  BY DEF LoopInv, TurnTypes
<1>2. /\ t[w].prompt \in Seq(Messages) /\ t[w].snap \in Seq(Messages)
      /\ t[w].session \in Sessions /\ t[w].agent \in Agents /\ t[w].chat \in Targets
      /\ t[w].turn \in Nat /\ t[w].iter \in Nat /\ t[w].next \in Nat /\ t[w].retry \in Nat
      /\ t[w].calls \in Seq(Calls) /\ t[w].resp \in Resps
  BY <1>1 DEF TurnRecord
<1> QED
  BY <1>1, <1>2 DEF LoopInv, PromptInv, HistTypes

(* The user's message joins the session.                                   *)
LEMMA AddUserStep ==
  ASSUME LoopInv, NEW w \in Workers, AddUser(w)
  PROVE  LoopInv' /\ Moves(w, "llm", t[w])
<1>1. /\ pc[w] = "adduser" /\ AddMessage(t[w].session, User(t[w].turn)) /\ Goto(w, "llm")
      /\ UNCHANGED <<t, turns, asked, tool, out, summary, sum>>
  BY DEF AddUser
<1>2. Moves(w, "llm", t[w])
  BY <1>1 DEF Moves, Goto, LoopInv, TurnTypes
<1>3. "llm" \in Steps /\ "llm" \notin {"context", "execute"}
  BY DEF Steps
<1>4. TurnTypes' /\ PromptInv'
  BY <1>2, <1>3, MovedInv, TurnFacts
<1>5. AskedTypes'
  BY <1>1, <1>2, <1>3, MovedAsked, TurnFacts
<1>6. User(t[w].turn) \in Messages
  BY TurnFacts, MessageFacts
<1>7. HistTypes'
  BY <1>1, <1>6, AddTyped, TurnFacts DEF LoopInv
<1>8. OutTypes' /\ SumTypes'
  BY <1>1 DEF LoopInv, OutTypes, SumTypes
<1> QED
  BY <1>2, <1>4, <1>5, <1>7, <1>8 DEF LoopInv

(* The LLM answers, or its call fails for good.                            *)
LEMMA ResponseStep ==
  ASSUME LoopInv, NEW w \in Workers, LLMAnswers(w) \/ LLMFails(w)
  PROVE  /\ LoopInv' /\ UNCHANGED <<turns, asked, tool, out, hist>> /\ pc[w] = "llm"
         /\ \E x \in Resps, at \in {"finish", "respond"} :
              x # "none" /\ Moves(w, at, [t[w] EXCEPT !.resp = x])
<1>1. /\ pc[w] = "llm" /\ UNCHANGED <<turns, asked, tool, out, hist, summary, sum>>
      /\ \E x \in {"answer", "empty", "error"}, at \in {"finish", "respond"} :
           Moves(w, at, [t[w] EXCEPT !.resp = x])
  BY DEF LLMAnswers, LLMFails, Goto, Moves
<1>2. PICK x \in {"answer", "empty", "error"}, at \in {"finish", "respond"} :
        Moves(w, at, [t[w] EXCEPT !.resp = x])
  BY <1>1
<1> DEFINE r == [t[w] EXCEPT !.resp = x]
<1>3. x \in Resps /\ x # "none" /\ at \in Steps /\ at \notin {"context", "execute"}
  BY DEF Resps, Steps
<1>4. r \in TurnRecord /\ r.turn = t[w].turn /\ r.prompt = t[w].prompt
  BY <1>3, RespFacts, TurnFacts
<1> HIDE DEF r
<1>5. Moves(w, at, r)
  BY <1>2 DEF r
<1>6. TurnTypes' /\ PromptInv'
  BY <1>3, <1>4, <1>5, MovedInv, TurnFacts
<1>7. AskedTypes'
  BY <1>1, <1>3, <1>4, <1>5, MovedAsked
<1>8. HistTypes' /\ OutTypes' /\ SumTypes'
  BY <1>1 DEF LoopInv, HistTypes, OutTypes, SumTypes
<1> QED
  BY <1>1, <1>3, <1>5, <1>6, <1>7, <1>8 DEF LoopInv, r

(* The LLM calls tools.                                                    *)
LEMMA CallsStep ==
  ASSUME LoopInv, NEW w \in Workers, LLMCallsTools(w)
  PROVE  /\ LoopInv' /\ UNCHANGED <<turns, asked, tool, out>> /\ pc[w] = "llm"
         /\ \E cs \in Seq(Calls) :
              /\ Len(cs) \in Nat \ {0}
              /\ AddMessage(t[w].session, Assistant(t[w].turn, t[w].iter, Len(cs)))
              /\ Moves(w, "context",
                   Called(t[w], cs, Append(t[w].prompt, Assistant(t[w].turn, t[w].iter, Len(cs)))))
<1>1. /\ pc[w] = "llm" /\ Goto(w, "context") /\ UNCHANGED <<turns, asked, tool, out, summary, sum>>
  BY DEF LLMCallsTools
<1>2. PICK cs \in CallLists :
        /\ t' = [t EXCEPT ![w].calls = cs, ![w].next = 1,
                          ![w].prompt = Append(@, Assistant(t[w].turn, t[w].iter, Len(cs)))]
        /\ AddMessage(t[w].session, Assistant(t[w].turn, t[w].iter, Len(cs)))
  BY DEF LLMCallsTools
<1>3. cs \in Seq(Calls) /\ cs # <<>>
  BY LoopAssumption DEF Calls
<1>4. Len(cs) \in Nat \ {0}
  BY <1>3, EmptySeq
<1> DEFINE m == Assistant(t[w].turn, t[w].iter, Len(cs))
           p == Append(t[w].prompt, m)
           r == Called(t[w], cs, p)
<1>5. m \in Messages /\ m.role = "assistant" /\ m.n = Len(cs)
  BY <1>4, TurnFacts, MessageFacts
<1>6. t' = [t EXCEPT ![w] = r]
  BY <1>2 DEF LoopInv, TurnTypes, TurnRecord, Called
<1> HIDE DEF m
<1>7. p \in Seq(Messages) /\ Orphanless(p) /\ AfterCalls(p)
  <2>1. HasCalls(m)
    BY <1>4, <1>5 DEF HasCalls
  <2> QED
    BY <1>5, <2>1, TurnFacts, AppendFacts, OrphanlessAppend, AfterCallsAppend
<1> HIDE DEF p
<1>8. r \in TurnRecord /\ r.turn = t[w].turn /\ r.prompt = p /\ r.next = 1 /\ r.calls = cs
  BY <1>3, <1>7, TurnFacts, CalledFacts
<1> HIDE DEF r
<1>9. Moves(w, "context", r)
  BY <1>1, <1>6 DEF Moves, Goto
<1>10. "context" \in Steps /\ 1 \in 1 .. Len(cs)
  BY <1>4 DEF Steps
<1>11. TurnTypes' /\ PromptInv'
  BY <1>7, <1>8, <1>9, <1>10, MovedInv
<1>12. AskedTypes'
  BY <1>1, <1>8, <1>9, <1>10, MovedAsked
<1>13. HistTypes'
  BY <1>2, <1>5, AddTyped, TurnFacts DEF LoopInv, m
<1>14. OutTypes' /\ SumTypes'
  BY <1>1 DEF LoopInv, OutTypes, SumTypes
<1> QED
  BY <1>1, <1>2, <1>3, <1>4, <1>9, <1>11, <1>12, <1>13, <1>14 DEF LoopInv, r, p, m

(* The context is too long.                                                *)
LEMMA ContextErrorStep ==
  ASSUME LoopInv, NEW w \in Workers, LLMContextError(w)
  PROVE  /\ LoopInv' /\ UNCHANGED <<turns, asked, tool, hist>> /\ pc[w] = "llm"
         /\ Moves(w, "compress", [t[w] EXCEPT !.snap = hist[t[w].session]])
         /\ Publish("notice", t[w].chat, t[w].turn) \/ UNCHANGED out
<1>1. /\ pc[w] = "llm" /\ UNCHANGED <<turns, asked, tool, hist, summary, sum>>
      /\ Moves(w, "compress", [t[w] EXCEPT !.snap = hist[t[w].session]])
      /\ Publish("notice", t[w].chat, t[w].turn) \/ UNCHANGED out
  BY DEF LLMContextError, Goto, Moves
<1> DEFINE r == [t[w] EXCEPT !.snap = hist[t[w].session]]
<1>2. r \in TurnRecord /\ r.turn = t[w].turn /\ r.prompt = t[w].prompt
  BY SnapFacts, TurnFacts
<1>3. "compress" \in Steps /\ "compress" \notin {"context", "execute"}
  BY DEF Steps
<1> HIDE DEF r
<1>4. Moves(w, "compress", r)
  BY <1>1 DEF r
<1>5. TurnTypes' /\ PromptInv'
  BY <1>2, <1>3, <1>4, MovedInv, TurnFacts
<1>6. AskedTypes'
  BY <1>1, <1>2, <1>3, <1>4, MovedAsked
<1>7. out' \in Seq(Published)
  BY <1>1, PublishTyped, TurnFacts DEF LoopInv, OutTypes
<1>8. HistTypes' /\ OutTypes' /\ SumTypes'
  BY <1>1, <1>7 DEF LoopInv, HistTypes, OutTypes, SumTypes
<1> QED
  BY <1>1, <1>5, <1>6, <1>8 DEF LoopInv

(* The history is compressed and the prompt rebuilt.                       *)
LEMMA CompressStep ==
  ASSUME LoopInv, NEW w \in Workers, Compress(w)
  PROVE  /\ LoopInv' /\ UNCHANGED <<turns, asked, tool, out>> /\ pc[w] = "compress"
         /\ \E h \in Seq(Messages) :
              /\ h = hist[t[w].session] \/ CutOf(h, t[w].snap)
              /\ hist' = [hist EXCEPT ![t[w].session] = h]
              /\ Moves(w, "llm", Rebuilt(t[w], t[w].retry + 1, BuildMessages(h, <<>>)))
<1> DEFINE s == t[w].session
           h == IF Len(t[w].snap) =< 4 THEN hist[s] ELSE Compressed(t[w].snap)
           p == BuildMessages(h, <<>>)
           r == Rebuilt(t[w], t[w].retry + 1, p)
<1>1. /\ pc[w] = "compress" /\ UNCHANGED <<turns, asked, tool, out, summary, sum>>
      /\ Goto(w, "llm") /\ hist' = [hist EXCEPT ![s] = h]
      /\ t' = [t EXCEPT ![w].snap = <<>>, ![w].retry = @ + 1, ![w].prompt = p]
  BY DEF Compress
<1>2. h = hist[s] \/ CutOf(h, t[w].snap)
  <2>1. CASE Len(t[w].snap) =< 4
    BY <2>1
  <2>2. CASE ~(Len(t[w].snap) =< 4)
    <3>1. Len(t[w].snap) > 4
      BY <2>2, TurnFacts, LenProperties
    <3>2. CutOf(Compressed(t[w].snap), t[w].snap)
      BY <3>1, TurnFacts, CompressedCuts
    <3> QED
      BY <2>2, <3>2
  <2> QED
    BY <2>1, <2>2
<1> HIDE DEF h
<1>3. h \in Seq(Messages)
  BY <1>2, TurnFacts DEF CutOf
<1>4. p \in Seq(Messages) /\ Orphanless(p)
  BY <1>3, BuildFacts
<1> HIDE DEF p
<1>5. t' = [t EXCEPT ![w] = r]
  BY <1>1 DEF LoopInv, TurnTypes, TurnRecord, Rebuilt
<1>6. t[w].retry + 1 \in Nat
  BY TurnFacts
<1>7. r \in TurnRecord /\ r.turn = t[w].turn /\ r.prompt = p
  BY <1>4, <1>6, TurnFacts, RebuiltFacts
<1> HIDE DEF r
<1>8. Moves(w, "llm", r)
  BY <1>1, <1>5 DEF Moves, Goto
<1>9. "llm" \in Steps /\ "llm" \notin {"context", "execute"}
  BY DEF Steps
<1>10. TurnTypes' /\ PromptInv'
  BY <1>4, <1>7, <1>8, <1>9, MovedInv
<1>11. AskedTypes'
  BY <1>1, <1>7, <1>8, <1>9, MovedAsked
<1>12. HistTypes'
  BY <1>1, <1>3 DEF LoopInv, HistTypes
<1>13. OutTypes' /\ SumTypes'
  BY <1>1 DEF LoopInv, OutTypes, SumTypes
<1> QED
  BY <1>1, <1>2, <1>3, <1>8, <1>10, <1>11, <1>12, <1>13 DEF LoopInv, r, p

(* The registry sets the context of a tool.                                *)
LEMMA ToolContextStep ==
  ASSUME LoopInv, NEW w \in Workers, ToolContext(w)
  PROVE  /\ LoopInv' /\ UNCHANGED <<turns, asked, out, hist>> /\ pc[w] = "context"
         /\ Moves(w, "execute", t[w])
         /\ SetContext(t[w].agent, t[w].chat) \/ UNCHANGED tool
<1>1. /\ pc[w] = "context" /\ Goto(w, "execute") /\ UNCHANGED <<t, turns, asked, out, hist, summary, sum>>
      /\ SetContext(t[w].agent, t[w].chat) \/ UNCHANGED tool
  BY DEF ToolContext
<1>2. Moves(w, "execute", t[w])
  BY <1>1 DEF Moves, Goto, LoopInv, TurnTypes
<1>3. "execute" \in Steps
  BY DEF Steps
<1>4. AfterCalls(t[w].prompt) /\ t[w].next \in 1 .. Len(t[w].calls)
  BY <1>1 DEF LoopInv, PromptInv, Calling
<1>5. TurnTypes' /\ PromptInv'
  BY <1>2, <1>3, <1>4, MovedInv, TurnFacts
<1>6. AskedTypes'
  BY <1>1, <1>2, <1>3, MovedAsked, TurnFacts
<1>7. OutTypes'
  <2>1. CASE SetContext(t[w].agent, t[w].chat)
    BY <1>1, <2>1, ContextTyped, TurnFacts DEF LoopInv
  <2>2. CASE UNCHANGED tool
    BY <1>1, <2>2 DEF LoopInv, OutTypes
  <2> QED
    BY <1>1, <2>1, <2>2
<1>8. HistTypes' /\ SumTypes'
  BY <1>1 DEF LoopInv, HistTypes, SumTypes
<1> QED
  BY <1>1, <1>2, <1>5, <1>6, <1>7, <1>8 DEF LoopInv

(* A tool that sends marks the round only with a message of its turn out.  *)
LEMMA ExecuteFacts ==
  ASSUME LoopInv, NEW w \in Workers, NEW c, Execute(w, c)
  PROVE  /\ OutTypes'
         /\ \/ UNCHANGED <<out, tool>>
            \/ \E d \in Targets \cup {NoChat} :
                 Publish("tool", d, t[w].turn) /\ (\A a \in Agents \ {t[w].agent} : tool'[a] = tool[a])
<1> DEFINE a == t[w].agent
<1>1. a \in Agents /\ t[w].turn \in Nat /\ t[w].chat \in Targets
  BY TurnFacts
<1>2. OutTypes
  BY DEF LoopInv
<1>3. ASSUME NEW d \in Targets \cup {NoChat}, MessageSend(a, d, t[w].turn)
      PROVE  /\ OutTypes' /\ Publish("tool", d, t[w].turn)
             /\ \A b \in Agents \ {a} : tool'[b] = tool[b]
  <2>1. Publish("tool", d, t[w].turn) /\ tool' = [tool EXCEPT ![a].sent = TRUE]
    BY <1>3 DEF MessageSend
  <2>2. out' \in Seq(Published)
    BY <1>1, <1>2, <2>1, PublishTyped DEF OutTypes
  <2>3. /\ tool' \in [Agents -> [chat : Targets \cup {NoChat}, sent : BOOLEAN]]
        /\ \A b \in Agents \ {a} : tool'[b] = tool[b]
    BY <1>1, <1>2, <2>1 DEF OutTypes
  <2> QED
    BY <2>1, <2>2, <2>3 DEF OutTypes
<1>4. CASE MessageSend(a, tool[a].chat, t[w].turn)
  <2>1. tool[a].chat \in Targets \cup {NoChat}
    BY <1>1, <1>2 DEF OutTypes
  <2> QED
    BY <1>3, <1>4, <2>1
<1>5. CASE \E d \in Chats : MessageSend(a, d, t[w].turn)
  <2>1. PICK d \in Chats : MessageSend(a, d, t[w].turn)
    BY <1>5
  <2>2. d \in Targets \cup {NoChat}
    BY DEF Targets
  <2> QED
    BY <1>3, <2>1, <2>2
<1>6. CASE UNCHANGED <<out, tool>>
  BY <1>2, <1>6 DEF OutTypes
<1>7. CASE Publish("tool", t[w].chat, t[w].turn) /\ UNCHANGED tool
  <2>1. out' \in Seq(Published)
    BY <1>1, <1>2, <1>7, PublishTyped DEF OutTypes
  <2> QED
    BY <1>1, <1>2, <1>7, <2>1 DEF OutTypes
<1> QED
  BY <1>4, <1>5, <1>6, <1>7 DEF Execute

(* A tool runs, and its result joins the prompt and the session.           *)
LEMMA RunToolStep ==
  ASSUME LoopInv, NEW w \in Workers, RunTool(w)
  PROVE  /\ LoopInv' /\ UNCHANGED <<turns, asked>> /\ pc[w] = "execute"
         /\ Execute(w, t[w].calls[t[w].next])
         /\ AddMessage(t[w].session, ToolResult(t[w].turn, t[w].iter, t[w].next))
         /\ Moves(w, AfterTool(w), ToolDone(w, ToolResult(t[w].turn, t[w].iter, t[w].next)))
<1> DEFINE m == ToolResult(t[w].turn, t[w].iter, t[w].next)
           r == ToolDone(w, m)
           at == AfterTool(w)
<1>1. /\ pc[w] = "execute" /\ UNCHANGED <<turns, asked, summary, sum>>
      /\ Execute(w, t[w].calls[t[w].next]) /\ AddMessage(t[w].session, m)
      /\ Moves(w, at, r)
  BY DEF RunTool, Moves, Goto
<1>2. m \in Messages /\ m.role = "tool"
  BY TurnFacts, MessageFacts
<1> HIDE DEF m
<1>3. /\ r \in TurnRecord /\ r.turn = t[w].turn /\ r.prompt = Append(t[w].prompt, m)
      /\ r.calls = t[w].calls /\ r.next = t[w].next + 1
      /\ at \in {"context", "llm", "finish"} /\ (at = "context" <=> t[w].next < Len(t[w].calls))
  BY <1>2, DoneFacts DEF LoopInv
<1> HIDE DEF r, at
<1>4. AfterCalls(t[w].prompt) /\ t[w].next \in 1 .. Len(t[w].calls)
  BY <1>1 DEF LoopInv, PromptInv, Calling
<1>5. Orphanless(r.prompt) /\ AfterCalls(r.prompt)
  BY <1>2, <1>3, <1>4, TurnFacts, OrphanlessAppend, AfterCallsAppend
<1>6. at = "context" => r.next \in 1 .. Len(r.calls)
  <2>1. Len(t[w].calls) \in Nat
    BY TurnFacts, LenProperties
  <2> QED
    BY <1>3, <1>4, <2>1
<1>7. at \in Steps /\ at # "execute"
  BY <1>3 DEF Steps
<1>8. TurnTypes' /\ PromptInv'
  BY <1>1, <1>3, <1>5, <1>6, <1>7, MovedInv
<1>9. AskedTypes'
  BY <1>1, <1>3, <1>7, MovedAsked
<1>10. HistTypes'
  BY <1>1, <1>2, AddTyped, TurnFacts DEF LoopInv
<1>11. OutTypes'
  BY <1>1, ExecuteFacts
<1>12. SumTypes'
  BY <1>1 DEF LoopInv, SumTypes
<1> QED
  BY <1>1, <1>8, <1>9, <1>10, <1>11, <1>12 DEF LoopInv, r, m, at

(* The final message joins the session; a summarizer may start.            *)
LEMMA FinishStep ==
  ASSUME LoopInv, NEW w \in Workers, NEW tokens \in BOOLEAN, Finish(w, tokens)
  PROVE  /\ LoopInv' /\ UNCHANGED <<turns, asked, tool>> /\ pc[w] = "finish"
         /\ AddMessage(t[w].session, Assistant(t[w].turn, t[w].iter + 1, 0))
         /\ Moves(w, "respond", [t[w] EXCEPT !.resp = "answer"])
         /\ Publish("reply", t[w].chat, t[w].turn) \/ UNCHANGED out
<1> DEFINE m == Assistant(t[w].turn, t[w].iter + 1, 0)
           r == [t[w] EXCEPT !.resp = "answer"]
           s == t[w].session
           z == [NoSummarizer EXCEPT !.at = "notify", !.chat = t[w].chat]
<1>1. /\ pc[w] = "finish" /\ UNCHANGED <<turns, asked, tool, summary>>
      /\ AddMessage(s, m) /\ Moves(w, "respond", r)
      /\ Publish("reply", t[w].chat, t[w].turn) \/ UNCHANGED out
      /\ sum' = [sum EXCEPT ![s] = z] \/ UNCHANGED sum
  BY DEF Finish, Moves, Goto
<1>2. t[w].iter + 1 \in Nat /\ 0 \in Nat
  BY TurnFacts
<1>3. m \in Messages
  BY <1>2, TurnFacts, MessageFacts
<1> HIDE DEF m
<1>4. r \in TurnRecord /\ r.turn = t[w].turn /\ r.prompt = t[w].prompt
  BY TurnFacts, RespFacts DEF Resps
<1> HIDE DEF r
<1>5. "respond" \in Steps /\ "respond" \notin {"context", "execute"}
  BY DEF Steps
<1>6. TurnTypes' /\ PromptInv'
  BY <1>1, <1>4, <1>5, MovedInv, TurnFacts
<1>7. AskedTypes'
  BY <1>1, <1>4, <1>5, MovedAsked
<1>8. HistTypes'
  BY <1>1, <1>3, AddTyped, TurnFacts DEF LoopInv
<1>9. OutTypes'
  <2>1. out' \in Seq(Published)
    BY <1>1, PublishTyped, TurnFacts DEF LoopInv, OutTypes
  <2> QED
    BY <1>1, <2>1 DEF LoopInv, OutTypes
<1>10. SumTypes'
  <2>1. z \in [at : {"none", "notify", "read", "store", "truncate"}, chat : Targets,
               snap : Seq(Messages), covers : SUBSET Messages]
    <3>1. t[w].chat \in Targets /\ <<>> \in Seq(Messages) /\ {} \in SUBSET Messages
      BY TurnFacts
    <3>2. NoSummarizer \in [at : {"none", "notify", "read", "store", "truncate"}, chat : Targets,
                            snap : Seq(Messages), covers : SUBSET Messages]
      BY <3>1 DEF NoSummarizer, Targets
    <3> QED
      BY <3>1, <3>2
  <2>2. s \in Sessions
    BY TurnFacts
  <2>3. sum' = [sum EXCEPT ![s] = z] \/ sum' = sum
    BY <1>1
  <2>4. summary' = summary
    BY <1>1
  <2>5. /\ sum \in [Sessions -> [at : {"none", "notify", "read", "store", "truncate"}, chat : Targets,
                                 snap : Seq(Messages), covers : SUBSET Messages]]
        /\ summary \in [Sessions -> SUBSET Messages]
    BY DEF LoopInv, SumTypes
  <2> HIDE DEF z, s
  <2> QED
    BY <2>1, <2>2, <2>3, <2>4, <2>5 DEF SumTypes
<1> QED
  BY <1>1, <1>6, <1>7, <1>8, <1>9, <1>10 DEF LoopInv, r, m

(* A turn ends.                                                            *)
LEMMA EndFacts ==
  ASSUME LoopInv, NEW w \in Workers, pc[w] # "idle", End(w, t[w].resp), UNCHANGED turns
  PROVE  /\ TurnTypes' /\ PromptInv' /\ AskedTypes' /\ Moves(w, "idle", NoTurn)
         /\ t[w].turn \in 1 .. turns /\ t[w].turn \in 1 .. MaxTurns
         /\ asked'[t[w].turn].kind = asked[t[w].turn].kind
         /\ \A n \in 1 .. MaxTurns : n # t[w].turn => asked'[n] = asked[n]
<1> DEFINE n == t[w].turn
<1>1. Moves(w, "idle", NoTurn)
  BY DEF End, Goto, Moves
<1>2. "idle" \in Steps /\ "idle" \notin {"context", "execute"}
  BY DEF Steps
<1>3. TurnTypes' /\ PromptInv'
  BY <1>1, <1>2, NoTurnFacts, MovedInv
<1>4. turns \in Nat /\ turns <= MaxTurns /\ MaxTurns \in Nat /\ n \in 1 .. turns
  BY LoopAssumption DEF LoopInv, AskedTypes
<1>5. n \in 1 .. MaxTurns
  BY <1>4
<1> HIDE DEF n
<1>6. asked' = [asked EXCEPT ![n].end = t[w].resp]
  BY DEF End, n
<1>7. asked \in [1 .. MaxTurns -> [kind : AskedKinds, chat : Targets, end : Resps \cup {"no"}]]
  BY DEF LoopInv, AskedTypes
<1>8. t[w].resp \in Resps \cup {"no"}
  BY TurnFacts
<1>9. /\ asked' \in [1 .. MaxTurns -> [kind : AskedKinds, chat : Targets, end : Resps \cup {"no"}]]
      /\ asked'[n].kind = asked[n].kind
      /\ \A i \in 1 .. MaxTurns : i # n => asked'[i] = asked[i]
  BY <1>5, <1>6, <1>7, <1>8
<1>10. \A v \in Workers : pc'[v] # "idle" => t'[v].turn \in 1 .. turns
  BY <1>1, <1>2, NoTurnFacts, MoveFacts DEF LoopInv, AskedTypes
<1>11. AskedTypes'
  BY <1>4, <1>9, <1>10 DEF AskedTypes
<1> QED
  BY <1>1, <1>3, <1>4, <1>5, <1>9, <1>11 DEF n

(* Run is done with its turn, or a direct caller with its.                 *)
LEMMA EndStep ==
  ASSUME LoopInv, Respond \/ \E w \in Workers : Return(w)
  PROVE  LoopInv'
<1>1. CASE Respond
  <2>1. /\ pc["run"] = "respond" /\ End("run", t["run"].resp)
        /\ UNCHANGED <<turns, tool, hist, summary, sum>>
        /\ Publish("reply", ReplyChat, t["run"].turn) \/ UNCHANGED out
    BY <1>1 DEF Respond
  <2>2. "run" \in Workers
    BY DEF Workers
  <2>3. TurnTypes' /\ PromptInv' /\ AskedTypes'
    BY <2>1, <2>2, EndFacts
  <2>4. ReplyChat \in Targets \cup {NoChat}
    BY <2>2, TurnFacts DEF ReplyChat, Targets
  <2>5. out' \in Seq(Published)
    BY <2>1, <2>2, <2>4, TurnFacts, PublishTyped DEF LoopInv, OutTypes
  <2>6. HistTypes' /\ OutTypes' /\ SumTypes'
    BY <2>1, <2>5 DEF LoopInv, HistTypes, OutTypes, SumTypes
  <2> QED
    BY <2>3, <2>6 DEF LoopInv
<1>2. ASSUME NEW w \in Workers, Return(w) PROVE LoopInv'
  <2>1. /\ pc[w] = "respond" /\ End(w, t[w].resp)
        /\ UNCHANGED <<turns, tool, out, hist, summary, sum>>
    BY <1>2 DEF Return
  <2>2. TurnTypes' /\ PromptInv' /\ AskedTypes'
    BY <2>1, EndFacts
  <2>3. HistTypes' /\ OutTypes' /\ SumTypes'
    BY <2>1 DEF LoopInv, HistTypes, OutTypes, SumTypes
  <2> QED
    BY <2>2, <2>3 DEF LoopInv
<1> QED
  BY <1>1, <1>2

(* The summarizer of a session.                                            *)
LEMMA SummarizerStepInv ==
  ASSUME LoopInv, NEW s \in Sessions, SummarizerStep(s)
  PROVE  /\ LoopInv' /\ UNCHANGED <<pc, t, turns, asked, tool>>
         /\ UNCHANGED hist \/ hist' = [hist EXCEPT ![s] = KeepLast(hist[s], KeepMessages)]
         /\ UNCHANGED out \/ Publish("notice", sum[s].chat, 0)
<1> DEFINE SumRecord == [at : {"none", "notify", "read", "store", "truncate"}, chat : Targets,
                         snap : Seq(Messages), covers : SUBSET Messages]
           Rest == UNCHANGED <<pc, t, turns, asked, tool>>
<1>1. /\ sum \in [Sessions -> SumRecord] /\ summary \in [Sessions -> SUBSET Messages]
      /\ hist \in [Sessions -> Seq(Messages)] /\ out \in Seq(Published)
  BY DEF LoopInv, SumTypes, HistTypes, OutTypes
<1>2. sum[s] \in SumRecord /\ hist[s] \in Seq(Messages) /\ summary[s] \in SUBSET Messages
  BY <1>1
<1>3. NoSummarizer \in SumRecord
  <2>1. Internal \in Targets /\ <<>> \in Seq(Messages) /\ {} \in SUBSET Messages
    BY DEF Targets
  <2> QED
    BY <2>1 DEF NoSummarizer
<1>4. ASSUME Rest, SumTypes', HistTypes', out' \in Seq(Published) PROVE LoopInv'
  <2>1. TurnTypes' /\ PromptInv' /\ AskedTypes'
    BY <1>4 DEF LoopInv, TurnTypes, PromptInv, Calling, AskedTypes
  <2>2. OutTypes'
    BY <1>4 DEF LoopInv, OutTypes
  <2> QED
    BY <1>4, <2>1, <2>2 DEF LoopInv
<1>5. ASSUME NEW e \in SumRecord, sum' = [sum EXCEPT ![s] = e], UNCHANGED summary PROVE SumTypes'
  BY <1>1, <1>5 DEF SumTypes
<1>6. CASE SumNotify(s)
  <2> DEFINE e == [sum[s] EXCEPT !.at = "read"]
  <2>1. sum' = [sum EXCEPT ![s] = e] /\ Rest /\ UNCHANGED <<hist, summary>>
    BY <1>6 DEF SumNotify, SumStep
  <2>2. e \in SumRecord
    BY <1>2
  <2>3. Publish("notice", sum[s].chat, 0) \/ UNCHANGED out
    BY <1>6 DEF SumNotify
  <2>4. sum[s].chat \in Targets \cup {NoChat} /\ 0 \in Nat
    BY <1>2
  <2>5. out' \in Seq(Published)
    BY <1>1, <2>3, <2>4, PublishTyped
  <2> HIDE DEF e
  <2>6. SumTypes' /\ HistTypes'
    BY <1>1, <1>5, <2>1, <2>2 DEF HistTypes
  <2> QED
    BY <1>4, <2>1, <2>3, <2>5, <2>6
<1>7. CASE SumRead(s)
  <2> DEFINE msgs == ToSummarize(hist[s])
             cov == IF Cardinality(msgs) > SinglePart THEN msgs ELSE msgs \cup summary[s]
             e == [sum[s] EXCEPT !.at = "store", !.snap = hist[s], !.covers = cov]
  <2>1. Rest /\ UNCHANGED <<out, hist, summary>> /\ Len(hist[s]) > KeepMessages
    BY <1>7 DEF SumRead
  <2>2. sum' = [sum EXCEPT ![s] = e]
    BY <1>7 DEF SumRead, SumStep
  <2>3. msgs \in SUBSET Messages
    <3> DEFINE k == Len(hist[s]) - KeepMessages
               u == SubSeq(hist[s], 1, k)
    <3>1. Len(hist[s]) \in Nat /\ KeepMessages \in Nat /\ \A i \in 1 .. Len(hist[s]) : hist[s][i] \in Messages
      BY <1>2, LoopAssumption, LenProperties
    <3>2. 1 \in Int /\ k \in Int /\ k <= Len(hist[s])
      BY <3>1
    <3>3. \A i \in 1 .. k : hist[s][i] \in Messages
      BY <3>1, <3>2
    <3> HIDE DEF k
    <3>4. u \in Seq(Messages)
      BY <3>2, <3>3, SubSeqProperties
    <3> HIDE DEF u
    <3>5. Elements(u) \subseteq Messages
      BY <3>4, LenProperties DEF Elements
    <3> QED
      BY <3>5 DEF ToSummarize, u, k
  <2> HIDE DEF msgs
  <2>4. cov \in SUBSET Messages
    BY <1>2, <2>3
  <2> HIDE DEF cov
  <2>5. e \in SumRecord
    BY <1>2, <2>4
  <2> HIDE DEF e
  <2>6. SumTypes' /\ HistTypes' /\ out' \in Seq(Published)
    BY <1>1, <1>5, <2>1, <2>2, <2>5 DEF HistTypes
  <2> QED
    BY <1>4, <2>1, <2>6
<1>8. CASE SumGiveUp(s)
  <2>1. sum' = [sum EXCEPT ![s] = NoSummarizer] /\ Rest /\ UNCHANGED <<out, hist, summary>>
    BY <1>8 DEF SumGiveUp
  <2>2. SumTypes' /\ HistTypes' /\ out' \in Seq(Published)
    BY <1>1, <1>3, <1>5, <2>1 DEF HistTypes
  <2> QED
    BY <1>4, <2>1, <2>2
<1>9. CASE SumStore(s)
  <2> DEFINE e == [sum[s] EXCEPT !.at = "truncate"]
  <2>1. /\ sum' = [sum EXCEPT ![s] = e] /\ Rest /\ UNCHANGED <<out, hist>>
        /\ summary' = [summary EXCEPT ![s] = sum[s].covers]
    BY <1>9 DEF SumStore, SumStep
  <2>2. e \in SumRecord /\ sum[s].covers \in SUBSET Messages
    BY <1>2
  <2> HIDE DEF e
  <2>3. sum' \in [Sessions -> SumRecord] /\ summary' \in [Sessions -> SUBSET Messages]
    BY <1>1, <2>1, <2>2
  <2>4. SumTypes' /\ HistTypes' /\ out' \in Seq(Published)
    BY <1>1, <2>1, <2>3 DEF SumTypes, HistTypes
  <2> QED
    BY <1>4, <2>1, <2>4
<1>10. CASE SumTruncate(s)
  <2>1. /\ sum' = [sum EXCEPT ![s] = NoSummarizer] /\ Rest /\ UNCHANGED <<out, summary>>
        /\ hist' = [hist EXCEPT ![s] = KeepLast(hist[s], KeepMessages)]
    BY <1>10 DEF SumTruncate, SumStep
  <2>2. KeepMessages \in Nat
    BY LoopAssumption
  <2>3. KeepLast(hist[s], KeepMessages) \in Seq(Messages)
    BY <1>2, <2>2, KeepLastCuts DEF CutOf
  <2>4. SumTypes' /\ HistTypes' /\ out' \in Seq(Published)
    BY <1>1, <1>3, <1>5, <2>1, <2>3 DEF HistTypes
  <2> QED
    BY <1>4, <2>1, <2>4
<1> QED
  BY <1>6, <1>7, <1>8, <1>9, <1>10 DEF SummarizerStep

(* A message arrives from the bus, or a direct caller enters: a turn       *)
(* begins, on the history of its session or on none.                       *)
LEMMA EntryFacts ==
  ASSUME LoopInv, Take \/ Enter
  PROVE  \/ \E kind \in {"command", "system"}, c \in Targets, x \in Resps : TakeUnrouted(kind, c, x)
         \/ \E w \in Workers, kind \in AskedKinds, a \in Agents, c \in Targets, s \in Sessions,
               send \in BOOLEAN, sm \in BOOLEAN, h \in Seq(Messages) :
              /\ Begin(w, kind, a, c, s, send, sm, h)
              /\ h = hist[s] \/ h = <<>>
              /\ kind = "user" => w = "run" /\ a = Route[c] /\ c \in Chats
              /\ w = "run" \/ w \in Directs
<1>0. /\ "run" \in Workers /\ \A c \in Chats : c \in Targets /\ Route[c] \in Agents /\ Session[c] \in Sessions
      /\ DefaultAgent \in Agents /\ \A a \in Agents : MainSession[a] \in Sessions
      /\ \A s \in Sessions : hist[s] \in Seq(Messages)
      /\ \A c \in Targets : DirectRoute[c] \in Agents
      /\ Internal \in Targets /\ "heartbeat" \in Sessions /\ <<>> \in Seq(Messages)
      /\ Directs \subseteq Workers /\ Directs \subseteq {"cron", "heartbeat", "api"}
  BY LoopAssumption DEF LoopInv, HistTypes, Workers, Targets
<1>1. {"user", "system", "command", "cron", "heartbeat", "api"} \subseteq AskedKinds
      /\ "command" \in Resps /\ "none" \in Resps
  BY DEF AskedKinds, Resps
<1>2. ASSUME NEW c \in Chats, TakeUser(c)
      PROVE  Begin("run", "user", Route[c], c, Session[c], FALSE, TRUE, hist[Session[c]])
  BY <1>2 DEF TakeUser
<1>3. ASSUME NEW c \in Chats, TakeSystem(c)
      PROVE  Begin("run", "system", DefaultAgent, c, MainSession[DefaultAgent], TRUE, FALSE,
                   hist[MainSession[DefaultAgent]])
  BY <1>3 DEF TakeSystem
<1>4. ASSUME NEW c \in Chats, TakeCommand(c) PROVE TakeUnrouted("command", c, "command")
  BY <1>4 DEF TakeCommand
<1>5. ASSUME TakeSystemInternal PROVE TakeUnrouted("system", Internal, "none")
  BY <1>5 DEF TakeSystemInternal
<1>6. ASSUME NEW c \in Targets, Heartbeat(c)
      PROVE  /\ "heartbeat" \in Directs
             /\ Begin("heartbeat", "heartbeat", DefaultAgent, c, "heartbeat", FALSE, FALSE, <<>>)
  BY <1>6 DEF Heartbeat
<1>7. ASSUME NEW c \in Targets, NEW w \in Directs, DirectMessage(w, c)
      PROVE  /\ w \in {"cron", "api"}
             /\ Begin(w, w, DirectRoute[c], c, MainSession[DirectRoute[c]], FALSE, TRUE,
                      hist[MainSession[DirectRoute[c]]])
  BY <1>7 DEF DirectMessage
<1>8. CASE \E c \in Chats : TakeUser(c)
  <2>1. PICK c \in Chats : TakeUser(c)
    BY <1>8
  <2> QED
    BY <1>0, <1>1, <1>2, <2>1
<1>9. CASE \E c \in Chats : TakeSystem(c)
  <2>1. PICK c \in Chats : TakeSystem(c)
    BY <1>9
  <2> QED
    BY <1>0, <1>1, <1>3, <2>1
<1>10. CASE \E c \in Chats : TakeCommand(c)
  BY <1>0, <1>1, <1>4, <1>10
<1>11. CASE TakeSystemInternal
  BY <1>0, <1>1, <1>5, <1>11
<1>12. CASE \E c \in Targets : Heartbeat(c)
  <2>1. PICK c \in Targets : Heartbeat(c)
    BY <1>12
  <2> QED
    BY <1>0, <1>1, <1>6, <2>1
<1>13. CASE \E c \in Targets : \E w \in Directs : DirectMessage(w, c)
  <2>1. PICK c \in Targets, w \in Directs : DirectMessage(w, c)
    BY <1>13
  <2>2. DirectRoute[c] \in Agents /\ w \in Workers /\ w \in AskedKinds /\ w # "user"
    BY <1>0, <1>1, <1>7, <2>1
  <2> QED
    BY <1>0, <1>1, <1>7, <2>1, <2>2
<1> QED
  BY <1>8, <1>9, <1>10, <1>11, <1>12, <1>13 DEF Take, Enter

(* Every step keeps the invariant.                                         *)
LEMMA LoopNext ==
  ASSUME LoopInv, [Next]_vars PROVE LoopInv'
<1>1. CASE Take \/ Enter
  <2>1. {"command", "system"} \subseteq AskedKinds
    BY DEF AskedKinds
  <2>2. CASE \E kind \in {"command", "system"}, c \in Targets, x \in Resps : TakeUnrouted(kind, c, x)
    BY <2>1, <2>2, UnroutedStep
  <2>3. ASSUME NEW w \in Workers, NEW kind \in AskedKinds, NEW a \in Agents, NEW c \in Targets,
               NEW s \in Sessions, NEW send \in BOOLEAN, NEW sm \in BOOLEAN,
               NEW h \in Seq(Messages), Begin(w, kind, a, c, s, send, sm, h)
        PROVE  LoopInv'
    BY <2>3, BeginStep
  <2> QED
    BY <1>1, <2>2, <2>3, EntryFacts
<1>2. CASE Respond
  BY <1>2, EndStep
<1>3. ASSUME NEW w \in Workers, WorkerStep(w) PROVE LoopInv'
  BY <1>3, AddUserStep, ResponseStep, CallsStep, ContextErrorStep, CompressStep,
     ToolContextStep, RunToolStep, FinishStep, EndStep DEF WorkerStep
<1>4. ASSUME NEW s \in Sessions, SummarizerStep(s) PROVE LoopInv'
  BY <1>4, SummarizerStepInv
<1>5. CASE UNCHANGED vars
  BY <1>5 DEF vars, LoopInv, TurnTypes, PromptInv, Calling, HistTypes, OutTypes, AskedTypes, SumTypes
<1> QED
  BY <1>1, <1>2, <1>3, <1>4, <1>5 DEF Next

(* The shape of the loop's state, and what every prompt satisfies, for any *)
(* agents, chats, sessions, workers and bounds (loop.go:32-61).            *)
THEOREM LoopInvariant == Spec => []LoopInv
<1>1. Init => LoopInv
  BY LoopInit
<1>2. LoopInv /\ [Next]_vars => LoopInv'
  BY LoopNext
<1> QED
  BY <1>1, <1>2, PTL DEF Spec

(* No prompt ever holds a tool result that does not follow the message     *)
(* with its calls: whoever shares the session, however the summarizer and  *)
(* forceCompression cut it, for any number of workers, calls, iterations   *)
(* and retries (context.go:495-516).                                       *)
THEOREM LoopNoOrphanResults == Spec => []NoOrphanResults
<1>1. LoopInv => NoOrphanResults
  <2> SUFFICES ASSUME LoopInv, NEW w \in Workers, NEW i \in DOMAIN t[w].prompt,
                      t[w].prompt[i].role = "tool"
               PROVE  AfterCalls(SubSeq(t[w].prompt, 1, i - 1))
    BY DEF NoOrphanResults
  <2> QED
    BY TurnFacts, OrphanlessMeans
<1> QED
  BY <1>1, LoopInvariant, PTL

-------------------------------------------------------------------------------
(* Turns one after another: every prompt is one the provider accepts       *)

(* The message whose calls the turn in progress works on.                  *)
Current == Assistant(t["run"].turn, t["run"].iter, Len(t["run"].calls))

SnapGood == Good(2, t["run"].snap) /\ Closed(2, t["run"].snap)

(* Between the calls of a turn, and between turns: everything but what a   *)
(* cut has left in front of a history has its results.                     *)
Quiet ==
  /\ \A s \in Sessions : Good(2, hist[s]) /\ Closed(2, hist[s])
  /\ SnapGood
  /\ Good(1, t["run"].prompt) /\ Closed(1, t["run"].prompt)

(* While Run works on calls: those, in its session and its prompt, are the *)
(* only ones that may miss results.                                        *)
Busy ==
  /\ \A s \in Sessions : Good(2, hist[s]) /\ (s # t["run"].session => Closed(2, hist[s]))
  /\ Pends(2, hist[t["run"].session], Current, t["run"].next - 1)
  /\ SnapGood
  /\ Good(1, t["run"].prompt) /\ Pends(1, t["run"].prompt, Current, t["run"].next - 1)

HistoryInv == IF Calling("run") THEN Busy ELSE Quiet

(* Calls join a history: they are all that is open.                        *)
LEMMA CallsAppend ==
  ASSUME NEW lo \in Nat \ {0}, NEW h \in Seq(Messages), Good(lo, h), Closed(lo, h),
         NEW m \in Messages, HasCalls(m)
  PROVE  Good(lo, Append(h, m)) /\ Pends(lo, Append(h, m), m, 0)
<1> DEFINE q == Append(h, m)
           L == Len(h)
<1>1. L \in Nat /\ Len(q) = L + 1 /\ q[L + 1] = m
  BY AppendFacts
<1>2. m.role # "tool"
  BY DEF HasCalls
<1>3. Good(lo, q)
  BY <1>2, GoodAppendPlain
<1> HIDE DEF q, L
<1>4. ASSUME NEW p \in lo .. L + 1, Open(q, p) PROVE q[p] = m /\ Len(q) - p = 0
  <2>1. p = L + 1
    <3>1. SUFFICES ASSUME p # L + 1 PROVE FALSE
      OBVIOUS
    <3>2. L + 1 \in p + 1 .. Len(q)
      BY <1>1, <3>1
    <3> QED
      BY <1>1, <1>2, <1>4, <3>2 DEF Open
  <2> QED
    BY <1>1, <2>1
<1>5. Pends(lo, q, m, 0)
  BY <1>1, <1>4 DEF Pends
<1> QED
  BY <1>3, <1>5 DEF q

(* The next result joins: the calls are open until the last one.           *)
LEMMA ResultAppend ==
  ASSUME NEW lo \in Nat \ {0}, NEW h \in Seq(Messages), NEW a \in Nat, NEW b \in Nat,
         NEW n \in Nat, NEW k \in 1 .. n, Good(lo, h), Pends(lo, h, Assistant(a, b, n), k - 1)
  PROVE  /\ Good(lo, Append(h, ToolResult(a, b, k)))
         /\ Pends(lo, Append(h, ToolResult(a, b, k)), Assistant(a, b, n), k)
         /\ k = n => Closed(lo, Append(h, ToolResult(a, b, k)))
<1> DEFINE m == ToolResult(a, b, k)
           c == Assistant(a, b, n)
           q == Append(h, m)
           L == Len(h)
<1>1. k \in Nat /\ m \in Messages /\ m.role = "tool" /\ m.turn = a /\ m.iter = b /\ ~HasCalls(m)
  BY DEF ToolResult, Messages, Roles, HasCalls
<1>2. c.turn = a /\ c.iter = b /\ c.n = n
  BY DEF Assistant
<1> HIDE DEF c
<1>3. /\ L \in Nat /\ Len(q) = L + 1 /\ q[L + 1] = m /\ q \in Seq(Messages)
      /\ \A i \in 1 .. L : q[i] = h[i]
  BY <1>1, AppendFacts
<1> HIDE DEF q, L
<1>4. ASSUME NEW p \in lo .. L, Open(h, p) PROVE Fits(h, p, m)
  <2>1. h[p] = c /\ L - p = k - 1
    BY <1>4 DEF Pends, L, c
  <2>2. L + 1 - p = k
    BY <1>1, <1>3, <2>1
  <2>3. m = ToolResult(h[p].turn, h[p].iter, L + 1 - p)
    BY <1>2, <2>1, <2>2
  <2> QED
    BY <1>1, <1>2, <2>1, <2>3 DEF Fits, L
<1> HIDE DEF m
<1>5. Good(lo, q)
  BY <1>1, <1>4, GoodAppend DEF q, L
<1>6. ASSUME NEW p \in lo .. Len(q), Open(q, p) PROVE q[p] = c /\ Len(q) - p = k
  <2>1. p # L + 1
    BY <1>1, <1>3, <1>6 DEF Open
  <2>2. p \in lo .. L /\ p \in 1 .. L /\ \A i \in p + 1 .. L : i \in p + 1 .. Len(q) /\ i \in 1 .. L
    BY <1>3, <2>1
  <2>3. Open(h, p)
    BY <1>3, <1>6, <2>2 DEF Open, L
  <2>4. h[p] = c /\ L - p = k - 1
    BY <2>2, <2>3 DEF Pends, L, c
  <2> QED
    BY <1>1, <1>3, <2>2, <2>4
<1>7. ASSUME k = n, NEW p \in lo .. Len(q), HasCalls(q[p]) PROVE p + q[p].n <= Len(q)
  <2>1. SUFFICES ASSUME ~(p + q[p].n <= Len(q)) PROVE FALSE
    OBVIOUS
  <2>2. p \in 1 .. Len(q)
    BY <1>3
  <2>3. q[p] \in Messages
    BY <1>3, <2>2, ElementOfSeq
  <2>4. q[p].n \in Nat
    BY <2>3, FieldFacts
  <2>5. Len(q) <= p + q[p].n
    BY <1>3, <2>1, <2>2, <2>4
  <2>6. Answers(q, p)
    BY <1>5, <1>7 DEF Good
  <2>7. Open(q, p)
    BY <1>3, <1>7, <2>2, <2>5, <2>6, UnansweredOpen
  <2>8. q[p].n = n /\ Len(q) - p = n
    BY <1>2, <1>6, <1>7, <2>7
  <2> QED
    BY <1>3, <2>1, <2>2, <2>8
<1> QED
  BY <1>5, <1>6, <1>7 DEF Pends, Closed, q, m, c

(* An empty history is good.                                               *)
LEMMA EmptyGood == \A lo \in Nat \ {0} : Good(lo, <<>>) /\ Closed(lo, <<>>)
<1>1. \A lo \in Nat \ {0} : \A p \in lo .. Len(<<>>) : FALSE
  OBVIOUS
<1> QED
  BY <1>1 DEF Good, Closed

(* Steps that no call waits for: what Run does outside its calls.          *)
LEMMA QuietStep ==
  ASSUME LoopInv, Quiet, NEW at \in Steps \ {"context", "execute"}, NEW r \in TurnRecord,
         Moves("run", at, r), Good(2, r.snap), Closed(2, r.snap),
         Good(1, r.prompt), Closed(1, r.prompt),
         \A s \in Sessions : Good(2, hist'[s]) /\ Closed(2, hist'[s])
  PROVE  HistoryInv'
<1>1. "run" \in Workers
  BY DEF Workers
<1>2. pc'["run"] = at /\ t'["run"] = r
  BY <1>1, MoveFacts DEF LoopInv
<1> QED
  BY <1>2 DEF HistoryInv, Calling, Quiet, SnapGood

(* A plain message in the session of a turn.                               *)
LEMMA QuietAdd ==
  ASSUME LoopInv, Quiet, NEW s \in Sessions, NEW m \in Messages, m.role # "tool", ~HasCalls(m),
         AddMessage(s, m)
  PROVE  \A z \in Sessions : Good(2, hist'[z]) /\ Closed(2, hist'[z])
<1>1. hist'[s] = Append(hist[s], m) /\ \A z \in Sessions \ {s} : hist'[z] = hist[z]
  BY AddTyped DEF LoopInv
<1>2. hist[s] \in Seq(Messages) /\ Good(2, hist[s]) /\ Closed(2, hist[s])
  BY DEF LoopInv, HistTypes, Quiet
<1>3. Good(2, Append(hist[s], m)) /\ Closed(2, Append(hist[s], m))
  BY <1>2, GoodAppendPlain
<1> QED
  BY <1>1, <1>3 DEF Quiet

(* The LLM calls tools.                                                    *)
LEMMA HistoryCalls ==
  ASSUME LoopInv, HistoryInv, LLMCallsTools("run") PROVE HistoryInv'
<1>0. "run" \in Workers
  BY DEF Workers
<1>1. pc["run"] = "llm"
  BY <1>0, CallsStep
<1>2. Quiet
  BY <1>1 DEF HistoryInv, Calling
<1> DEFINE r0 == t["run"]
           M(cs) == Assistant(r0.turn, r0.iter, Len(cs))
<1>3. PICK cs \in Seq(Calls) :
         /\ Len(cs) \in Nat \ {0}
         /\ AddMessage(r0.session, M(cs))
         /\ Moves("run", "context", Called(r0, cs, Append(r0.prompt, M(cs))))
  BY <1>0, CallsStep
<1> DEFINE m == M(cs)
           p == Append(r0.prompt, m)
           r == Called(r0, cs, p)
<1>4. /\ r0 \in TurnRecord /\ r0.prompt \in Seq(Messages) /\ r0.session \in Sessions
      /\ r0.turn \in Nat /\ r0.iter \in Nat /\ hist[r0.session] \in Seq(Messages)
  BY <1>0, TurnFacts
<1>5. m \in Messages /\ HasCalls(m)
  <2>1. m \in Messages /\ m.role = "assistant" /\ m.n = Len(cs)
    <3>1. Len(cs) \in Nat
      BY <1>3
    <3>2. r0.turn \in Nat /\ r0.iter \in Nat
      BY <1>4
    <3> HIDE DEF r0
    <3> QED
      BY <3>1, <3>2 DEF Assistant, Messages, Roles
  <2>2. Len(cs) > 0
    BY <1>3
  <2> QED
    BY <2>1, <2>2 DEF HasCalls
<1>6. p \in Seq(Messages) /\ Good(1, p) /\ Pends(1, p, m, 0)
  BY <1>2, <1>4, <1>5, AppendFacts, CallsAppend DEF Quiet
<1>7. /\ Good(2, Append(hist[r0.session], m)) /\ Pends(2, Append(hist[r0.session], m), m, 0)
  BY <1>2, <1>4, <1>5, CallsAppend DEF Quiet
<1>8. /\ hist'[r0.session] = Append(hist[r0.session], m)
      /\ \A z \in Sessions \ {r0.session} : hist'[z] = hist[z]
  BY <1>3, <1>4, <1>5, AddTyped DEF LoopInv
<1>9. /\ r \in TurnRecord /\ r.turn = r0.turn /\ r.session = r0.session /\ r.iter = r0.iter
      /\ r.calls = cs /\ r.next = 1 /\ r.prompt = p /\ r.snap = r0.snap
  <2> HIDE DEF p, r0, m
  <2> QED
    BY <1>3, <1>4, <1>6, CalledFacts
<1>10. m = Assistant(r.turn, r.iter, Len(r.calls)) /\ r.next - 1 = 0
  BY <1>9
<1>11. Moves("run", "context", r) /\ "context" \in Steps
  BY <1>3 DEF Steps
<1> HIDE DEF r, p, m
<1>12. pc'["run"] = "context" /\ t'["run"] = r
  BY <1>0, <1>9, <1>11, MoveFacts DEF LoopInv
<1>13. Good(2, r.snap) /\ Closed(2, r.snap)
  BY <1>2, <1>9 DEF Quiet, SnapGood
<1>14. \A s \in Sessions : Good(2, hist'[s]) /\ (s # r.session => Closed(2, hist'[s]))
  BY <1>2, <1>7, <1>8, <1>9 DEF Quiet
<1>15. Current' = m /\ t'["run"].next - 1 = 0
  BY <1>10, <1>12 DEF Current
<1>16. Pends(2, hist'[r.session], m, 0) /\ Good(1, r.prompt) /\ Pends(1, r.prompt, m, 0)
  BY <1>6, <1>7, <1>8, <1>9
<1>17. Busy'
  BY <1>12, <1>13, <1>14, <1>15, <1>16 DEF Busy, SnapGood
<1> QED
  BY <1>12, <1>17 DEF HistoryInv, Calling

(* A tool runs.                                                            *)
LEMMA HistoryTool ==
  ASSUME LoopInv, HistoryInv, RunTool("run") PROVE HistoryInv'
<1>0. "run" \in Workers
  BY DEF Workers
<1> DEFINE r0 == t["run"]
           m == ToolResult(r0.turn, r0.iter, r0.next)
           r == ToolDone("run", m)
           at == AfterTool("run")
           s == r0.session
<1>1. pc["run"] = "execute" /\ AddMessage(s, m) /\ Moves("run", at, r)
  BY <1>0, RunToolStep
<1>2. Busy
  BY <1>1 DEF HistoryInv, Calling
<1>3. /\ r0 \in TurnRecord /\ r0.prompt \in Seq(Messages) /\ s \in Sessions
      /\ r0.turn \in Nat /\ r0.iter \in Nat /\ hist[s] \in Seq(Messages) /\ r0.next \in Nat
      /\ r0.calls \in Seq(Calls)
  BY <1>0, TurnFacts
<1>4. r0.next \in 1 .. Len(r0.calls) /\ Len(r0.calls) \in Nat
  BY <1>0, <1>1, <1>3, LenProperties DEF LoopInv, PromptInv, Calling
<1>5. m \in Messages
  BY <1>3, MessageFacts
<1> DEFINE q == Append(hist[s], m)
           p == Append(r0.prompt, m)
<1>6. /\ Good(2, q) /\ Pends(2, q, Current, r0.next)
      /\ r0.next = Len(r0.calls) => Closed(2, q)
  <2> DEFINE a == r0.turn
             b == r0.iter
             n == Len(r0.calls)
             k == r0.next
             h == hist[s]
  <2>1. /\ h \in Seq(Messages) /\ a \in Nat /\ b \in Nat /\ n \in Nat /\ k \in 1 .. n
        /\ Good(2, h) /\ Pends(2, h, Assistant(a, b, n), k - 1)
    BY <1>2, <1>3, <1>4 DEF Busy, Current
  <2>2. q = Append(h, ToolResult(a, b, k))
    OBVIOUS
  <2> HIDE DEF a, b, n, k, h, q
  <2>3. /\ Good(2, q) /\ Pends(2, q, Assistant(a, b, n), k)
        /\ k = n => Closed(2, q)
    BY <2>1, <2>2, ResultAppend
  <2> QED
    BY <2>3 DEF Current, r0, a, b, n, k
<1>7. /\ Good(1, p) /\ Pends(1, p, Current, r0.next)
      /\ r0.next = Len(r0.calls) => Closed(1, p)
  <2> DEFINE a == r0.turn
             b == r0.iter
             n == Len(r0.calls)
             k == r0.next
             h == r0.prompt
  <2>1. /\ h \in Seq(Messages) /\ a \in Nat /\ b \in Nat /\ n \in Nat /\ k \in 1 .. n
        /\ Good(1, h) /\ Pends(1, h, Assistant(a, b, n), k - 1)
    BY <1>2, <1>3, <1>4 DEF Busy, Current
  <2>2. p = Append(h, ToolResult(a, b, k))
    OBVIOUS
  <2> HIDE DEF a, b, n, k, h, p
  <2>3. /\ Good(1, p) /\ Pends(1, p, Assistant(a, b, n), k)
        /\ k = n => Closed(1, p)
    BY <2>1, <2>2, ResultAppend
  <2> QED
    BY <2>3 DEF Current, r0, a, b, n, k
<1> HIDE DEF m
<1>8. /\ r \in TurnRecord /\ r.turn = r0.turn /\ r.session = s /\ r.calls = r0.calls
      /\ r.next = r0.next + 1 /\ r.prompt = p /\ r.snap = r0.snap
      /\ at = "context" => r.iter = r0.iter
      /\ at \in {"context", "llm", "finish"} /\ (at = "context" <=> r0.next < Len(r0.calls))
  BY <1>0, <1>5, DoneFacts DEF LoopInv
<1>9. hist'[s] = q /\ \A z \in Sessions \ {s} : hist'[z] = hist[z]
  BY <1>1, <1>3, <1>5, AddTyped DEF LoopInv
<1> HIDE DEF r, at, p, q
<1>10. at \in Steps
  BY <1>8 DEF Steps
<1>11. pc'["run"] = at /\ t'["run"] = r
  BY <1>0, <1>1, <1>8, <1>10, MoveFacts DEF LoopInv
<1>12. SnapGood'
  BY <1>2, <1>8, <1>11 DEF Busy, SnapGood
<1>13. \A z \in Sessions : Good(2, hist'[z]) /\ (z # s => Closed(2, hist'[z]))
  BY <1>2, <1>6, <1>9 DEF Busy
<1>14. CASE at = "context"
  <2>1. Current' = Current
    BY <1>8, <1>11, <1>14 DEF Current
  <2>2. t'["run"].next - 1 = r0.next
    BY <1>3, <1>8, <1>11
  <2>3. Busy'
    BY <1>6, <1>7, <1>8, <1>9, <1>11, <1>12, <1>13, <2>1, <2>2 DEF Busy
  <2> QED
    BY <1>11, <1>14, <2>3 DEF HistoryInv, Calling
<1>15. CASE at # "context"
  <2>1. r0.next = Len(r0.calls)
    BY <1>4, <1>8, <1>15
  <2>2. \A z \in Sessions : Closed(2, hist'[z])
    BY <1>6, <1>9, <1>13, <2>1
  <2>3. Quiet'
    BY <1>7, <1>8, <1>11, <1>12, <1>13, <2>1, <2>2 DEF Quiet
  <2> QED
    BY <1>8, <1>11, <1>15, <2>3 DEF HistoryInv, Calling
<1> QED
  BY <1>14, <1>15

(* The summarizer cuts a history, whatever Run is doing.                   *)
LEMMA HistorySummarizer ==
  ASSUME LoopInv, HistoryInv, NEW s \in Sessions, SummarizerStep(s) PROVE HistoryInv'
<1>1. /\ UNCHANGED <<pc, t>>
      /\ UNCHANGED hist \/ hist' = [hist EXCEPT ![s] = KeepLast(hist[s], KeepMessages)]
  BY SummarizerStepInv
<1>2. hist[s] \in Seq(Messages) /\ KeepMessages \in Nat /\ DOMAIN hist = Sessions
  BY LoopAssumption DEF LoopInv, HistTypes
<1> DEFINE q == KeepLast(hist[s], KeepMessages)
<1>3. /\ Good(2, hist[s]) => Good(2, q)
      /\ Closed(2, hist[s]) => Closed(2, q)
      /\ \A m, k : Pends(2, hist[s], m, k) => Pends(2, q, m, k)
  BY <1>2, KeepLastCuts, CutOfGood
<1> HIDE DEF q
<1>4. \A z \in Sessions : \/ hist'[z] = hist[z]
                          \/ z = s /\ hist'[z] = q
  BY <1>1, <1>2 DEF q
<1>5. \A z \in Sessions : /\ Good(2, hist[z]) => Good(2, hist'[z])
                          /\ Closed(2, hist[z]) => Closed(2, hist'[z])
                          /\ \A m, k : Pends(2, hist[z], m, k) => Pends(2, hist'[z], m, k)
  BY <1>3, <1>4
<1>6. t["run"].session \in Sessions
  BY TurnFacts DEF Workers
<1>7. Current' = Current /\ (SnapGood <=> SnapGood') /\ (Calling("run") <=> Calling("run")')
  BY <1>1 DEF Current, SnapGood, Calling
<1>8. Busy => Busy'
  BY <1>1, <1>5, <1>6, <1>7 DEF Busy
<1>9. Quiet => Quiet'
  BY <1>1, <1>5, <1>7 DEF Quiet
<1> QED
  BY <1>7, <1>8, <1>9 DEF HistoryInv

(* A turn begins, or a message is answered without one.                    *)
LEMMA HistoryEntry ==
  ASSUME Directs = {}, LoopInv, HistoryInv, Take \/ Enter PROVE HistoryInv'
<1>0. "run" \in Workers /\ Workers = {"run"}
  BY DEF Workers
<1>1. CASE \E kind \in {"command", "system"}, c \in Targets, x \in Resps : TakeUnrouted(kind, c, x)
  <2>1. PICK kind \in {"command", "system"}, c \in Targets, x \in Resps : TakeUnrouted(kind, c, x)
    BY <1>1
  <2>2. kind \in AskedKinds
    BY DEF AskedKinds
  <2> DEFINE r == [NoTurn EXCEPT !.turn = turns + 1, !.chat = c, !.resp = x]
  <2>3. Moves("run", "respond", r) /\ pc["run"] = "idle" /\ UNCHANGED hist
    BY <2>1, <2>2, UnroutedStep DEF TakeUnrouted
  <2>4. turns + 1 \in Nat
    BY DEF LoopInv, AskedTypes
  <2>5. r \in TurnRecord /\ r.prompt = <<>> /\ r.snap = <<>>
    <3> HIDE DEF NoTurn
    <3> QED
      BY <2>4, NoTurnFacts DEF TurnRecord
  <2> HIDE DEF r
  <2>6. Quiet
    BY <2>3 DEF HistoryInv, Calling
  <2>7. "respond" \in Steps \ {"context", "execute"}
    BY DEF Steps
  <2>8. \A s \in Sessions : Good(2, hist'[s]) /\ Closed(2, hist'[s])
    BY <2>3, <2>6 DEF Quiet
  <2> QED
    BY <2>3, <2>5, <2>6, <2>7, <2>8, EmptyGood, QuietStep
<1>2. ASSUME NEW w \in Workers, NEW kind \in AskedKinds, NEW a \in Agents, NEW c \in Targets,
             NEW s \in Sessions, NEW send \in BOOLEAN, NEW sm \in BOOLEAN,
             NEW h \in Seq(Messages), Begin(w, kind, a, c, s, send, sm, h),
             h = hist[s] \/ h = <<>>
      PROVE  HistoryInv'
  <2> DEFINE n == turns + 1
             p == BuildMessages(h, <<User(n)>>)
             r == Started(n, a, c, s, send, sm, p)
  <2>1. w = "run"
    BY <1>0
  <2>2. Moves("run", "adduser", r)
    BY <1>2, <2>1, BeginStep
  <2>3. pc["run"] = "idle" /\ UNCHANGED hist
    BY <1>2, <2>1 DEF Begin
  <2>4. n \in Nat
    BY DEF LoopInv, AskedTypes
  <2> HIDE DEF n
  <2>5. Quiet
    BY <2>3 DEF HistoryInv, Calling
  <2>6. Good(2, h) /\ Closed(2, h)
    BY <1>2, <2>5, EmptyGood DEF Quiet
  <2>7. p \in Seq(Messages) /\ Good(1, p) /\ Closed(1, p)
    BY <2>4, <2>6, BuildFacts, BuildGood
  <2> HIDE DEF p
  <2>8. r \in TurnRecord /\ r.prompt = p /\ r.snap = <<>>
    BY <2>4, <2>7, StartedFacts
  <2> HIDE DEF r
  <2>9. "adduser" \in Steps \ {"context", "execute"}
    BY DEF Steps
  <2>10. \A z \in Sessions : Good(2, hist'[z]) /\ Closed(2, hist'[z])
    BY <2>3, <2>5 DEF Quiet
  <2> QED
    BY <2>2, <2>5, <2>7, <2>8, <2>9, <2>10, EmptyGood, QuietStep
<1> QED
  BY <1>1, <1>2, EntryFacts

(* The other steps of a turn.                                              *)
LEMMA HistoryWorker ==
  ASSUME LoopInv, HistoryInv, WorkerStep("run"), ~LLMCallsTools("run"), ~RunTool("run"),
         ~Return("run")
  PROVE  HistoryInv'
<1>0. "run" \in Workers
  BY DEF Workers
<1> DEFINE r0 == t["run"]
<1>1. /\ r0 \in TurnRecord /\ r0.prompt \in Seq(Messages) /\ r0.session \in Sessions
      /\ r0.snap \in Seq(Messages) /\ r0.retry + 1 \in Nat /\ r0.iter + 1 \in Nat
      /\ r0.turn \in Nat /\ hist[r0.session] \in Seq(Messages) /\ r0.chat \in Targets
  BY <1>0, TurnFacts
<1>2. {"llm", "compress", "finish", "respond"} \subseteq Steps \ {"context", "execute"}
  BY DEF Steps
<1>3. Quiet => /\ Good(2, r0.snap) /\ Closed(2, r0.snap) /\ Good(1, r0.prompt) /\ Closed(1, r0.prompt)
               /\ \A s \in Sessions : Good(2, hist[s]) /\ Closed(2, hist[s])
  BY DEF Quiet, SnapGood
<1>4. CASE AddUser("run")
  <2>1. /\ pc["run"] = "adduser" /\ AddMessage(r0.session, User(r0.turn)) /\ Moves("run", "llm", r0)
    BY <1>0, <1>4, AddUserStep DEF AddUser
  <2>2. Quiet
    BY <2>1 DEF HistoryInv, Calling
  <2>3. User(r0.turn) \in Messages /\ User(r0.turn).role # "tool" /\ ~HasCalls(User(r0.turn))
    BY <1>1 DEF User, Messages, Roles, HasCalls
  <2>4. \A z \in Sessions : Good(2, hist'[z]) /\ Closed(2, hist'[z])
    BY <1>1, <2>1, <2>2, <2>3, QuietAdd
  <2> HIDE DEF r0
  <2> QED
    BY <1>1, <1>2, <1>3, <2>1, <2>2, <2>4, QuietStep
<1>5. CASE LLMAnswers("run") \/ LLMFails("run")
  <2>1. pc["run"] = "llm" /\ UNCHANGED hist
    BY <1>0, <1>5, ResponseStep
  <2>2. PICK x \in Resps, at \in {"finish", "respond"} : Moves("run", at, [r0 EXCEPT !.resp = x])
    BY <1>0, <1>5, ResponseStep
  <2> DEFINE r == [r0 EXCEPT !.resp = x]
  <2>3. r \in TurnRecord /\ r.prompt = r0.prompt /\ r.snap = r0.snap
    BY <1>1, RespFacts
  <2>4. Moves("run", at, r)
    BY <2>2
  <2> HIDE DEF r, r0
  <2>5. Quiet
    BY <2>1 DEF HistoryInv, Calling
  <2> QED
    BY <1>2, <1>3, <2>1, <2>3, <2>4, <2>5, QuietStep
<1>6. CASE LLMContextError("run")
  <2> DEFINE r == [r0 EXCEPT !.snap = hist[r0.session]]
  <2>1. pc["run"] = "llm" /\ UNCHANGED hist /\ Moves("run", "compress", r)
    BY <1>0, <1>6, ContextErrorStep
  <2>2. r \in TurnRecord /\ r.prompt = r0.prompt /\ r.snap = hist[r0.session]
    BY <1>1, SnapFacts
  <2> HIDE DEF r
  <2>3. Quiet
    BY <2>1 DEF HistoryInv, Calling
  <2>4. Good(2, r.snap) /\ Closed(2, r.snap) /\ Good(1, r.prompt) /\ Closed(1, r.prompt)
    BY <1>1, <1>3, <2>2, <2>3
  <2> QED
    BY <1>2, <1>3, <2>1, <2>2, <2>3, <2>4, QuietStep
<1>7. CASE Compress("run")
  <2>1. pc["run"] = "compress"
    BY <1>0, <1>7, CompressStep
  <2>2. Quiet
    BY <2>1 DEF HistoryInv, Calling
  <2>3. PICK h \in Seq(Messages) :
           /\ h = hist[r0.session] \/ CutOf(h, r0.snap)
           /\ hist' = [hist EXCEPT ![r0.session] = h]
           /\ Moves("run", "llm", Rebuilt(r0, r0.retry + 1, BuildMessages(h, <<>>)))
    BY <1>0, <1>7, CompressStep
  <2>4. Good(2, h) /\ Closed(2, h)
    BY <1>1, <1>3, <2>2, <2>3, CutOfGood
  <2> DEFINE k == r0.retry + 1
             p == BuildMessages(h, <<>>)
             r == Rebuilt(r0, k, p)
  <2>5. p \in Seq(Messages) /\ Good(1, p) /\ Closed(1, p)
    <3>1. 0 \in Nat
      OBVIOUS
    <3> QED
      BY <2>4, <3>1, BuildFacts, BuildGood
  <2>6. Moves("run", "llm", r)
    BY <2>3
  <2> HIDE DEF p
  <2>7. r \in TurnRecord /\ r.prompt = p /\ r.snap = <<>>
    <3> HIDE DEF k
    <3>1. k \in Nat
      BY <1>1 DEF k
    <3> QED
      BY <1>1, <2>5, <3>1, RebuiltFacts
  <2> HIDE DEF r
  <2>8. \A z \in Sessions : Good(2, hist'[z]) /\ Closed(2, hist'[z])
    BY <1>1, <1>3, <2>2, <2>3, <2>4 DEF LoopInv, HistTypes
  <2> QED
    BY <1>2, <2>2, <2>5, <2>6, <2>7, <2>8, EmptyGood, QuietStep
<1>8. CASE ToolContext("run")
  <2>1. /\ pc["run"] = "context" /\ UNCHANGED hist /\ Moves("run", "execute", r0)
    BY <1>0, <1>8, ToolContextStep
  <2>2. Busy
    BY <2>1 DEF HistoryInv, Calling
  <2>3. "execute" \in Steps
    BY DEF Steps
  <2>4. pc'["run"] = "execute" /\ t'["run"] = t["run"]
    BY <1>0, <1>1, <2>1, <2>3, MoveFacts DEF LoopInv
  <2>5. Busy'
    BY <2>1, <2>2, <2>4 DEF Busy, Current, SnapGood
  <2> QED
    BY <2>4, <2>5 DEF HistoryInv, Calling
<1>9. ASSUME NEW tokens \in BOOLEAN, Finish("run", tokens) PROVE HistoryInv'
  <2> DEFINE r == [r0 EXCEPT !.resp = "answer"]
             m == Assistant(r0.turn, r0.iter + 1, 0)
  <2>1. /\ pc["run"] = "finish" /\ AddMessage(r0.session, m) /\ Moves("run", "respond", r)
    BY <1>0, <1>9, FinishStep
  <2>2. Quiet
    BY <2>1 DEF HistoryInv, Calling
  <2>3. r \in TurnRecord /\ r.prompt = r0.prompt /\ r.snap = r0.snap
    BY <1>1, RespFacts DEF Resps
  <2>4. m \in Messages /\ m.role # "tool" /\ ~HasCalls(m)
    BY <1>1 DEF Assistant, Messages, Roles, HasCalls
  <2> HIDE DEF r, m
  <2>5. \A z \in Sessions : Good(2, hist'[z]) /\ Closed(2, hist'[z])
    BY <1>1, <2>1, <2>2, <2>4, QuietAdd
  <2> HIDE DEF r0
  <2> QED
    BY <1>2, <1>3, <2>1, <2>2, <2>3, <2>5, QuietStep
<1> QED
  BY <1>4, <1>5, <1>6, <1>7, <1>8, <1>9 DEF WorkerStep

(* Every step keeps the calls of every session with their results.         *)
LEMMA HistoryNext ==
  ASSUME Directs = {}, LoopInv, HistoryInv, [Next]_vars PROVE HistoryInv'
<1>0. Workers = {"run"} /\ ~Return("run")
  BY DEF Workers, Return
<1>1. CASE Take \/ Enter
  BY <1>1, HistoryEntry
<1>2. CASE Respond
  <2>1. pc["run"] = "respond" /\ End("run", t["run"].resp) /\ UNCHANGED <<turns, hist>>
    BY <1>2 DEF Respond
  <2>2. Moves("run", "idle", NoTurn)
    BY <1>0, <2>1, EndFacts
  <2>3. Quiet
    BY <2>1 DEF HistoryInv, Calling
  <2>4. "idle" \in Steps \ {"context", "execute"}
    BY DEF Steps
  <2>5. \A z \in Sessions : Good(2, hist'[z]) /\ Closed(2, hist'[z])
    BY <2>1, <2>3 DEF Quiet
  <2> QED
    BY <2>2, <2>3, <2>4, <2>5, NoTurnFacts, EmptyGood, QuietStep
<1>3. CASE WorkerStep("run")
  BY <1>0, <1>3, HistoryCalls, HistoryTool, HistoryWorker
<1>4. ASSUME NEW s \in Sessions, SummarizerStep(s) PROVE HistoryInv'
  BY <1>4, HistorySummarizer
<1>5. CASE UNCHANGED vars
  BY <1>5 DEF vars, HistoryInv, Calling, Busy, Quiet, SnapGood, Current
<1> QED
  BY <1>0, <1>1, <1>2, <1>3, <1>4, <1>5 DEF Next

(* When turns come from the bus alone, one after another, every prompt     *)
(* handed to the provider is one it accepts: every result answers a call   *)
(* of the message before it and every call has its result, however often   *)
(* and wherever the summarizer and forceCompression have cut the history,  *)
(* in the middle of a turn too (context.go:479, loop.go:583-589, 1007).    *)
THEOREM LoopPromptsWellFormed ==
  ASSUME Directs = {} PROVE Spec => []PromptsWellFormed
<1>1. Init => HistoryInv
  <2> SUFFICES ASSUME Init PROVE HistoryInv
    OBVIOUS
  <2>1. t["run"] = NoTurn /\ pc["run"] = "idle" /\ \A s \in Sessions : hist[s] = <<>>
    BY DEF Init, Workers
  <2>2. Quiet
    BY <2>1, EmptyGood, NoTurnFacts DEF Quiet, SnapGood
  <2> QED
    BY <2>1, <2>2 DEF HistoryInv, Calling
<1>2. LoopInv /\ HistoryInv /\ [Next]_vars => HistoryInv'
  BY HistoryNext
<1>3. LoopInv /\ HistoryInv => PromptsWellFormed
  <2> SUFFICES ASSUME LoopInv, HistoryInv, NEW w \in Workers, pc[w] = "llm"
               PROVE  WellFormedPrompt(t[w].prompt)
    BY DEF PromptsWellFormed
  <2>1. w = "run"
    BY DEF Workers
  <2>2. Good(1, t[w].prompt) /\ Closed(1, t[w].prompt)
    BY <2>1 DEF HistoryInv, Calling, Quiet
  <2>3. t[w].prompt \in Seq(Messages) /\ Orphanless(t[w].prompt)
    BY TurnFacts
  <2> QED
    BY <2>2, <2>3, WellFormed
<1> QED
  BY <1>1, <1>2, <1>3, LoopInvariant, PTL DEF Spec

-------------------------------------------------------------------------------
(* One agent, turns one after another: every user message is answered      *)

(* Something other than a notice has been published for turn n.            *)
Spoken(o, n) == \E i \in DOMAIN o : o[i].turn = n /\ o[i].kind # "notice"

(* A user's turn that is over was heard; while it goes on, the round is    *)
(* marked as sent only with something said, and a response is at hand when *)
(* it is time to respond.                                                  *)
HeardInv ==
  /\ \A n \in 1 .. turns : Ended(n, "user") => Spoken(out, n)
  /\ pc["run"] # "idle" /\ asked[t["run"].turn].kind = "user" =>
       /\ t["run"].agent = DefaultAgent
       /\ tool[DefaultAgent].sent => Spoken(out, t["run"].turn)
       /\ pc["run"] = "respond" => t["run"].resp # "none"

(* What is published stays published.                                      *)
LEMMA OutGrows ==
  ASSUME LoopInv, NEW k \in {"reply", "tool", "notice"}, NEW c \in Targets \cup {NoChat},
         NEW m \in Nat, UNCHANGED out \/ Publish(k, c, m)
  PROVE  /\ \A n : Spoken(out, n) => Spoken(out', n)
         /\ Publish(k, c, m) /\ k # "notice" => Spoken(out', m)
<1>1. CASE UNCHANGED out /\ ~Publish(k, c, m)
  BY <1>1
<1>2. CASE Publish(k, c, m)
  <2>1. /\ DOMAIN out' = 1 .. Len(out) + 1 /\ DOMAIN out = 1 .. Len(out) /\ Len(out) \in Nat
        /\ \A i \in DOMAIN out : out'[i] = out[i]
        /\ out'[Len(out) + 1] = [kind |-> k, chat |-> c, turn |-> m]
    BY <1>2, PublishTyped DEF LoopInv, OutTypes
  <2>2. \A i \in DOMAIN out : i \in DOMAIN out'
    BY <2>1
  <2>3. \A n : Spoken(out, n) => Spoken(out', n)
    BY <2>1, <2>2 DEF Spoken
  <2>4. Len(out) + 1 \in DOMAIN out'
    BY <2>1
  <2>5. k # "notice" => Spoken(out', m)
    BY <2>1, <2>4 DEF Spoken
  <2> QED
    BY <2>3, <2>5
<1> QED
  BY <1>1, <1>2

(* Steps that neither begin nor end a turn: what was heard stays heard.    *)
LEMMA HeardStep ==
  ASSUME LoopInv, HeardInv, NEW at \in Steps, NEW r \in TurnRecord, Moves("run", at, r),
         pc["run"] # "idle", UNCHANGED <<turns, asked>>,
         \A n : Spoken(out, n) => Spoken(out', n),
         r.turn = t["run"].turn, r.agent = t["run"].agent,
         at = "respond" => r.resp # "none",
         t["run"].agent = DefaultAgent /\ tool'[DefaultAgent].sent =>
           tool[DefaultAgent].sent \/ Spoken(out', r.turn)
  PROVE  HeardInv'
<1>1. "run" \in Workers
  BY DEF Workers
<1>2. pc'["run"] = at /\ t'["run"] = r
  BY <1>1, MoveFacts DEF LoopInv
<1>3. \A n \in 1 .. turns : Ended(n, "user")' <=> Ended(n, "user")
  BY DEF Ended
<1>4. \A n \in 1 .. turns' : Ended(n, "user")' => Spoken(out', n)
  BY <1>3 DEF HeardInv
<1>5. ASSUME asked'[r.turn].kind = "user"
      PROVE  /\ r.agent = DefaultAgent /\ tool'[DefaultAgent].sent => Spoken(out', r.turn)
             /\ at = "respond" => r.resp # "none"
  <2>1. /\ t["run"].agent = DefaultAgent
        /\ tool[DefaultAgent].sent => Spoken(out, t["run"].turn)
    BY <1>5 DEF HeardInv
  <2> QED
    BY <2>1
<1>6. asked'[r.turn].kind = "user" => r.agent = DefaultAgent
  BY DEF HeardInv
<1> QED
  BY <1>2, <1>4, <1>5, <1>6 DEF HeardInv

(* The steps of a turn of Run's.                                           *)
LEMMA HeardWorker ==
  ASSUME LoopInv, HeardInv, WorkerStep("run"), ~Return("run") PROVE HeardInv'
<1>0. "run" \in Workers /\ DefaultAgent \in Agents
  BY LoopAssumption DEF Workers
<1> DEFINE r0 == t["run"]
<1>1. /\ r0 \in TurnRecord /\ r0.prompt \in Seq(Messages) /\ r0.agent \in Agents
      /\ r0.chat \in Targets /\ r0.turn \in Nat /\ r0.iter \in Nat /\ r0.next \in Nat
      /\ r0.retry + 1 \in Nat /\ hist[r0.session] \in Seq(Messages)
  BY <1>0, TurnFacts
<1>2. {"llm", "compress", "context", "execute", "finish", "respond"} \subseteq Steps
  BY DEF Steps
<1>3. UNCHANGED out => \A n : Spoken(out, n) => Spoken(out', n)
  OBVIOUS
<1>4. CASE AddUser("run")
  <2>1. pc["run"] = "adduser" /\ Moves("run", "llm", r0) /\ UNCHANGED <<turns, asked, tool, out>>
    BY <1>0, <1>4, AddUserStep DEF AddUser
  <2> QED
    BY <1>1, <1>2, <1>3, <2>1, HeardStep
<1>5. CASE LLMAnswers("run") \/ LLMFails("run")
  <2>1. pc["run"] = "llm" /\ UNCHANGED <<turns, asked, tool, out>>
    BY <1>0, <1>5, ResponseStep
  <2>2. PICK x \in Resps, at \in {"finish", "respond"} :
          x # "none" /\ Moves("run", at, [r0 EXCEPT !.resp = x])
    BY <1>0, <1>5, ResponseStep
  <2> DEFINE r == [r0 EXCEPT !.resp = x]
  <2>3. r \in TurnRecord /\ r.turn = r0.turn /\ r.agent = r0.agent /\ r.resp = x
    BY <1>1, RespFacts
  <2>4. Moves("run", at, r) /\ at \in Steps
    BY <1>2, <2>2
  <2> HIDE DEF r
  <2> QED
    BY <1>3, <2>1, <2>2, <2>3, <2>4, HeardStep
<1>6. CASE LLMCallsTools("run")
  <2>1. pc["run"] = "llm" /\ UNCHANGED <<turns, asked, tool, out>>
    BY <1>0, <1>6, CallsStep
  <2>2. PICK cs \in Seq(Calls) :
          /\ Len(cs) \in Nat \ {0}
          /\ Moves("run", "context",
               Called(r0, cs, Append(r0.prompt, Assistant(r0.turn, r0.iter, Len(cs)))))
    BY <1>0, <1>6, CallsStep
  <2> DEFINE m == Assistant(r0.turn, r0.iter, Len(cs))
             p == Append(r0.prompt, m)
             r == Called(r0, cs, p)
  <2>3. m \in Messages
    <3>1. Len(cs) \in Nat
      BY <2>2
    <3> QED
      BY <1>1, <3>1 DEF Assistant, Messages, Roles
  <2> HIDE DEF m
  <2>4. p \in Seq(Messages)
    BY <1>1, <2>3, AppendFacts
  <2>5. Moves("run", "context", r)
    BY <2>2 DEF m
  <2> HIDE DEF p
  <2>6. r \in TurnRecord /\ r.turn = r0.turn /\ r.agent = r0.agent
    BY <1>1, <2>4, CalledFacts
  <2> HIDE DEF r
  <2> QED
    BY <1>2, <1>3, <2>1, <2>5, <2>6, HeardStep
<1>7. CASE LLMContextError("run")
  <2> DEFINE r == [r0 EXCEPT !.snap = hist[r0.session]]
  <2>1. /\ pc["run"] = "llm" /\ UNCHANGED <<turns, asked, tool>> /\ Moves("run", "compress", r)
        /\ UNCHANGED out \/ Publish("notice", r0.chat, r0.turn)
    BY <1>0, <1>7, ContextErrorStep
  <2>2. r \in TurnRecord /\ r.turn = r0.turn /\ r.agent = r0.agent
    BY <1>1, SnapFacts
  <2> HIDE DEF r
  <2>3. \A n : Spoken(out, n) => Spoken(out', n)
    BY <1>1, <2>1, OutGrows
  <2> QED
    BY <1>2, <2>1, <2>2, <2>3, HeardStep
<1>8. CASE Compress("run")
  <2>1. pc["run"] = "compress" /\ UNCHANGED <<turns, asked, tool, out>>
    BY <1>0, <1>8, CompressStep
  <2>2. PICK h \in Seq(Messages) :
           Moves("run", "llm", Rebuilt(r0, r0.retry + 1, BuildMessages(h, <<>>)))
    BY <1>0, <1>8, CompressStep
  <2> DEFINE k == r0.retry + 1
             p == BuildMessages(h, <<>>)
             r == Rebuilt(r0, k, p)
  <2>3. p \in Seq(Messages)
    <3>1. 0 \in Nat
      OBVIOUS
    <3> QED
      BY <3>1, BuildFacts
  <2>4. k \in Nat
    BY <1>1
  <2>5. Moves("run", "llm", r)
    BY <2>2
  <2> HIDE DEF k, p
  <2>6. r \in TurnRecord /\ r.turn = r0.turn /\ r.agent = r0.agent
    BY <1>1, <2>3, <2>4, RebuiltFacts
  <2> HIDE DEF r
  <2> QED
    BY <1>2, <1>3, <2>1, <2>5, <2>6, HeardStep
<1>9. CASE ToolContext("run")
  <2>1. /\ pc["run"] = "context" /\ UNCHANGED <<turns, asked, out>> /\ Moves("run", "execute", r0)
        /\ SetContext(r0.agent, r0.chat) \/ UNCHANGED tool
    BY <1>0, <1>9, ToolContextStep
  <2>2. r0.agent = DefaultAgent /\ tool'[DefaultAgent].sent => tool[DefaultAgent].sent
    <3>1. CASE SetContext(r0.agent, r0.chat)
      <4>1. tool'[r0.agent].sent = FALSE
        BY <1>1, <2>1, <3>1, ContextTyped DEF LoopInv
      <4> QED
        BY <4>1
    <3> QED
      BY <2>1, <3>1
  <2> QED
    BY <1>1, <1>2, <1>3, <2>1, <2>2, HeardStep
<1>10. CASE RunTool("run")
  <2> DEFINE m == ToolResult(r0.turn, r0.iter, r0.next)
             r == ToolDone("run", m)
             at == AfterTool("run")
  <2>1. /\ pc["run"] = "execute" /\ UNCHANGED <<turns, asked>> /\ Moves("run", at, r)
        /\ Execute("run", r0.calls[r0.next])
    BY <1>0, <1>10, RunToolStep
  <2>2. m \in Messages
    BY <1>1, MessageFacts
  <2> HIDE DEF m
  <2>3. /\ r \in TurnRecord /\ r.turn = r0.turn /\ r.agent = r0.agent
        /\ at \in {"context", "llm", "finish"}
    BY <1>0, <2>2, DoneFacts DEF LoopInv
  <2> HIDE DEF r, at
  <2>4. CASE UNCHANGED <<out, tool>>
    BY <1>2, <1>3, <2>1, <2>3, <2>4, HeardStep
  <2>5. ASSUME NEW d \in Targets \cup {NoChat}, Publish("tool", d, r0.turn) PROVE HeardInv'
    <3>1. (\A n : Spoken(out, n) => Spoken(out', n)) /\ Spoken(out', r0.turn)
      BY <1>1, <2>5, OutGrows
    <3> QED
      BY <1>2, <2>1, <2>3, <3>1, HeardStep
  <2> QED
    BY <1>0, <2>1, <2>4, <2>5, ExecuteFacts
<1>11. ASSUME NEW tokens \in BOOLEAN, Finish("run", tokens) PROVE HeardInv'
  <2> DEFINE r == [r0 EXCEPT !.resp = "answer"]
  <2>1. /\ pc["run"] = "finish" /\ UNCHANGED <<turns, asked, tool>> /\ Moves("run", "respond", r)
        /\ UNCHANGED out \/ Publish("reply", r0.chat, r0.turn)
    BY <1>0, <1>11, FinishStep
  <2>2. r \in TurnRecord /\ r.turn = r0.turn /\ r.agent = r0.agent /\ r.resp = "answer"
    BY <1>1, RespFacts DEF Resps
  <2> HIDE DEF r
  <2>3. \A n : Spoken(out, n) => Spoken(out', n)
    BY <1>1, <2>1, OutGrows
  <2> QED
    BY <1>2, <2>1, <2>2, <2>3, HeardStep
<1> QED
  BY <1>4, <1>5, <1>6, <1>7, <1>8, <1>9, <1>10, <1>11 DEF WorkerStep

(* A turn begins, or a message is answered without one.                    *)
LEMMA HeardEntry ==
  ASSUME Directs = {}, \A c \in Chats : Route[c] = DefaultAgent, LoopInv, HeardInv, Take \/ Enter
  PROVE  HeardInv'
<1>0. "run" \in Workers /\ Workers = {"run"}
  BY DEF Workers
<1> DEFINE n == turns + 1
<1>1. /\ turns \in Nat /\ MaxTurns \in Nat /\ n \in Nat /\ turns <= MaxTurns
      /\ asked \in [1 .. MaxTurns -> [kind : AskedKinds, chat : Targets, end : Resps \cup {"no"}]]
  BY LoopAssumption DEF LoopInv, AskedTypes
<1>2. ASSUME NEW kind \in AskedKinds, NEW c \in Targets, turns < MaxTurns, turns' = n,
             asked' = [asked EXCEPT ![n] = [kind |-> kind, chat |-> c, end |-> "no"]],
             UNCHANGED out
      PROVE  /\ \A i \in 1 .. turns' : Ended(i, "user")' => Spoken(out', i)
             /\ asked'[n].kind = kind
  <2>1. n \in 1 .. MaxTurns
    BY <1>1, <1>2
  <2>2. \A i \in 1 .. n : i = n \/ (i \in 1 .. turns /\ i \in 1 .. MaxTurns /\ i # n)
    BY <1>1, <1>2
  <2> HIDE DEF n
  <2>3. asked'[n].kind = kind /\ asked'[n].end = "no" /\ \A i \in 1 .. MaxTurns : i # n => asked'[i] = asked[i]
    BY <1>1, <1>2, <2>1
  <2>4. ASSUME NEW i \in 1 .. n, Ended(i, "user")' PROVE Spoken(out', i)
    <3>1. i # n
      BY <2>3, <2>4 DEF Ended
    <3>2. i \in 1 .. turns /\ asked'[i] = asked[i]
      BY <2>2, <2>3, <3>1
    <3>3. Ended(i, "user")
      BY <2>4, <3>2 DEF Ended
    <3> QED
      BY <1>2, <3>2, <3>3 DEF HeardInv
  <2> QED
    BY <1>2, <2>3, <2>4
<1>3. CASE \E kind \in {"command", "system"}, c \in Targets, x \in Resps : TakeUnrouted(kind, c, x)
  <2>1. PICK kind \in {"command", "system"}, c \in Targets, x \in Resps : TakeUnrouted(kind, c, x)
    BY <1>3
  <2>2. kind \in AskedKinds /\ kind # "user"
    BY DEF AskedKinds
  <2> DEFINE r == [NoTurn EXCEPT !.turn = n, !.chat = c, !.resp = x]
  <2>3. /\ Moves("run", "respond", r) /\ turns < MaxTurns /\ turns' = n
        /\ asked' = [asked EXCEPT ![n] = [kind |-> kind, chat |-> c, end |-> "no"]]
        /\ UNCHANGED out
    BY <2>1, <2>2, UnroutedStep DEF TakeUnrouted
  <2> HIDE DEF n
  <2>4. r \in TurnRecord /\ r.turn = n
    <3> HIDE DEF NoTurn
    <3> QED
      BY <1>1, NoTurnFacts DEF TurnRecord
  <2> HIDE DEF r
  <2>5. (\A i \in 1 .. turns' : Ended(i, "user")' => Spoken(out', i)) /\ asked'[n].kind = kind
    BY <1>2, <2>2, <2>3
  <2>6. t'["run"] = r
    BY <1>0, <2>3, <2>4, MoveFacts DEF LoopInv, Steps
  <2> QED
    BY <2>2, <2>4, <2>5, <2>6 DEF HeardInv
<1>4. ASSUME NEW w \in Workers, NEW kind \in AskedKinds, NEW a \in Agents, NEW c \in Targets,
             NEW s \in Sessions, NEW send \in BOOLEAN, NEW sm \in BOOLEAN,
             NEW h \in Seq(Messages), Begin(w, kind, a, c, s, send, sm, h),
             kind = "user" => w = "run" /\ a = Route[c] /\ c \in Chats
      PROVE  HeardInv'
  <2> DEFINE p == BuildMessages(h, <<User(n)>>)
             r == Started(n, a, c, s, send, sm, p)
  <2>1. w = "run"
    BY <1>0
  <2>2. Moves("run", "adduser", r)
    BY <1>4, <2>1, BeginStep
  <2>3. /\ turns < MaxTurns /\ turns' = n /\ UNCHANGED out /\ SetContext(a, c)
        /\ asked' = [asked EXCEPT ![n] = [kind |-> kind, chat |-> c, end |-> "no"]]
    BY <1>4 DEF Begin
  <2> HIDE DEF n
  <2>4. p \in Seq(Messages)
    BY <1>1, BuildFacts
  <2> HIDE DEF p
  <2>5. r \in TurnRecord /\ r.turn = n /\ r.agent = a
    BY <1>1, <2>4, StartedFacts
  <2> HIDE DEF r
  <2>6. (\A i \in 1 .. turns' : Ended(i, "user")' => Spoken(out', i)) /\ asked'[n].kind = kind
    BY <1>2, <2>3
  <2>7. t'["run"] = r /\ pc'["run"] = "adduser"
    BY <1>0, <2>2, <2>5, MoveFacts DEF LoopInv, Steps
  <2>8. tool'[a].sent = FALSE
    BY <2>3, ContextTyped DEF LoopInv
  <2>9. kind = "user" => a = DefaultAgent
    BY <1>4
  <2> QED
    BY <2>5, <2>6, <2>7, <2>8, <2>9 DEF HeardInv
<1> QED
  BY <1>3, <1>4, EntryFacts

(* Run responds: a turn that said nothing gets its response published.     *)
LEMMA HeardRespond ==
  ASSUME LoopInv, HeardInv, Respond PROVE HeardInv'
<1>0. "run" \in Workers
  BY DEF Workers
<1> DEFINE n == t["run"].turn
<1>1. /\ pc["run"] = "respond" /\ End("run", t["run"].resp) /\ UNCHANGED <<turns, tool>>
      /\ IF t["run"].resp # "none" /\ ~tool[DefaultAgent].sent
         THEN Publish("reply", ReplyChat, n) ELSE UNCHANGED out
  BY DEF Respond
<1>2. /\ Moves("run", "idle", NoTurn) /\ n \in 1 .. turns /\ asked'[n].kind = asked[n].kind
      /\ \A i \in 1 .. MaxTurns : i # n => asked'[i] = asked[i]
  BY <1>0, <1>1, EndFacts
<1>3. ReplyChat \in Targets \cup {NoChat} /\ n \in Nat
  BY <1>0, TurnFacts DEF ReplyChat, Targets
<1>4. pc'["run"] = "idle"
  BY <1>0, <1>2, NoTurnFacts, MoveFacts DEF LoopInv, Steps
<1>5. \A i \in 1 .. turns : i \in 1 .. MaxTurns
  BY LoopAssumption DEF LoopInv, AskedTypes
<1>6. \A i : Spoken(out, i) => Spoken(out', i)
  BY <1>1, <1>3, OutGrows
<1>7. asked[n].kind = "user" => Spoken(out', n)
  <2> SUFFICES ASSUME asked[n].kind = "user" PROVE Spoken(out', n)
    OBVIOUS
  <2>1. t["run"].resp # "none" /\ (tool[DefaultAgent].sent => Spoken(out, n))
    BY <1>1 DEF HeardInv
  <2>2. CASE tool[DefaultAgent].sent
    BY <1>6, <2>1, <2>2
  <2>3. CASE ~tool[DefaultAgent].sent
    <3>1. Publish("reply", ReplyChat, n)
      BY <1>1, <2>1, <2>3
    <3> QED
      BY <1>3, <3>1, OutGrows
  <2> QED
    BY <2>2, <2>3
<1> HIDE DEF n
<1>8. ASSUME NEW i \in 1 .. turns, Ended(i, "user")' PROVE Spoken(out', i)
  <2>1. CASE i = n
    BY <1>2, <1>7, <1>8, <2>1 DEF Ended
  <2>2. CASE i # n
    <3>1. asked'[i] = asked[i]
      BY <1>2, <1>5, <2>2
    <3>2. Ended(i, "user")
      BY <1>8, <3>1 DEF Ended
    <3> QED
      BY <1>6, <3>2 DEF HeardInv
  <2> QED
    BY <2>1, <2>2
<1> QED
  BY <1>1, <1>4, <1>8 DEF HeardInv

(* Every step keeps it.                                                    *)
LEMMA HeardNext ==
  ASSUME Directs = {}, \A c \in Chats : Route[c] = DefaultAgent, LoopInv, HeardInv, [Next]_vars
  PROVE  HeardInv'
<1>0. Workers = {"run"} /\ ~Return("run")
  BY DEF Workers, Return
<1>1. CASE Take \/ Enter
  BY <1>1, HeardEntry
<1>2. CASE Respond
  BY <1>2, HeardRespond
<1>3. CASE WorkerStep("run")
  BY <1>0, <1>3, HeardWorker
<1>4. ASSUME NEW s \in Sessions, SummarizerStep(s) PROVE HeardInv'
  <2>1. /\ UNCHANGED <<pc, t, turns, asked, tool>>
        /\ UNCHANGED out \/ Publish("notice", sum[s].chat, 0)
    BY <1>4, SummarizerStepInv
  <2>2. sum[s].chat \in Targets \cup {NoChat} /\ 0 \in Nat
    BY DEF LoopInv, SumTypes
  <2>3. \A i : Spoken(out, i) => Spoken(out', i)
    BY <2>1, <2>2, OutGrows
  <2>4. \A i \in 1 .. turns : Ended(i, "user")' => Ended(i, "user")
    BY <2>1 DEF Ended
  <2> QED
    BY <2>1, <2>3, <2>4 DEF HeardInv
<1>5. CASE UNCHANGED vars
  <2>1. \A i \in 1 .. turns : Ended(i, "user")' => Ended(i, "user")
    BY <1>5 DEF vars, Ended
  <2> QED
    BY <1>5, <2>1 DEF vars, HeardInv
<1> QED
  BY <1>0, <1>1, <1>2, <1>3, <1>4, <1>5 DEF Next

(* When all chats are bound to the default agent and turns come from the   *)
(* bus alone, no user message goes unanswered: when Run is done with it, a *)
(* reply, an error or a message of the message tool has been published     *)
(* for it.  Both conditions are needed: Run asks the default agent's tool  *)
(* whether it has sent, and direct callers use the same one                *)
(* (loop.go:165-197).                                                      *)
THEOREM LoopTurnIsHeard ==
  ASSUME Directs = {}, \A c \in Chats : Route[c] = DefaultAgent
  PROVE  Spec => []TurnIsHeard
<1>1. Init => HeardInv
  <2> SUFFICES ASSUME Init PROVE HeardInv
    OBVIOUS
  <2>1. pc["run"] = "idle" /\ turns = 0
    BY DEF Init, Workers
  <2> QED
    BY <2>1 DEF HeardInv
<1>2. LoopInv /\ HeardInv /\ [Next]_vars => HeardInv'
  BY HeardNext
<1>3. HeardInv => TurnIsHeard
  BY DEF HeardInv, TurnIsHeard, Spoken
<1> QED
  BY <1>1, <1>2, <1>3, LoopInvariant, PTL DEF Spec
===============================================================================
