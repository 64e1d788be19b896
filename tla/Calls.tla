-------------------------------- MODULE Calls --------------------------------
\* What a client that calls another process over a shared stream promises its
\* callers, whatever is lost, late or closed on the way: a call ends at most
\* once, with the answer to that very call or with a failure, and the other
\* side performs it at most once.
EXTENDS Naturals

CONSTANTS
  Calls     \* the calls ever made

VARIABLES
  asked,    \* calls that have been made
  served,   \* calls the other side has performed
  outcome   \* of each call: "none", "answered" or "failed"

vars == <<asked, served, outcome>>

Init ==
  /\ asked = {}
  /\ served = {}
  /\ outcome = [i \in Calls |-> "none"]

Ask(i) ==
  /\ i \notin asked
  /\ asked' = asked \union {i}
  /\ UNCHANGED <<served, outcome>>

Serve(i) ==
  /\ i \in asked \ served
  /\ served' = served \union {i}
  /\ UNCHANGED <<asked, outcome>>

Answer(i) ==
  /\ i \in served
  /\ outcome[i] = "none"
  /\ outcome' = [outcome EXCEPT ![i] = "answered"]
  /\ UNCHANGED <<asked, served>>

\* Whether the other side has performed a failed call, or still will, is open.
Fail(i) ==
  /\ i \in asked
  /\ outcome[i] = "none"
  /\ outcome' = [outcome EXCEPT ![i] = "failed"]
  /\ UNCHANGED <<asked, served>>

\* A client that refuses a call never asks for it.
Refuse(i) ==
  /\ i \notin asked
  /\ asked' = asked \union {i}
  /\ outcome' = [outcome EXCEPT ![i] = "failed"]
  /\ UNCHANGED served

Next == \E i \in Calls : Ask(i) \/ Serve(i) \/ Answer(i) \/ Fail(i) \/ Refuse(i)

Spec == Init /\ [][Next]_vars
==============================================================================
