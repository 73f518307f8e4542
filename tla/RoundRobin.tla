----------------------------- MODULE RoundRobin -----------------------------
(***************************************************************************)
(* The rounds of gateway-control-admission.ts: the classes of a cycle, the *)
(* principals of a class and the zones of the process are served in turn,  *)
(* from a cursor that is a place in a list, counted from 0.                *)
(***************************************************************************)
EXTENDS Integers, Sequences, FiniteSets

\* The element at a place, past the end again from the front.
At(s, i) == s[(i % Len(s)) + 1]

\* The distance from place t to the first element of s that is in T.
Distance(s, t, T) ==
  CHOOSE d \in 0 .. Len(s) - 1 : At(s, t + d) \in T /\ \A e \in 0 .. d - 1 : At(s, t + e) \notin T

\* The element that is served, and the place after it.
Served(s, t, T) == At(s, t + Distance(s, t, T))
NextTurn(s, t, T) == (t + Distance(s, t, T) + 1) % Len(s)

\* Mutant: the cursor of an empty list is left one below it.
ClampedBelow(t, n) == IF t < n THEN t ELSE n - 1

\* The cursor after elements have left a list that now has n.
Clamped(t, n) == IF n = 0 THEN 0 ELSE IF t < n THEN t ELSE n - 1

\* What the splices leave of s: its elements in T, in their order.
Kept(s, T) ==
  LET places == {i \in 1 .. Len(s) : s[i] \in T}
      n == Cardinality(places)
      place == CHOOSE f \in [1 .. n -> places] : \A i, j \in 1 .. n : i < j => f[i] < f[j]
  IN  [i \in 1 .. n |-> s[place[i]]]
=============================================================================
