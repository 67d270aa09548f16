----------------------------- MODULE StopGuard -----------------------------
(***************************************************************************)
(* The guard that ends an answer at a marker the caller named              *)
(* (dataplane/stop_sequence.go).  Text is a sequence of letters; a vendor  *)
(* delivers it in fragments, and a marker may be split across two.         *)
(***************************************************************************)
EXTENDS Integers, Sequences, SequencesExt, FiniteSetsExt

CONSTANT Markers            \* the caller's stop sequences, none of them empty

\* Where marker m stands in the text, counted from zero.
Standing(text, m) ==
  {i \in 0..Len(text) - Len(m) : SubSeq(text, i + 1, i + Len(m)) = m}

\* firstStopSequence: the earliest position of any marker, or -1.
FirstStop(text) ==
  LET found == UNION {Standing(text, m) : m \in Markers}
  IN  IF found = {} THEN -1 ELSE Min(found)

\* heldBackLen: the longest tail that could still grow into a marker.
HeldBack(text) ==
  Max({0} \cup {n \in 1..Len(text) :
        \E m \in Markers : n < Len(m) /\ IsSuffix(SubSeq(m, 1, n), text)})

\* newStopGuard: a caller that named no marker gets no guard.
Guard(armed) == [armed |-> armed, pending |-> <<>>, hit |-> FALSE]

\* As if a fragment were searched on its own, with nothing held back.
WriteEach(g, fragment) ==
  LET at == FirstStop(fragment)
  IN  IF ~g.armed THEN [shown |-> fragment, guard |-> g]
      ELSE IF g.hit THEN [shown |-> <<>>, guard |-> g]
      ELSE IF at >= 0 THEN [shown |-> SubSeq(fragment, 1, at), guard |-> [g EXCEPT !.hit = TRUE]]
      ELSE [shown |-> fragment, guard |-> g]

\* write: the text the caller may see now, and the guard left behind.
Write(g, fragment) ==
  LET text == g.pending \o fragment
      at   == FirstStop(text)
      hold == HeldBack(text)
  IN  IF ~g.armed THEN [shown |-> fragment, guard |-> g]
      ELSE IF g.hit THEN [shown |-> <<>>, guard |-> g]
      ELSE IF at >= 0 THEN [shown |-> SubSeq(text, 1, at),
                            guard |-> [g EXCEPT !.hit = TRUE, !.pending = <<>>]]
      ELSE [shown |-> SubSeq(text, 1, Len(text) - hold),
            guard |-> [g EXCEPT !.pending = SubSeq(text, Len(text) - hold + 1, Len(text))]]

\* flush, as Finish calls it: what was held back to the end was never a marker.
Withheld(g) == IF g.armed /\ ~g.hit THEN g.pending ELSE <<>>

\* cutAtStop: the cut of a whole answer, which a folded body gets at once.
CutAtStop(text) ==
  LET at == FirstStop(text) IN IF at < 0 THEN text ELSE SubSeq(text, 1, at)
=============================================================================
