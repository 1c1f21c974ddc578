---------------------------- MODULE StringSearch ----------------------------
(***************************************************************************)
(* lib/strstr/cpp/mp.h: the search by Morris and Pratt, whose table the    *)
(* hardware of lib/strstr uses too.  The book's procedures, quoted in the  *)
(* file, number characters from 1; the arrays of C from 0.                 *)
(***************************************************************************)
EXTENDS Integers, Sequences, SequencesExt

CONSTANTS
  Char,        \* the alphabet
  NUL,         \* the character that ends a string
  MaxM, MaxN   \* lengths of needles and of texts

VARIABLES
  x, t,        \* the needle and the text
  i, j,        \* as in MP
  found        \* the positions MP has reported

vars == <<x, t, i, j, found>>

m == Len(x)
n == Len(t)

\* x[k] of C
At(s, k) == IF k < Len(s) THEN s[k + 1] ELSE NUL

RECURSIVE BorderFrom(_, _, _, _)
BorderFrom(s, border, k, c) ==
  IF k >= 0 /\ c # At(s, k + 1) THEN BorderFrom(s, border, border[k], c) ELSE k

\* border[0 .. Len(s)]
RECURSIVE BordersTo(_, _)
BordersTo(s, k) ==
  IF k = 0 THEN [q \in {0} |-> -1]
  ELSE LET border == BordersTo(s, k - 1)
           b == BorderFrom(s, border, border[k - 1], At(s, k))
       IN [q \in 0 .. k |-> IF q = k THEN b + 1 ELSE border[q]]

compute_borders(s) == BordersTo(s, Len(s))

RECURSIVE NextFrom(_, _, _, _)
NextFrom(s, MP_next, k, c) ==
  IF k > 0 /\ c # At(s, k) THEN NextFrom(s, MP_next, MP_next[k], c) ELSE k

\* MP_next[1 .. k + 1] after k rounds; the last entry is the j of the next round.
RECURSIVE NextTo(_, _)
NextTo(s, k) ==
  IF k = 0 THEN [q \in {1} |-> 0]
  ELSE LET MP_next == NextTo(s, k - 1)
           b == NextFrom(s, MP_next, MP_next[k], At(s, k))
       IN [q \in 1 .. k + 1 |-> IF q = k + 1 THEN b + 1 ELSE MP_next[q]]


\* Mutant: the last entry leads nowhere.
compute_MP_next_Ahead(s) == [NextTo(s, Len(s)) EXCEPT ![Len(s)] = Len(s)]

compute_MP_next(s) == NextTo(s, Len(s))

Strings(k) == UNION {[1 .. l -> Char] : l \in 0 .. k}

Init ==
  /\ x \in Strings(MaxM) \ {<<>>}
  /\ t \in Strings(MaxN)
  /\ i = 1 /\ j = 1
  /\ found = {}

Mismatch == i = m + 1 \/ (i > 0 /\ At(x, i - 1) # At(t, j - 1))

\* Mutant: a mismatch skips the character of the text.
MP_back_Skips ==
  /\ j <= n /\ Mismatch
  /\ i' = 0
  /\ UNCHANGED <<x, t, j, found>>

\* The inner loop's body.
MP_back ==
  /\ j <= n /\ Mismatch
  /\ i' = compute_MP_next(x)[i]
  /\ UNCHANGED <<x, t, j, found>>

\* Mutant: a match is reported one character early.
MP_forward_EarlyReport ==
  /\ j <= n /\ ~Mismatch
  /\ j' = j + 1
  /\ IF i + 1 >= m
     THEN found' = found \cup {j - i} /\ i' = 1
     ELSE UNCHANGED found /\ i' = i + 1
  /\ UNCHANGED <<x, t>>

\* The rest of the outer loop's body: a match is reported and the needle starts afresh.
MP_forward ==
  /\ j <= n /\ ~Mismatch
  /\ j' = j + 1
  /\ IF i + 1 = m + 1
     THEN found' = found \cup {j - i} /\ i' = 1
     ELSE UNCHANGED found /\ i' = i + 1
  /\ UNCHANGED <<x, t>>

Next == MP_back \/ MP_forward
Spec == Init /\ [][Next]_vars /\ WF_vars(Next)

-----------------------------------------------------------------------------
\* Positions where the needle occurs in the text.
Occurs == {p \in 0 .. n - m : \A k \in 0 .. m - 1 : At(t, p + k) = At(x, k)}

\* The table leads back only, and is the table of borders moved by one: what teststrstr
\* asserts before it gives the table to the hardware.
TablesAgree ==
  LET border == compute_borders(x)
      MP_next == compute_MP_next(x)
  IN /\ \A k \in 1 .. m + 1 : MP_next[k] < k
     /\ MP_next[1] = 0 /\ border[1] = 0
     /\ \A k \in 2 .. m : MP_next[k] = border[k - 1] + 1

\* A reported position is one where the needle occurs.
ReportsOccur == found \subseteq Occurs

\* A needle whose first character does not come back in it is found everywhere.
PlainNeedleFound ==
  j > n /\ (\A k \in 2 .. m : x[k] # x[1]) => found = Occurs

\* The search comes to its end.
SearchEnds == []<>(j > n)

\* A needle that occurs is found, as the book's procedure in mp.h's comment finds it
\* ("writeln('x occurs in t at position ', j - i + 1)").
OccurrenceFound == j > n /\ Occurs # {} => found # {}
=============================================================================
