--------------------------- MODULE MetadataProofs ---------------------------
(***************************************************************************)
(* From the line the user types to the argv of the command, and to         *)
(* containers.meta and back: for every line and every size of the array of *)
(* words, for every moment of the crash.                                   *)
(*                                                                         *)
(* The texts come first: what strtok finds in a text that grows by one     *)
(* character, what the join makes of one more word, and how the one undoes *)
(* the other.  A recursive function is known by its runs (Recursion), and  *)
(* a fact about every text is membership in a set that has the empty text  *)
(* and, with a text, the one longer by a character (SeqInduct).  Some      *)
(* conclusions have a name, so that a lemma can be cited without its       *)
(* sequences being taken apart.                                            *)
(***************************************************************************)
EXTENDS Metadata, SequenceTheorems, NaturalsInduction, WellFoundedInduction, TLAPS

\* Every set of numbers that is not empty has a least one.
LEMMA Least == ASSUME NEW T, T \subseteq Nat, T # {} PROVE \E n \in T : \A m \in T : ~(m < n)
  <1>1. PICK n \in T : \A m \in T : ~(<<m, n>> \in OpToRel(<, Nat))
    BY NatLessThanWellFounded, WFMin, Zenon
  <1>2. \A m \in T : m < n => <<m, n>> \in OpToRel(<, Nat)
    BY Zenon DEF OpToRel
  <1> QED
    BY <1>1, <1>2, Zenon

\* Induction up to N: the property is membership in a set.
LEMMA Induct ==
    ASSUME NEW N \in Nat, NEW P, 0 \in P, \A n \in 1 .. N : n - 1 \in P => n \in P
    PROVE  \A n \in 0 .. N : n \in P
<1> DEFINE Bad == {n \in 0 .. N : n \notin P}
<1> SUFFICES ASSUME Bad # {} PROVE FALSE
  BY Zenon
<1>1. PICK m \in Bad : \A k \in Bad : ~(k < m)
  <2>1. Bad \subseteq Nat
    BY SMT
  <2> HIDE DEF Bad
  <2> QED
    BY <2>1, Least, Zenon
<1>2. m # 0
  BY <1>1, Zenon
<1>3. m \in 1 .. N /\ m - 1 \in 0 .. N /\ m - 1 < m
  BY <1>1, <1>2, SMT
<1> QED
  BY <1>1, <1>3, Zenon

\* The runs of a loop of N turns that starts with base.
Runs(N, X, base, step) ==
    {f \in [0 .. N -> X] : f[0] = base /\ \A n \in 1 .. N : f[n] = step[n][f[n - 1]]}

\* A loop of N turns has a run.
LEMMA Recursion ==
    ASSUME NEW N \in Nat, NEW X, NEW base \in X, NEW step,
           \A n \in 1 .. N : \A x \in X : step[n][x] \in X
    PROVE  Runs(N, X, base, step) # {}
<1> DEFINE Run(f, m) == f[0] = base /\ \A n \in 1 .. m : f[n] = step[n][f[n - 1]]
           P == {m \in 0 .. N : \E f \in [0 .. m -> X] : Run(f, m)}
<1>1. 0 \in P
  <2> DEFINE f == [n \in 0 .. 0 |-> base]
  <2>1. f \in [0 .. 0 -> X] /\ Run(f, 0)
    BY SMT
  <2>2. 0 \in 0 .. N
    BY SMT
  <2> HIDE DEF f, Run
  <2> QED
    BY <2>1, <2>2, Zenon
<1>2. ASSUME NEW m \in 1 .. N, m - 1 \in P PROVE m \in P
  <2>1. PICK f \in [0 .. m - 1 -> X] : Run(f, m - 1)
    BY <1>2, Zenon
  <2> DEFINE g == [n \in 0 .. m |-> IF n = m THEN step[m][f[m - 1]] ELSE f[n]]
  <2>2. g \in [0 .. m -> X]
    BY <2>1, SMT
  <2>3. Run(g, m)
    BY <2>1, SMT
  <2> HIDE DEF g, Run
  <2> QED
    BY <2>2, <2>3, SMT
<1> HIDE DEF P
<1>3. N \in P
  BY <1>1, <1>2, Induct, SMT
<1> QED
  BY <1>3, Zenon DEF P, Runs

\* The last word grows, the others stay.
LEMMA ExtendedFacts ==
    ASSUME NEW C, NEW words \in Seq(Seq(C)), NEW c \in C
    PROVE  /\ Extended(words, c) \in Seq(Seq(C))
           /\ Len(Extended(words, c)) = Len(words)
           /\ \A i \in 1 .. Len(words) :
                Extended(words, c)[i] = IF i = Len(words) THEN Append(words[i], c) ELSE words[i]
<1>1. Len(words) \in Nat /\ words \in [1 .. Len(words) -> Seq(C)]
  BY SMT
<1> DEFINE e == Extended(words, c)
<1>2. /\ DOMAIN e = 1 .. Len(words)
      /\ e = [i \in 1 .. Len(words) |-> e[i]]
      /\ \A i \in 1 .. Len(words) :
           e[i] = IF i = Len(words) THEN Append(words[i], c) ELSE words[i]
  BY <1>1, Zenon DEF Extended
<1>3. \A i \in 1 .. Len(words) : words[i] \in Seq(C) /\ Append(words[i], c) \in Seq(C)
  BY <1>1, AppendProperties, Zenon
<1> HIDE DEF e
<1>4. \A i \in 1 .. Len(words) : e[i] \in Seq(C)
  BY <1>2, <1>3, Zenon
<1>5. e \in [1 .. Len(words) -> Seq(C)]
  BY <1>2, <1>4, Zenon
<1>6. e \in Seq(Seq(C)) /\ Len(e) = Len(words)
  BY <1>1, <1>5, SMT
<1> QED
  BY <1>2, <1>6, Zenon DEF e

\* One turn of the scan yields words again.
LEMMA ScannedType ==
    ASSUME NEW C, NEW text \in Seq(C), NEW S, NEW n \in 1 .. Len(text), NEW words \in Seq(Seq(C))
    PROVE  Scanned(words, text, n, S) \in Seq(Seq(C))
<1>1. text[n] \in C
  BY SMT
<1>2. Extended(words, text[n]) \in Seq(Seq(C))
  BY <1>1, ExtendedFacts, Zenon
<1>3. <<text[n]>> \in Seq(C)
  BY <1>1, SMT
<1>4. Append(words, <<text[n]>>) \in Seq(Seq(C))
  BY <1>3, AppendProperties, Zenon
<1> QED
  BY <1>2, <1>4, Zenon DEF Scanned

\* strtok, turn by turn.
LEMMA SplitTurns ==
    ASSUME NEW C, NEW text \in Seq(C), NEW S
    PROVE  /\ Split(text, S)[0] = << >>
           /\ \A n \in 1 .. Len(text) :
                Split(text, S)[n] = Scanned(Split(text, S)[n - 1], text, n, S)
           /\ \A n \in 0 .. Len(text) : Split(text, S)[n] \in Seq(Seq(C))
<1> DEFINE N == Len(text)
           X == Seq(Seq(C))
           step == [n \in 1 .. N |-> [x \in X |-> Scanned(x, text, n, S)]]
           Def(f) == f = [n \in 0 .. N |-> IF n = 0 THEN << >> ELSE Scanned(f[n - 1], text, n, S)]
           g == CHOOSE f : Def(f)
<1>1. N \in Nat /\ << >> \in X
  BY SMT
<1>0. ASSUME NEW n \in 1 .. N, NEW x \in X PROVE Scanned(x, text, n, S) \in X
  BY ScannedType, Zenon
<1>2. \A n \in 1 .. N : \A x \in X : step[n][x] = Scanned(x, text, n, S) /\ step[n][x] \in X
  <2> HIDE DEF X, N
  <2> QED
    BY <1>0, Zenon
<1> HIDE DEF step, X, N
<1>3. PICK f \in [0 .. N -> X] : f[0] = << >> /\ \A n \in 1 .. N : f[n] = step[n][f[n - 1]]
  <2>1. \A n \in 1 .. N : \A x \in X : step[n][x] \in X
    BY <1>2, Zenon
  <2>2. Runs(N, X, << >>, step) # {}
    BY <1>1, <2>1, Recursion, Zenon
  <2> QED
    BY <2>2, Zenon DEF Runs
<1>4. Def(f)
  <2>1. ASSUME NEW n \in 0 .. N PROVE f[n] = IF n = 0 THEN << >> ELSE Scanned(f[n - 1], text, n, S)
    <3>1. CASE n = 0
      BY <1>3, <3>1, Zenon
    <3>2. CASE n # 0
      <4>1. n \in 1 .. N /\ n - 1 \in 0 .. N
        BY <1>1, <3>2, SMT
      <4> QED
        BY <1>2, <1>3, <3>2, <4>1, Zenon
    <3> QED
      BY <3>1, <3>2, Zenon
  <2> QED
    BY <1>3, <2>1, Zenon
<1>5. Def(g)
  BY <1>4, Zenon
<1>6. Split(text, S) = g
  BY Zenon DEF Split, N
<1> HIDE DEF g
<1>7. g[0] = << >>
  BY <1>1, <1>5, SMT
<1>8. ASSUME NEW n \in 1 .. N PROVE g[n] = Scanned(g[n - 1], text, n, S)
  <2>1. n \in 0 .. N /\ n # 0
    BY <1>1, SMT
  <2> QED
    BY <1>5, <2>1, Zenon
<1>9. \A n \in 0 .. N : g[n] \in X
  <2> DEFINE P == {n \in 0 .. N : g[n] \in X}
  <2>1. 0 \in P
    BY <1>1, <1>7, SMT
  <2>2. ASSUME NEW n \in 1 .. N, n - 1 \in P PROVE n \in P
    <3>1. g[n] \in X
      BY <1>0, <1>8, <2>2, Zenon
    <3>2. n \in 0 .. N
      BY <1>1, SMT
    <3> QED
      BY <3>1, <3>2, Zenon
  <2> HIDE DEF P
  <2>3. \A n \in 0 .. N : n \in P
    BY <1>1, <2>1, <2>2, Induct, Zenon
  <2> QED
    BY <2>3, Zenon DEF P
<1> QED
  BY <1>6, <1>7, <1>8, <1>9, Zenon DEF X, N

\* Induction over the sequences of C: the property is membership in a set.
LEMMA SeqInduct ==
    ASSUME NEW C, NEW P, << >> \in P,
           \A s \in Seq(C) : \A c \in C : s \in P => Append(s, c) \in P
    PROVE  \A s \in Seq(C) : s \in P
<1> SUFFICES ASSUME NEW s \in Seq(C) PROVE s \in P
  OBVIOUS
<1> DEFINE N == Len(s)
           Q == {n \in 0 .. N : SubSeq(s, 1, n) \in P}
<1>1. N \in Nat /\ SubSeq(s, 1, 0) = << >> /\ SubSeq(s, 1, N) = s
  BY SubSeqFull, SubSeqEmpty, SMT
<1>2. 0 \in Q
  <2>1. 0 \in 0 .. N
    BY <1>1, SMT
  <2> QED
    BY <1>1, <2>1, Zenon
<1>3. ASSUME NEW n \in 1 .. N, n - 1 \in Q PROVE n \in Q
  <2>1. n \in 0 .. N /\ s[n] \in C /\ SubSeq(s, 1, n - 1) \in Seq(C)
    BY <1>1, SMT
  <2>2. SubSeq(s, 1, n) = Append(SubSeq(s, 1, n - 1), s[n])
    BY <1>1, <2>1, SMT
  <2> QED
    BY <1>3, <2>1, <2>2, Zenon
<1>4. N \in 0 .. N
  BY <1>1, SMT
<1> HIDE DEF Q
<1>5. N \in Q
  BY <1>1, <1>2, <1>3, <1>4, Induct, Zenon
<1> QED
  BY <1>1, <1>5, Zenon DEF Q

\* What follows does not change the words of the characters so far.
LEMMA SplitSame ==
    ASSUME NEW C, NEW text \in Seq(C), NEW S, NEW c \in C, NEW k \in 0 .. Len(text)
    PROVE  Split(Append(text, c), S)[k] = Split(text, S)[k]
<1> DEFINE N == Len(text)
           u == Append(text, c)
           P == {n \in 0 .. N : Split(u, S)[n] = Split(text, S)[n]}
<1>1. /\ N \in Nat /\ u \in Seq(C) /\ Len(u) = N + 1
      /\ \A n \in 1 .. N : u[n] = text[n]
  BY AppendProperties, SMT
<1> HIDE DEF u, N
<1>2. 0 \in P
  <2>1. Split(u, S)[0] = << >> /\ Split(text, S)[0] = << >>
    BY <1>1, SplitTurns, Zenon
  <2>2. 0 \in 0 .. N
    BY <1>1, SMT
  <2> QED
    BY <2>1, <2>2, Zenon
<1>3. ASSUME NEW n \in 1 .. N, n - 1 \in P PROVE n \in P
  <2>1. n \in 0 .. N /\ n \in 1 .. Len(u) /\ (n = 1 \/ n - 1 \in 1 .. N)
    BY <1>1, SMT
  <2>2. u[n] = text[n] /\ (n = 1 \/ u[n - 1] = text[n - 1])
    BY <1>1, <2>1, Zenon
  <2>3. \A x : Scanned(x, u, n, S) = Scanned(x, text, n, S)
    BY <2>2, Zenon DEF Scanned
  <2>4. /\ Split(u, S)[n] = Scanned(Split(u, S)[n - 1], u, n, S)
        /\ Split(text, S)[n] = Scanned(Split(text, S)[n - 1], text, n, S)
    BY <1>1, <2>1, SplitTurns, ZenonT(60) DEF N
  <2> QED
    BY <1>3, <2>1, <2>3, <2>4, Zenon
<1> HIDE DEF P
<1>4. \A n \in 0 .. N : n \in P
  BY <1>1, <1>2, <1>3, Induct, Zenon
<1> QED
  BY <1>4, Zenon DEF P, u, N

\* A word ends with the text, so that the next character goes on with it.
Inside(text, S) == text # << >> /\ text[Len(text)] \notin S

\* strtok, character by character.
LEMMA TokensAppend ==
    ASSUME NEW C, NEW text \in Seq(C), NEW S, NEW c \in C
    PROVE  /\ Tokens(<< >>, S) = << >>
           /\ Tokens(text, S) \in Seq(Seq(C))
           /\ c \in S => Tokens(Append(text, c), S) = Tokens(text, S)
           /\ c \notin S /\ ~Inside(text, S)
                => Tokens(Append(text, c), S) = Append(Tokens(text, S), <<c>>)
           /\ c \notin S /\ Inside(text, S)
                => Tokens(Append(text, c), S) = Extended(Tokens(text, S), c)
<1> DEFINE N == Len(text)
           u == Append(text, c)
           M == Len(u)
<1>1. /\ N \in Nat /\ u \in Seq(C) /\ M = N + 1 /\ u[M] = c
      /\ \A n \in 1 .. N : u[n] = text[n]
  BY AppendProperties, SMT
<1>2. /\ << >> \in Seq(C) /\ Len(<< >>) = 0 /\ N \in 0 .. N /\ M \in 1 .. M
      /\ M - 1 = N /\ (text = << >> <=> M = 1) /\ (M # 1 => N \in 1 .. N)
  BY <1>1, SMT
<1>3. Tokens(<< >>, S) = << >>
  BY <1>2, SplitTurns, ZenonT(60) DEF Tokens
<1>4. Tokens(text, S) \in Seq(Seq(C))
  BY <1>2, SplitTurns, Zenon DEF Tokens
<1>5. Split(u, S)[N] = Tokens(text, S)
  BY <1>2, SplitSame, SMT DEF Tokens
<1> HIDE DEF u
<1>6. Tokens(u, S) = Scanned(Tokens(text, S), u, M, S)
  <2>1. \A n \in 1 .. M : Split(u, S)[n] = Scanned(Split(u, S)[n - 1], u, n, S)
    BY <1>1, SplitTurns, Zenon
  <2>2. Tokens(u, S) = Split(u, S)[M]
    BY Zenon DEF Tokens
  <2> HIDE DEF N, M
  <2> QED
    BY <1>2, <1>5, <2>1, <2>2, Zenon
<1> HIDE DEF M
<1>7. Tokens(u, S) = IF c \in S THEN Tokens(text, S)
                     ELSE IF M = 1 \/ u[N] \in S THEN Append(Tokens(text, S), <<c>>)
                     ELSE Extended(Tokens(text, S), c)
  BY <1>1, <1>2, <1>6, Zenon DEF Scanned
<1>8. Inside(text, S) <=> ~(M = 1 \/ u[N] \in S)
  BY <1>1, <1>2, Zenon DEF Inside
<1> QED
  BY <1>3, <1>4, <1>7, <1>8, Zenon DEF u

\* A text without characters has no words.
LEMMA TokensEmpty == ASSUME NEW S PROVE Tokens(<< >>, S) = << >>
<1>1. << >> \in Seq({0}) /\ 0 \in {0}
  BY EmptySeq, Zenon
<1> QED
  BY <1>1, TokensAppend, Zenon

\* The words are texts of the same characters.
LEMMA TokensType ==
    ASSUME NEW C, NEW text \in Seq(C), NEW S
    PROVE  Tokens(text, S) \in Seq(Seq(C))
<1>1. CASE C = {}
  <2>1. text = << >> /\ << >> \in Seq(Seq(C))
    BY <1>1, SMT
  <2> QED
    BY <2>1, TokensEmpty, Zenon
<1>2. CASE C # {}
  BY <1>2, TokensAppend, Zenon
<1> QED
  BY <1>1, <1>2, Zenon

\* A separator adds nothing.
LEMMA TokensBlank ==
    ASSUME NEW C, NEW text \in Seq(C), NEW S, NEW c \in C, c \in S
    PROVE  Tokens(Append(text, c), S) = Tokens(text, S)
  BY TokensAppend, SMT

\* Another character begins a word,
LEMMA TokensBegin ==
    ASSUME NEW C, NEW text \in Seq(C), NEW S, NEW c \in C, c \notin S, ~Inside(text, S)
    PROVE  Tokens(Append(text, c), S) = Append(Tokens(text, S), <<c>>)
  BY TokensAppend, SMT

\* or continues the last one.
LEMMA TokensGrow ==
    ASSUME NEW C, NEW text \in Seq(C), NEW S, NEW c \in C, c \notin S, Inside(text, S)
    PROVE  Tokens(Append(text, c), S) = Extended(Tokens(text, S), c)
  BY TokensAppend, SMT

\* The runs of the join.
JoinRuns(C, words, sep) ==
    {f \in [0 .. Len(words) -> Seq(C)] :
       /\ Joined(words, sep) = f[Len(words)]
       /\ f[0] = << >>
       /\ \A n \in 1 .. Len(words) :
            f[n] = IF n = 1 THEN words[1] ELSE Glued(f[n - 1], sep, words[n])}

\* The join, turn by turn.
LEMMA JoinTurns ==
    ASSUME NEW C, NEW words \in Seq(Seq(C)), NEW sep \in Seq(C)
    PROVE  JoinRuns(C, words, sep) # {}
<1> DEFINE N == Len(words)
           X == Seq(C)
           Turn(n, x) == IF n = 1 THEN words[1] ELSE Glued(x, sep, words[n])
           step == [n \in 1 .. N |-> [x \in X |-> Turn(n, x)]]
           Def(f) == f = [n \in 0 .. N |-> IF n = 0 THEN << >>
                            ELSE IF n = 1 THEN words[1] ELSE Glued(f[n - 1], sep, words[n])]
           g == CHOOSE f : Def(f)
<1>1. N \in Nat /\ << >> \in X /\ N \in 0 .. N /\ 0 \in 0 .. N
  BY SMT
<1>2. ASSUME NEW n \in 1 .. N, NEW x \in X PROVE Turn(n, x) \in X
  <2>1. words[n] \in X /\ (n = 1 => words[1] \in X)
    BY SMT
  <2>2. x \o sep \in X
    BY ConcatProperties, Zenon
  <2>3. (x \o sep) \o words[n] \in X
    BY <2>1, <2>2, ConcatProperties, Zenon
  <2> QED
    BY <2>1, <2>3, Zenon DEF Glued
<1>3. \A n \in 1 .. N : \A x \in X : step[n][x] = Turn(n, x) /\ step[n][x] \in X
  <2> HIDE DEF X, N, Turn
  <2> QED
    BY <1>2, Zenon
<1> HIDE DEF step, X, N
<1>4. PICK f \in [0 .. N -> X] : f[0] = << >> /\ \A n \in 1 .. N : f[n] = step[n][f[n - 1]]
  <2>1. \A n \in 1 .. N : \A x \in X : step[n][x] \in X
    BY <1>3, Zenon
  <2>2. Runs(N, X, << >>, step) # {}
    BY <1>1, <2>1, Recursion, Zenon
  <2> QED
    BY <2>2, Zenon DEF Runs
<1>5. ASSUME NEW n \in 1 .. N PROVE n - 1 \in 0 .. N /\ n \in 0 .. N /\ n # 0
  BY <1>1, SMT
<1>6. Def(f)
  <2>1. ASSUME NEW n \in 0 .. N PROVE n = 0 \/ n \in 1 .. N
    BY <1>1, SMT
  <2>2. ASSUME NEW n \in 1 .. N PROVE f[n] = Turn(n, f[n - 1])
    BY <1>3, <1>4, <1>5, Zenon
  <2>3. ASSUME NEW n \in 0 .. N PROVE f[n] = IF n = 0 THEN << >> ELSE Turn(n, f[n - 1])
    BY <1>4, <1>5, <2>1, <2>2, Zenon
  <2> QED
    BY <1>4, <2>3, Zenon
<1>7. Def(g)
  BY <1>6, Zenon
<1>8. Joined(words, sep) = g[N]
  BY Zenon DEF Joined, N
<1> HIDE DEF g
<1>9. g[0] = << >>
  BY <1>1, <1>7, Zenon
<1>10. ASSUME NEW n \in 1 .. N PROVE g[n] = Turn(n, g[n - 1])
  BY <1>5, <1>7, Zenon
<1>11. \A n \in 0 .. N : g[n] \in X
  <2> DEFINE P == {n \in 0 .. N : g[n] \in X}
  <2>1. 0 \in P
    BY <1>1, <1>9, Zenon
  <2>2. ASSUME NEW n \in 1 .. N, n - 1 \in P PROVE n \in P
    <3>1. g[n] \in X
      <4> HIDE DEF Turn
      <4> QED
        BY <1>2, <1>10, <2>2, Zenon
    <3> QED
      BY <1>5, <3>1, Zenon
  <2> HIDE DEF P
  <2>3. \A n \in 0 .. N : n \in P
    BY <1>1, <2>1, <2>2, Induct, Zenon
  <2> QED
    BY <2>3, Zenon DEF P
<1>12. g \in [0 .. N -> X]
  BY <1>7, <1>11, Zenon
<1> QED
  BY <1>8, <1>9, <1>10, <1>12, Zenon DEF X, N, JoinRuns

\* The first word stands alone, each other one follows a separator.
JoinAdds(words, sep, w) ==
    Joined(Append(words, w), sep) = IF words = << >> THEN w ELSE Joined(words, sep) \o sep \o w

\* The join, word by word.
LEMMA JoinedAppend ==
    ASSUME NEW C, NEW words \in Seq(Seq(C)), NEW sep \in Seq(C), NEW w \in Seq(C)
    PROVE  /\ Joined(<< >>, sep) = << >>
           /\ Joined(words, sep) \in Seq(C)
           /\ JoinAdds(words, sep, w)
<1> DEFINE N == Len(words)
           u == Append(words, w)
           M == Len(u)
<1>1. /\ N \in Nat /\ u \in Seq(Seq(C)) /\ M = N + 1 /\ u[M] = w
      /\ \A n \in 1 .. N : u[n] = words[n]
  BY AppendProperties, SMT
<1>2. /\ << >> \in Seq(Seq(C)) /\ Len(<< >>) = 0 /\ 0 \in 0 .. N /\ N \in 0 .. N /\ M \in 1 .. M
      /\ M - 1 = N /\ (words = << >> <=> M = 1)
  BY <1>1, SMT
<1> HIDE DEF u
<1>3. Joined(<< >>, sep) = << >>
  <2>1. PICK f : f \in JoinRuns(C, << >>, sep)
    BY <1>2, JoinTurns, Zenon
  <2> QED
    BY <1>2, <2>1, Zenon DEF JoinRuns
<1>4. PICK f \in [0 .. N -> Seq(C)] :
             /\ Joined(words, sep) = f[N]
             /\ f[0] = << >>
             /\ \A n \in 1 .. N : f[n] = IF n = 1 THEN words[1] ELSE Glued(f[n - 1], sep, words[n])
  <2>1. JoinRuns(C, words, sep) # {}
    BY JoinTurns, Zenon
  <2> QED
    BY <2>1, Zenon DEF JoinRuns
<1>5. PICK g \in [0 .. M -> Seq(C)] :
             /\ Joined(u, sep) = g[M]
             /\ g[0] = << >>
             /\ \A n \in 1 .. M : g[n] = IF n = 1 THEN u[1] ELSE Glued(g[n - 1], sep, u[n])
  <2>1. JoinRuns(C, u, sep) # {}
    BY <1>1, JoinTurns, Zenon
  <2> QED
    BY <2>1, Zenon DEF JoinRuns
<1> HIDE DEF N, M
<1>6. g[N] = f[N]
  <2> DEFINE P == {n \in 0 .. N : g[n] = f[n]}
  <2>1. 0 \in P
    BY <1>2, <1>4, <1>5, Zenon
  <2>2. ASSUME NEW n \in 1 .. N, n - 1 \in P PROVE n \in P
    <3>1. n \in 0 .. N /\ n \in 1 .. M /\ u[n] = words[n] /\ (n = 1 => u[1] = words[1])
      BY <1>1, SMTT(60)
    <3>2. f[n] = IF n = 1 THEN words[1] ELSE Glued(f[n - 1], sep, words[n])
      BY <1>4, Zenon
    <3>3. g[n] = IF n = 1 THEN u[1] ELSE Glued(g[n - 1], sep, u[n])
      BY <1>5, <3>1, Zenon
    <3> QED
      BY <2>2, <3>1, <3>2, <3>3, Zenon
  <2> HIDE DEF P
  <2>3. \A n \in 0 .. N : n \in P
    BY <1>1, <2>1, <2>2, Induct, Zenon
  <2> QED
    BY <1>2, <2>3, Zenon DEF P
<1>7. g[M] = IF words = << >> THEN w ELSE Joined(words, sep) \o sep \o w
  <2>1. g[M] = IF M = 1 THEN u[1] ELSE Glued(g[M - 1], sep, u[M])
    BY <1>2, <1>5, Zenon
  <2>2. CASE M = 1
    <3>1. g[M] = u[1] /\ u[1] = w /\ words = << >>
      BY <1>1, <1>2, <2>1, <2>2, Zenon
    <3> QED
      BY <3>1, Zenon
  <2>3. CASE M # 1
    <3>1. g[M] = Glued(Joined(words, sep), sep, w) /\ words # << >>
      BY <1>1, <1>2, <1>4, <1>6, <2>1, <2>3, Zenon
    <3> QED
      BY <3>1, Zenon DEF Glued
  <2> QED
    BY <2>2, <2>3, Zenon
<1>8. f[N] \in Seq(C)
  BY <1>2, <1>4, Zenon
<1> QED
  BY <1>3, <1>4, <1>5, <1>7, <1>8, Zenon DEF u, JoinAdds

\* No words give no text,
LEMMA JoinedEmpty == ASSUME NEW C, NEW sep \in Seq(C) PROVE Joined(<< >>, sep) = << >>
<1>1. << >> \in Seq(Seq(C)) /\ << >> \in Seq(C)
  BY EmptySeq, Zenon
<1> QED
  BY <1>1, JoinedAppend, Zenon

\* words of some characters a text of them.
LEMMA JoinedType ==
    ASSUME NEW C, NEW words \in Seq(Seq(C)), NEW sep \in Seq(C)
    PROVE  Joined(words, sep) \in Seq(C)
<1>1. << >> \in Seq(C)
  BY EmptySeq, Zenon
<1> QED
  BY <1>1, JoinedAppend, Zenon

\* The runs of the removal of the spaces.
SqueezeRuns(C, text) ==
    {f \in [0 .. Len(text) -> Seq(C)] :
       /\ Squeezed(text) = f[Len(text)]
       /\ f[0] = << >>
       /\ \A n \in 1 .. Len(text) :
            f[n] = IF text[n] = " " THEN f[n - 1] ELSE Append(f[n - 1], text[n])}

\* The removal of the spaces, turn by turn.
LEMMA SqueezeTurns == ASSUME NEW C, NEW text \in Seq(C) PROVE SqueezeRuns(C, text) # {}
<1> DEFINE N == Len(text)
           X == Seq(C)
           Turn(n, x) == IF text[n] = " " THEN x ELSE Append(x, text[n])
           step == [n \in 1 .. N |-> [x \in X |-> Turn(n, x)]]
           Def(f) == f = [n \in 0 .. N |-> IF n = 0 THEN << >>
                            ELSE IF text[n] = " " THEN f[n - 1] ELSE Append(f[n - 1], text[n])]
           g == CHOOSE f : Def(f)
<1>1. N \in Nat /\ << >> \in X /\ N \in 0 .. N /\ 0 \in 0 .. N
  BY SMT
<1>2. ASSUME NEW n \in 1 .. N, NEW x \in X PROVE Turn(n, x) \in X
  <2>1. text[n] \in C
    BY SMT
  <2> QED
    BY <2>1, AppendProperties, Zenon
<1>3. \A n \in 1 .. N : \A x \in X : step[n][x] = Turn(n, x) /\ step[n][x] \in X
  <2> HIDE DEF X, N, Turn
  <2> QED
    BY <1>2, Zenon
<1> HIDE DEF step, X, N
<1>4. PICK f \in [0 .. N -> X] : f[0] = << >> /\ \A n \in 1 .. N : f[n] = step[n][f[n - 1]]
  <2>1. \A n \in 1 .. N : \A x \in X : step[n][x] \in X
    BY <1>3, Zenon
  <2>2. Runs(N, X, << >>, step) # {}
    BY <1>1, <2>1, Recursion, Zenon
  <2> QED
    BY <2>2, Zenon DEF Runs
<1>5. ASSUME NEW n \in 1 .. N PROVE n - 1 \in 0 .. N /\ n \in 0 .. N /\ n # 0
  BY <1>1, SMT
<1>6. Def(f)
  <2>1. ASSUME NEW n \in 0 .. N PROVE n = 0 \/ n \in 1 .. N
    BY <1>1, SMT
  <2>2. ASSUME NEW n \in 1 .. N PROVE f[n] = Turn(n, f[n - 1])
    BY <1>3, <1>4, <1>5, Zenon
  <2>3. ASSUME NEW n \in 0 .. N PROVE f[n] = IF n = 0 THEN << >> ELSE Turn(n, f[n - 1])
    BY <1>4, <1>5, <2>1, <2>2, Zenon
  <2> QED
    BY <1>4, <2>3, Zenon
<1>7. Def(g)
  BY <1>6, Zenon
<1>8. Squeezed(text) = g[N]
  BY Zenon DEF Squeezed, N
<1> HIDE DEF g
<1>9. g[0] = << >>
  BY <1>1, <1>7, Zenon
<1>10. ASSUME NEW n \in 1 .. N PROVE g[n] = Turn(n, g[n - 1])
  BY <1>5, <1>7, Zenon
<1>11. \A n \in 0 .. N : g[n] \in X
  <2> DEFINE P == {n \in 0 .. N : g[n] \in X}
  <2>1. 0 \in P
    BY <1>1, <1>9, Zenon
  <2>2. ASSUME NEW n \in 1 .. N, n - 1 \in P PROVE n \in P
    <3>1. g[n] \in X
      <4> HIDE DEF Turn
      <4> QED
        BY <1>2, <1>10, <2>2, Zenon
    <3> QED
      BY <1>5, <3>1, Zenon
  <2> HIDE DEF P
  <2>3. \A n \in 0 .. N : n \in P
    BY <1>1, <2>1, <2>2, Induct, Zenon
  <2> QED
    BY <2>3, Zenon DEF P
<1>12. g \in [0 .. N -> X]
  BY <1>7, <1>11, Zenon
<1> QED
  BY <1>8, <1>9, <1>10, <1>12, Zenon DEF X, N, SqueezeRuns

\* The removal of the spaces, character by character.
LEMMA SqueezedAppend ==
    ASSUME NEW C, NEW text \in Seq(C), NEW c \in C
    PROVE  /\ Squeezed(<< >>) = << >>
           /\ Squeezed(text) \in Seq(C)
           /\ Squeezed(Append(text, c)) =
                IF c = " " THEN Squeezed(text) ELSE Append(Squeezed(text), c)
<1> DEFINE N == Len(text)
           u == Append(text, c)
           M == Len(u)
<1>1. /\ N \in Nat /\ u \in Seq(C) /\ M = N + 1 /\ u[M] = c
      /\ \A n \in 1 .. N : u[n] = text[n]
  BY AppendProperties, SMT
<1>2. /\ << >> \in Seq(C) /\ Len(<< >>) = 0 /\ 0 \in 0 .. N /\ N \in 0 .. N /\ M \in 1 .. M
      /\ M - 1 = N
  BY <1>1, SMT
<1> HIDE DEF u
<1>3. Squeezed(<< >>) = << >>
  <2>1. PICK f : f \in SqueezeRuns(C, << >>)
    BY <1>2, SqueezeTurns, Zenon
  <2> QED
    BY <1>2, <2>1, Zenon DEF SqueezeRuns
<1>4. PICK f \in [0 .. N -> Seq(C)] :
             /\ Squeezed(text) = f[N]
             /\ f[0] = << >>
             /\ \A n \in 1 .. N : f[n] = IF text[n] = " " THEN f[n - 1] ELSE Append(f[n - 1], text[n])
  <2>1. SqueezeRuns(C, text) # {}
    BY SqueezeTurns, Zenon
  <2> QED
    BY <2>1, Zenon DEF SqueezeRuns
<1>5. PICK g \in [0 .. M -> Seq(C)] :
             /\ Squeezed(u) = g[M]
             /\ g[0] = << >>
             /\ \A n \in 1 .. M : g[n] = IF u[n] = " " THEN g[n - 1] ELSE Append(g[n - 1], u[n])
  <2>1. SqueezeRuns(C, u) # {}
    BY <1>1, SqueezeTurns, Zenon
  <2> QED
    BY <2>1, Zenon DEF SqueezeRuns
<1> HIDE DEF N, M
<1>6. g[N] = f[N]
  <2> DEFINE P == {n \in 0 .. N : g[n] = f[n]}
  <2>1. 0 \in P
    BY <1>2, <1>4, <1>5, Zenon
  <2>2. ASSUME NEW n \in 1 .. N, n - 1 \in P PROVE n \in P
    <3>1. n \in 0 .. N /\ n \in 1 .. M /\ u[n] = text[n]
      BY <1>1, SMT
    <3>2. f[n] = IF text[n] = " " THEN f[n - 1] ELSE Append(f[n - 1], text[n])
      BY <1>4, Zenon
    <3>3. g[n] = IF u[n] = " " THEN g[n - 1] ELSE Append(g[n - 1], u[n])
      BY <1>5, <3>1, Zenon
    <3> QED
      BY <2>2, <3>1, <3>2, <3>3, Zenon
  <2> HIDE DEF P
  <2>3. \A n \in 0 .. N : n \in P
    BY <1>1, <2>1, <2>2, Induct, Zenon
  <2> QED
    BY <1>2, <2>3, Zenon DEF P
<1>7. g[M] = IF c = " " THEN Squeezed(text) ELSE Append(Squeezed(text), c)
  <2>1. g[M] = IF u[M] = " " THEN g[M - 1] ELSE Append(g[M - 1], u[M])
    BY <1>2, <1>5, Zenon
  <2>2. g[M - 1] = Squeezed(text)
    BY <1>2, <1>4, <1>6, Zenon
  <2> QED
    BY <1>1, <2>1, <2>2, Zenon
<1>8. f[N] \in Seq(C)
  BY <1>2, <1>4, Zenon
<1> QED
  BY <1>3, <1>4, <1>5, <1>7, <1>8, Zenon DEF u

\* What the join puts between two words.
Space == " "

\* A text without characters has no spaces to remove,
LEMMA SqueezedEmpty == Squeezed(<< >>) = << >>
<1>1. << >> \in Seq({0}) /\ 0 \in {0}
  BY EmptySeq, Zenon
<1> QED
  BY <1>1, SqueezedAppend, Zenon

\* and what is left of a text are some of its characters.
LEMMA SqueezedType == ASSUME NEW C, NEW text \in Seq(C) PROVE Squeezed(text) \in Seq(C)
<1>1. CASE C = {}
  <2>1. text = << >> /\ << >> \in Seq(C)
    BY <1>1, SMT
  <2> QED
    BY <2>1, SqueezedEmpty, Zenon
<1>2. CASE C # {}
  BY <1>2, SqueezedAppend, Zenon
<1> QED
  BY <1>1, <1>2, Zenon

\* A space is left out,
LEMMA SqueezedOut ==
    ASSUME NEW C, NEW text \in Seq(C), NEW c \in C, c = Space
    PROVE  Squeezed(Append(text, c)) = Squeezed(text)
<1> DEFINE u == Append(text, c)
<1>1. Squeezed(u) = IF c = " " THEN Squeezed(text) ELSE Append(Squeezed(text), c)
  BY SqueezedAppend, ZenonT(60)
<1> QED
  BY <1>1, Zenon DEF Space

\* any other character is kept.
LEMMA SqueezedIn ==
    ASSUME NEW C, NEW text \in Seq(C), NEW c \in C, c # Space
    PROVE  Squeezed(Append(text, c)) = Append(Squeezed(text), c)
<1> DEFINE u == Append(text, c)
<1>1. Squeezed(u) = IF c = " " THEN Squeezed(text) ELSE Append(Squeezed(text), c)
  BY SqueezedAppend, ZenonT(60)
<1> QED
  BY <1>1, Zenon DEF Space

\* What is appended to a sequence is its last element,
LEMMA AppendLast ==
    ASSUME NEW C, NEW s \in Seq(C), NEW c \in C
    PROVE  /\ Append(s, c) \in Seq(C) /\ Append(s, c) # << >>
           /\ Append(s, c)[Len(Append(s, c))] = c
  BY SMT

\* also of a longer one.
LEMMA AppendConcat ==
    ASSUME NEW C, NEW s \in Seq(C), NEW t \in Seq(C), NEW c \in C
    PROVE  s \o Append(t, c) = Append(s \o t, c)
  BY SMT

\* A single word grows.
LEMMA ExtendedOne == ASSUME NEW w, NEW c PROVE Extended(<<w>>, c) = <<Append(w, c)>>
  BY SMT DEF Extended

\* A last word grows: the words are some others and that one.
LEMMA ExtendedLast ==
    ASSUME NEW C, NEW words \in Seq(Seq(C)), NEW w \in Seq(C), NEW c \in C
    PROVE  Extended(Append(words, w), c) = Append(words, Append(w, c))
<1> DEFINE u == Append(words, w)
           v == Append(words, Append(w, c))
           N == Len(words)
<1>1. Append(w, c) \in Seq(C) /\ N \in Nat
  BY SMT
<1>2. /\ u \in Seq(Seq(C)) /\ Len(u) = N + 1
      /\ (\A i \in 1 .. N : u[i] = words[i]) /\ u[N + 1] = w
  BY <1>1, SMT
<1>3. /\ v \in Seq(Seq(C)) /\ Len(v) = N + 1
      /\ (\A i \in 1 .. N : v[i] = words[i]) /\ v[N + 1] = Append(w, c)
  BY <1>1, SMT
<1> HIDE DEF u, v
<1>4. /\ Extended(u, c) \in Seq(Seq(C)) /\ Len(Extended(u, c)) = Len(u)
      /\ \A i \in 1 .. Len(u) : Extended(u, c)[i] = IF i = Len(u) THEN Append(u[i], c) ELSE u[i]
  BY <1>2, ExtendedFacts, ZenonT(60)
<1>5. ASSUME NEW i \in 1 .. N + 1 PROVE Extended(u, c)[i] = v[i]
  <2>1. CASE i = N + 1
    BY <1>2, <1>3, <1>4, <2>1, Zenon
  <2>2. CASE i # N + 1
    <3>1. i \in 1 .. N /\ i \in 1 .. Len(u) /\ i # Len(u)
      BY <1>1, <1>2, <2>2, SMT
    <3> QED
      BY <1>2, <1>3, <1>4, <3>1, Zenon
  <2> QED
    BY <2>1, <2>2, Zenon
<1>6. Extended(u, c) = v
  <2>1. Len(Extended(u, c)) = Len(v) /\ \A i \in 1 .. Len(Extended(u, c)) : Extended(u, c)[i] = v[i]
    BY <1>2, <1>3, <1>4, <1>5, Zenon
  <2> QED
    BY <1>3, <1>4, <2>1, SeqEqual, Zenon
<1> QED
  BY <1>6, Zenon DEF u, v

\* Characters before the last word do not matter to its growth.
LEMMA ExtendedConcat ==
    ASSUME NEW C, NEW s \in Seq(Seq(C)), NEW t \in Seq(Seq(C)), NEW c \in C, t # << >>
    PROVE  Extended(s \o t, c) = s \o Extended(t, c)
<1>1. PICK f \in Seq(Seq(C)), w \in Seq(C) : t = Append(f, w)
  BY SequenceEmptyOrAppend, Zenon
<1>2. Append(w, c) \in Seq(C) /\ s \o f \in Seq(Seq(C))
  BY AppendProperties, ConcatProperties, Zenon
<1>3. ASSUME NEW v \in Seq(C) PROVE s \o Append(f, v) = Append(s \o f, v)
  BY <1>2, SMTT(60)
<1>4. Extended(t, c) = Append(f, Append(w, c))
  BY <1>1, ExtendedLast, SMT
<1>5. Extended(Append(s \o f, w), c) = Append(s \o f, Append(w, c))
  <2> DEFINE h == s \o f
  <2>1. h \in Seq(Seq(C))
    BY <1>2, Zenon
  <2> HIDE DEF h
  <2>2. Extended(Append(h, w), c) = Append(h, Append(w, c))
    BY <2>1, ExtendedLast, SMT
  <2> QED
    BY <2>2, Zenon DEF h
<1>6. s \o t = Append(s \o f, w) /\ s \o Extended(t, c) = Append(s \o f, Append(w, c))
  BY <1>1, <1>2, <1>3, <1>4, Zenon
<1> QED
  BY <1>5, <1>6, Zenon

\* A text that ends inside a word has a word.
LEMMA InsideHasWord ==
    ASSUME NEW C, NEW S, NEW text \in Seq(C), Inside(text, S)
    PROVE  Tokens(text, S) # << >>
<1> DEFINE P == {t \in Seq(C) : Inside(t, S) => Tokens(t, S) # << >>}
<1>1. << >> \in P
  BY EmptySeq, Zenon DEF Inside
<1>2. ASSUME NEW t \in Seq(C), NEW c \in C, t \in P PROVE Append(t, c) \in P
  <2> DEFINE u == Append(t, c)
             W == Tokens(t, S)
  <2>1. u \in Seq(C) /\ u[Len(u)] = c /\ <<c>> \in Seq(C)
    BY SMT
  <2>2. W \in Seq(Seq(C))
    BY TokensType, Zenon
  <2>3. CASE c \in S
    BY <2>1, <2>3, Zenon DEF Inside
  <2>4. CASE c \notin S /\ ~Inside(t, S)
    <3>1. Tokens(u, S) = Append(W, <<c>>)
      BY <2>4, TokensBegin, SMT
    <3>2. Append(W, <<c>>) # << >>
      <4> DEFINE X == Seq(C)
                 w == <<c>>
      <4>1. W \in Seq(X) /\ w \in X
        BY <2>1, <2>2, Zenon
      <4> HIDE DEF W, X, w
      <4>2. Append(W, w) # << >>
        BY <4>1, AppendLast, Zenon
      <4> QED
        BY <4>2, Zenon DEF w
    <3> QED
      BY <2>1, <3>1, <3>2, Zenon
  <2>5. CASE c \notin S /\ Inside(t, S)
    <3>1. Tokens(u, S) = Extended(W, c)
      BY <2>5, TokensGrow, SMT
    <3>2. Len(Extended(W, c)) = Len(W)
      BY <2>2, ExtendedFacts, Zenon
    <3>3. Len(W) # 0
      BY <1>2, <2>2, <2>5, SMT
    <3>4. Tokens(u, S) # << >>
      BY <3>1, <3>2, <3>3, EmptySeq, Zenon
    <3> QED
      BY <2>1, <3>4, Zenon
  <2> QED
    BY <2>3, <2>4, <2>5, Zenon
<1> HIDE DEF P
<1>3. text \in P
  BY <1>1, <1>2, SeqInduct, Zenon
<1> QED
  BY <1>3, Zenon DEF P

\* The words of two texts with a separator between them are those of the one and
\* those of the other.
WordsAdd(s, c, text, S) == Tokens(Append(s, c) \o text, S) = Tokens(s, S) \o Tokens(text, S)

\* strtok begins anew at each separator.
LEMMA TokensConcat ==
    ASSUME NEW C, NEW S, NEW s \in Seq(C), NEW c \in C, c \in S, NEW text \in Seq(C)
    PROVE  WordsAdd(s, c, text, S)
<1> DEFINE a == Append(s, c)
           A == Tokens(s, S)
           P == {t \in Seq(C) : Tokens(a \o t, S) = A \o Tokens(t, S)}
<1>1. a \in Seq(C) /\ Len(a) \in Nat \ {0} /\ a[Len(a)] = c
  BY SMT
<1>2. Tokens(a, S) = A
  BY TokensBlank, SMT
<1>3. A \in Seq(Seq(C))
  BY TokensType, Zenon
<1> HIDE DEF a, A
<1>4. << >> \in P
  <2>1. a \o << >> = a /\ A \o << >> = A /\ << >> \in Seq(C)
    BY <1>1, <1>3, ConcatEmptySeq, EmptySeq, Zenon
  <2> QED
    BY <1>2, <2>1, TokensEmpty, Zenon
<1>5. ASSUME NEW t \in Seq(C), NEW d \in C, t \in P PROVE Append(t, d) \in P
  <2> DEFINE u == a \o t
             W == Tokens(t, S)
  <2>1. /\ u \in Seq(C) /\ u # << >> /\ Append(t, d) \in Seq(C)
        /\ a \o Append(t, d) = Append(u, d)
        /\ u[Len(u)] = IF t = << >> THEN c ELSE t[Len(t)]
    BY <1>1, SMTT(60)
  <2>2. W \in Seq(Seq(C)) /\ Tokens(u, S) = A \o W
    BY <1>5, TokensType, Zenon
  <2>3. Inside(u, S) <=> Inside(t, S)
    BY <2>1, Zenon DEF Inside
  <2>4. Inside(t, S) => W # << >>
    BY InsideHasWord, Zenon
  <2>5. <<d>> \in Seq(C)
    BY SMT
  <2> HIDE DEF u
  <2>6. CASE d \in S
    <3>1. Tokens(Append(u, d), S) = Tokens(u, S) /\ Tokens(Append(t, d), S) = W
      BY <2>1, <2>6, TokensBlank, SMT
    <3> QED
      BY <2>1, <2>2, <3>1, Zenon
  <2>7. CASE d \notin S /\ ~Inside(t, S)
    <3>1. Tokens(Append(u, d), S) = Append(Tokens(u, S), <<d>>)
      BY <2>1, <2>3, <2>7, TokensBegin, SMTT(60)
    <3>2. Tokens(Append(t, d), S) = Append(W, <<d>>)
      BY <2>7, TokensBegin, SMT
    <3> HIDE DEF W
    <3>3. A \o Append(W, <<d>>) = Append(A \o W, <<d>>)
      <4> DEFINE X == Seq(C)
                 w == <<d>>
      <4>1. A \in Seq(X) /\ W \in Seq(X) /\ w \in X
        BY <1>3, <2>2, <2>5, Zenon
      <4> HIDE DEF X, w
      <4>2. A \o Append(W, w) = Append(A \o W, w)
        BY <4>1, AppendConcat, SMT
      <4> QED
        BY <4>2, Zenon DEF w
    <3> QED
      BY <2>1, <2>2, <3>1, <3>2, <3>3, Zenon
  <2>8. CASE d \notin S /\ Inside(t, S)
    <3>1. Tokens(Append(u, d), S) = Extended(Tokens(u, S), d)
      BY <2>1, <2>3, <2>8, TokensGrow, SMT
    <3>2. Tokens(Append(t, d), S) = Extended(W, d)
      BY <2>8, TokensGrow, SMT
    <3> HIDE DEF W
    <3>3. Extended(A \o W, d) = A \o Extended(W, d)
      BY <1>3, <2>2, <2>4, <2>8, ExtendedConcat, SMTT(60)
    <3> QED
      BY <2>1, <2>2, <3>1, <3>2, <3>3, Zenon
  <2> QED
    BY <2>6, <2>7, <2>8, Zenon
<1> HIDE DEF P
<1>6. text \in P
  BY <1>4, <1>5, SeqInduct, Zenon
<1> QED
  BY <1>6, Zenon DEF P, a, A, WordsAdd

\* Separators after a text add no word.
LEMMA TokensBlanks ==
    ASSUME NEW C, NEW S, NEW s \in Seq(C), NEW B, B \subseteq C, B \subseteq S, NEW text \in Seq(B)
    PROVE  Tokens(s \o text, S) = Tokens(s, S)
<1> DEFINE P == {t \in Seq(B) : Tokens(s \o t, S) = Tokens(s, S)}
<1>1. << >> \in P
  BY ConcatEmptySeq, EmptySeq, Zenon
<1>2. ASSUME NEW t \in Seq(B), NEW d \in B, t \in P PROVE Append(t, d) \in P
  <2> DEFINE u == s \o t
  <2>1. Append(t, d) \in Seq(B) /\ t \in Seq(C) /\ d \in C /\ d \in S
    BY SMT
  <2>2. u \in Seq(C) /\ s \o Append(t, d) = Append(u, d)
    BY <2>1, SMT
  <2>3. Tokens(u, S) = Tokens(s, S)
    BY <1>2, Zenon
  <2> HIDE DEF u
  <2>4. Tokens(Append(u, d), S) = Tokens(u, S)
    BY <2>1, <2>2, TokensBlank, SMT
  <2> QED
    BY <2>1, <2>2, <2>3, <2>4, Zenon
<1> HIDE DEF P
<1>3. text \in P
  BY <1>1, <1>2, SeqInduct, Zenon
<1> QED
  BY <1>3, Zenon DEF P

\* A text without separators is one word.
LEMMA OneWord ==
    ASSUME NEW C, NEW S, C \cap S = {}, NEW text \in Seq(C), text # << >>
    PROVE  Tokens(text, S) = <<text>>
<1> DEFINE P == {t \in Seq(C) : t # << >> => Tokens(t, S) = <<t>>}
<1>1. << >> \in P
  BY EmptySeq, Zenon
<1>2. ASSUME NEW t \in Seq(C), NEW d \in C, t \in P PROVE Append(t, d) \in P
  <2>1. d \notin S /\ Append(t, d) \in Seq(C) /\ (t # << >> => t[Len(t)] \in C)
    BY SMT
  <2>2. CASE t = << >>
    <3>1. ~Inside(t, S)
      BY <2>2, Zenon DEF Inside
    <3>2. Tokens(Append(t, d), S) = Append(Tokens(t, S), <<d>>)
      BY <2>1, <3>1, TokensBegin, SMTT(60)
    <3>3. Append(t, d) = <<d>> /\ Tokens(t, S) = << >>
      BY <2>2, TokensEmpty, SMT
    <3>4. Append(<< >>, <<d>>) = << <<d>> >>
      BY SMT
    <3> QED
      BY <2>1, <3>2, <3>3, <3>4, Zenon
  <2>3. CASE t # << >>
    <3>1. Inside(t, S)
      BY <2>1, <2>3, Zenon DEF Inside
    <3>2. Tokens(Append(t, d), S) = Extended(Tokens(t, S), d)
      BY <2>1, <3>1, TokensGrow, SMT
    <3>3. Tokens(t, S) = <<t>>
      BY <1>2, <2>3, Zenon
    <3> QED
      BY <2>1, <3>2, <3>3, ExtendedOne, Zenon
  <2> QED
    BY <2>2, <2>3, Zenon
<1> HIDE DEF P
<1>3. text \in P
  BY <1>1, <1>2, SeqInduct, Zenon
<1> QED
  BY <1>3, Zenon DEF P

\* strtok undoes the join.
FoundAgain(words, c, S) == Tokens(Joined(words, <<c>>), S) = words

\* The words that are joined are those that strtok finds, if none is empty or
\* has a separator in it.
LEMMA TokensJoined ==
    ASSUME NEW D, NEW S, D \cap S = {}, NEW c \in S, NEW words \in Seq(Seq(D) \ {<< >>})
    PROVE  FoundAgain(words, c, S)
<1> DEFINE X == Seq(D) \ {<< >>}
           C == D \cup {c}
           P == {W \in Seq(X) : Tokens(Joined(W, <<c>>), S) = W}
<1>1. /\ <<c>> \in Seq(C) /\ c \in C /\ D \subseteq C
      /\ \A w \in X : w \in Seq(C) /\ w \in Seq(D) /\ w # << >>
  BY SMT
<1>2. \A W \in Seq(X) : W \in Seq(Seq(C))
  <2>1. X \subseteq Seq(C)
    BY <1>1, Zenon
  <2> QED
    BY <2>1, SeqMonotonic, Zenon
<1> HIDE DEF X, C
<1>3. << >> \in P
  <2>1. << >> \in Seq(X) /\ << >> \in Seq(Seq(C)) /\ << >> \in Seq(C)
    BY EmptySeq, Zenon
  <2>2. Joined(<< >>, <<c>>) = << >>
    BY <1>1, JoinedEmpty, Zenon
  <2> QED
    BY <2>1, <2>2, TokensEmpty, Zenon
<1>4. ASSUME NEW W \in Seq(X), NEW w \in X, W \in P PROVE Append(W, w) \in P
  <2> DEFINE j == Joined(W, <<c>>)
  <2>1. Append(W, w) \in Seq(X)
    BY AppendLast, Zenon
  <2>2. /\ W \in Seq(Seq(C)) /\ w \in Seq(C)
        /\ Tokens(j, S) = W
    BY <1>1, <1>2, <1>4, Zenon
  <2>3. /\ j \in Seq(C)
        /\ Joined(Append(W, w), <<c>>) = IF W = << >> THEN w ELSE j \o <<c>> \o w
    <3> DEFINE sep == <<c>>
    <3>1. sep \in Seq(C) /\ W \in Seq(Seq(C)) /\ w \in Seq(C)
      BY <1>1, <2>2, Zenon
    <3> HIDE DEF sep
    <3>2. Joined(W, sep) \in Seq(C)
      BY <3>1, JoinedType, Zenon
    <3>3. JoinAdds(W, sep, w)
      BY <3>1, JoinedAppend, Zenon
    <3> QED
      BY <3>2, <3>3, Zenon DEF sep, JoinAdds
  <2>4. Tokens(w, S) = <<w>>
    BY <1>1, OneWord, Zenon
  <2> HIDE DEF j
  <2>5. CASE W = << >>
    <3>1. Append(W, w) = <<w>>
      BY <2>5, SMT
    <3> QED
      BY <2>1, <2>3, <2>4, <2>5, <3>1, Zenon
  <2>6. CASE W # << >>
    <3>1. j \o <<c>> \o w = Append(j, c) \o w
      BY <1>1, <2>2, <2>3, AppendIsConcat, Zenon
    <3>2. Tokens(Append(j, c) \o w, S) = Tokens(j, S) \o Tokens(w, S)
      <4>1. c \in C /\ c \in S /\ w \in Seq(C) /\ j \in Seq(C)
        BY <1>1, <2>2, <2>3, Zenon
      <4>2. WordsAdd(j, c, w, S)
        BY <4>1, TokensConcat, Zenon
      <4> QED
        BY <4>2, Zenon DEF WordsAdd
    <3>3. W \o <<w>> = Append(W, w)
      BY AppendIsConcat, Zenon
    <3> QED
      BY <2>1, <2>2, <2>3, <2>4, <2>6, <3>1, <3>2, <3>3, Zenon
  <2> QED
    BY <2>5, <2>6, Zenon
<1> HIDE DEF P
<1>5. words \in P
  BY <1>3, <1>4, SeqInduct, Zenon DEF X
<1> QED
  BY <1>5, Zenon DEF P, FoundAgain

\* Spaces are removed piece by piece.
LEMMA SqueezedConcat ==
    ASSUME NEW C, NEW s \in Seq(C), NEW text \in Seq(C)
    PROVE  Squeezed(s \o text) = Squeezed(s) \o Squeezed(text)
<1> DEFINE A == Squeezed(s)
           P == {t \in Seq(C) : Squeezed(s \o t) = A \o Squeezed(t)}
<1>1. A \in Seq(C)
  BY SqueezedType, Zenon
<1> HIDE DEF A
<1>2. << >> \in P
  <2>1. s \o << >> = s /\ A \o << >> = A /\ << >> \in Seq(C)
    BY <1>1, ConcatEmptySeq, EmptySeq, Zenon
  <2> QED
    BY <2>1, SqueezedEmpty, Zenon DEF A
<1>3. ASSUME NEW t \in Seq(C), NEW d \in C, t \in P PROVE Append(t, d) \in P
  <2> DEFINE u == s \o t
             q == Squeezed(t)
  <2>1. u \in Seq(C) /\ Append(t, d) \in Seq(C) /\ s \o Append(t, d) = Append(u, d)
    BY SMT
  <2>2. Squeezed(u) = A \o q /\ q \in Seq(C)
    BY <1>3, SqueezedType, Zenon
  <2> HIDE DEF u
  <2>3. CASE d = Space
    <3>1. Squeezed(Append(u, d)) = Squeezed(u) /\ Squeezed(Append(t, d)) = q
      BY <2>1, <2>3, SqueezedOut, SMT
    <3> QED
      BY <2>1, <2>2, <3>1, Zenon
  <2>4. CASE d # Space
    <3>1. Squeezed(Append(u, d)) = Append(Squeezed(u), d)
      BY <2>1, <2>4, SqueezedIn, SMT
    <3>2. Squeezed(Append(t, d)) = Append(q, d)
      BY <2>4, SqueezedIn, SMT
    <3> HIDE DEF q
    <3>3. A \o Append(q, d) = Append(A \o q, d)
      BY <1>1, <2>2, AppendConcat, SMT
    <3> QED
      BY <2>1, <2>2, <3>1, <3>2, <3>3, Zenon
  <2> QED
    BY <2>3, <2>4, Zenon
<1> HIDE DEF P
<1>4. text \in P
  BY <1>2, <1>3, SeqInduct, Zenon
<1> QED
  BY <1>4, Zenon DEF P, A

\* Spaces between words are removed with those inside them.
LEMMA SqueezedJoined ==
    ASSUME NEW C, NEW words \in Seq(Seq(C)), Space \in C
    PROVE  Squeezed(Joined(words, <<Space>>)) = Squeezed(Joined(words, << >>))
<1> DEFINE X == Seq(C)
           sep == <<Space>>
           P == {W \in Seq(X) : Squeezed(Joined(W, sep)) = Squeezed(Joined(W, << >>))}
<1>1. sep \in X /\ << >> \in X /\ << >> \in Seq(X) /\ sep = Append(<< >>, Space)
  BY SMT
<1>2. Squeezed(sep) = << >>
  <2>1. Squeezed(Append(<< >>, Space)) = Squeezed(<< >>)
    BY <1>1, SqueezedOut, Zenon
  <2> QED
    BY <1>1, <2>1, SqueezedEmpty, Zenon
<1> HIDE DEF sep
<1>3. << >> \in P
  <2>1. Joined(<< >>, sep) = << >> /\ Joined(<< >>, << >>) = << >>
    BY <1>1, JoinedEmpty, Zenon
  <2> QED
    BY <1>1, <2>1, Zenon
<1>4. ASSUME NEW W \in Seq(X), NEW w \in X, W \in P PROVE Append(W, w) \in P
  <2> DEFINE j == Joined(W, sep)
             k == Joined(W, << >>)
  <2>1. Append(W, w) \in Seq(X)
    BY AppendLast, Zenon
  <2>2. j \in X /\ Joined(Append(W, w), sep) = IF W = << >> THEN w ELSE j \o sep \o w
    <3>1. JoinAdds(W, sep, w) /\ Joined(W, sep) \in X
      BY <1>1, JoinedAppend, Zenon
    <3> QED
      BY <3>1, Zenon DEF JoinAdds
  <2>3. k \in X /\ Joined(Append(W, w), << >>) = IF W = << >> THEN w ELSE k \o << >> \o w
    <3>1. JoinAdds(W, << >>, w) /\ Joined(W, << >>) \in X
      BY <1>1, JoinedAppend, Zenon
    <3> QED
      BY <3>1, Zenon DEF JoinAdds
  <2>4. Squeezed(j) = Squeezed(k)
    BY <1>4, Zenon
  <2> HIDE DEF j, k
  <2>5. CASE W = << >>
    BY <2>1, <2>2, <2>3, <2>5, Zenon
  <2>6. CASE W # << >>
    <3>1. j \o sep \in X /\ k \o << >> = k
      BY <1>1, <2>2, <2>3, ConcatProperties, ConcatEmptySeq, Zenon
    <3>2. Squeezed(j \o sep) = Squeezed(j) \o Squeezed(sep)
      BY <1>1, <2>2, SqueezedConcat, Zenon
    <3>3. Squeezed(j) \o << >> = Squeezed(j)
      BY <2>2, SqueezedType, ConcatEmptySeq, Zenon
    <3>4. Squeezed((j \o sep) \o w) = Squeezed(j \o sep) \o Squeezed(w)
      BY <3>1, SqueezedConcat, Zenon
    <3>5. Squeezed(k \o w) = Squeezed(k) \o Squeezed(w)
      BY <2>3, SqueezedConcat, Zenon
    <3> QED
      BY <1>2, <2>1, <2>2, <2>3, <2>4, <2>6, <3>1, <3>2, <3>3, <3>4, <3>5, Zenon
  <2> QED
    BY <2>5, <2>6, Zenon
<1> HIDE DEF P
<1>5. words \in P
  BY <1>3, <1>4, SeqInduct, Zenon
<1> QED
  BY <1>5, Zenon DEF P, sep

\* strtok at the spaces removes the spaces and nothing else.
LEMMA JoinedTokens ==
    ASSUME NEW C, NEW text \in Seq(C)
    PROVE  Joined(Tokens(text, {Space}), << >>) = Squeezed(text)
<1> DEFINE S == {Space}
           X == Seq(C)
           e == << >>
           P == {t \in X : Joined(Tokens(t, S), e) = Squeezed(t)}
<1>1. e \in X /\ << >> \in Seq(X)
  BY EmptySeq, Zenon
<1>2. \A c : c \in S <=> c = Space
  BY Zenon
<1> HIDE DEF S, e
<1>3. << >> \in P
  <2>1. Joined(<< >>, e) = << >>
    BY <1>1, JoinedEmpty, Zenon
  <2> QED
    BY <1>1, <2>1, TokensEmpty, SqueezedEmpty, Zenon DEF e
<1>4. ASSUME NEW t \in X, NEW c \in C, t \in P PROVE Append(t, c) \in P
  <2> DEFINE W == Tokens(t, S)
             j == Joined(W, e)
  <2>1. Append(t, c) \in X /\ <<c>> \in X
    BY SMT
  <2>2. W \in Seq(X) /\ j = Squeezed(t)
    BY <1>4, TokensType, Zenon
  <2>3. ASSUME NEW V \in Seq(X), NEW w \in X
        PROVE  Joined(V, e) \in X /\ Joined(Append(V, w), e) = Joined(V, e) \o w
    <3>1. Joined(V, e) \in X
      BY <1>1, JoinedType, Zenon
    <3>2. JoinAdds(V, e, w)
      BY <1>1, JoinedAppend, Zenon
    <3>3. Joined(<< >>, e) = << >> /\ << >> \o w = w /\ Joined(V, e) \o e = Joined(V, e)
      BY <1>1, <3>1, JoinedEmpty, ConcatEmptySeq, Zenon DEF e
    <3> QED
      BY <3>1, <3>2, <3>3, Zenon DEF JoinAdds
  <2>4. j \in X /\ j \o <<c>> = Append(j, c)
    BY <2>2, <2>3, SMT
  <2> HIDE DEF W, j
  <2>5. CASE c = Space
    <3>1. Tokens(Append(t, c), S) = W
      BY <1>2, <2>5, TokensBlank, SMT DEF W
    <3>2. Squeezed(Append(t, c)) = Squeezed(t)
      BY <2>5, SqueezedOut, SMT
    <3> QED
      BY <2>1, <2>2, <3>1, <3>2, Zenon DEF j
  <2>6. CASE c # Space /\ ~Inside(t, S)
    <3>1. Tokens(Append(t, c), S) = Append(W, <<c>>)
      BY <1>2, <2>6, TokensBegin, SMT DEF W
    <3>2. Squeezed(Append(t, c)) = Append(Squeezed(t), c)
      BY <2>6, SqueezedIn, SMT
    <3>3. Joined(Append(W, <<c>>), e) = j \o <<c>>
      BY <2>1, <2>2, <2>3, Zenon DEF j
    <3> QED
      BY <2>1, <2>2, <2>4, <3>1, <3>2, <3>3, Zenon
  <2>7. CASE c # Space /\ Inside(t, S)
    <3>1. Tokens(Append(t, c), S) = Extended(W, c)
      BY <1>2, <2>7, TokensGrow, SMT DEF W
    <3>2. Squeezed(Append(t, c)) = Append(Squeezed(t), c)
      BY <2>7, SqueezedIn, SMT
    <3>3. W # << >>
      BY <2>7, InsideHasWord, Zenon DEF W
    <3>4. PICK V \in Seq(X), w \in X : W = Append(V, w)
      BY <2>2, <3>3, SequenceEmptyOrAppend, Zenon
    <3>5. Extended(W, c) = Append(V, Append(w, c)) /\ Append(w, c) \in X
      BY <3>4, ExtendedLast, SMT
    <3>6. Joined(V, e) \in X /\ j = Joined(V, e) \o w
      BY <2>3, <3>4, Zenon DEF j
    <3>7. Joined(Extended(W, c), e) = Joined(V, e) \o Append(w, c)
      BY <2>3, <3>4, <3>5, Zenon
    <3>8. Joined(V, e) \o Append(w, c) = Append(j, c)
      BY <3>4, <3>6, AppendConcat, SMT
    <3> QED
      BY <2>1, <2>2, <3>1, <3>2, <3>7, <3>8, Zenon
  <2> QED
    BY <2>5, <2>6, <2>7, Zenon
<1> HIDE DEF P
<1>5. text \in P
  BY <1>3, <1>4, SeqInduct, Zenon
<1> QED
  BY <1>5, Zenon DEF P, S, e

----------------------------------------------------------------------------
(* parse_command, the join and build_exec_argv *)

\* The characters that separate words are no others.
LEMMA Characters ==
    /\ Space \in Chars /\ Space \in Blanks /\ Tab \in Blanks /\ Blanks \subseteq Chars
    /\ Quote \in Chars \ Blanks /\ Return \in Chars \ Blanks
    /\ Newline \notin Chars /\ Space # Tab /\ Return # Space /\ Return # Newline
    /\ Tab # Newline /\ Space # Newline
  BY Zenon DEF Chars, Blanks, Space, Tab, Quote, Return, Newline

\* The search for a character stops at the first one, or at the end of the line.
LEMMA FindFacts ==
    ASSUME NEW C, line \in Seq(C), NEW i \in 1 .. Len(line) + 1, NEW S
    PROVE  /\ Find(i, S) \in i .. Len(line) + 1
           /\ Find(i, S) = Len(line) + 1 \/ line[Find(i, S)] \in S
           /\ \A k \in i .. Find(i, S) - 1 : line[k] \notin S
<1> DEFINE N == Len(line)
           T == {j \in i .. N + 1 : j = N + 1 \/ line[j] \in S}
           Stop(j) == (j = N + 1 \/ line[j] \in S) /\ \A k \in i .. j - 1 : line[k] \notin S
<1>1. N \in Nat
  BY SMT
<1> HIDE DEF N
<1>2. T \subseteq Nat /\ N + 1 \in T
  BY <1>1, SMT DEF N
<1>3. PICK n \in T : \A m \in T : ~(m < n)
  <2> HIDE DEF T
  <2> QED
    BY <1>2, Least, Zenon
<1>4. n \in i .. N + 1 /\ Stop(n)
  <2>1. n \in i .. N + 1 /\ (n = N + 1 \/ line[n] \in S)
    BY <1>3, Zenon
  <2>2. ASSUME NEW k \in i .. n - 1 PROVE line[k] \notin S
    <3>1. k \in i .. N + 1 /\ k < n
      BY <1>1, <2>1, SMT DEF N
    <3> QED
      BY <1>3, <3>1, Zenon
  <2> QED
    BY <2>1, <2>2, Zenon
<1>5. Find(i, S) = CHOOSE j \in i .. N + 1 : Stop(j)
  BY Zenon DEF Find, N
<1> HIDE DEF Stop
<1>6. Find(i, S) \in i .. N + 1 /\ Stop(Find(i, S))
  BY <1>4, <1>5, Zenon
<1> QED
  BY <1>6, Zenon DEF Stop, N

\* The parts of a text before positions q and s have the same words.
SameWords(text, S, q, s) == Tokens(SubSeq(text, 1, s - 1), S) = Tokens(SubSeq(text, 1, q - 1), S)

\* Separators after a part of a text add no word to those of the part.
LEMMA BlanksKept ==
    ASSUME NEW C, NEW text \in Seq(C), NEW S, NEW q \in 1 .. Len(text) + 1, NEW s \in q .. Len(text) + 1,
           \A k \in q .. s - 1 : text[k] \in S
    PROVE  SameWords(text, S, q, s)
<1> DEFINE a == SubSeq(text, 1, q - 1)
           b == SubSeq(text, q, s - 1)
           B == C \cap S
<1>1. a \in Seq(C)
  BY SMT
<1>2. b \in Seq(B)
  <2>1. \A k \in q .. s - 1 : text[k] \in B
    BY SMT
  <2>2. q \in Int /\ s - 1 \in Int
    BY SMT
  <2> HIDE DEF B
  <2> QED
    BY <2>1, <2>2, SubSeqProperties, Zenon
<1>3. SubSeq(text, 1, s - 1) = a \o b
  <2>1. /\ 1 \in 1 .. Len(text) + 1 /\ q - 1 \in 1 - 1 .. Len(text)
        /\ s - 1 \in q - 1 .. Len(text) /\ q - 1 + 1 = q
    BY SMT
  <2> QED
    BY <2>1, ConcatAdjacentSubSeq, Zenon
<1>4. B \subseteq C /\ B \subseteq S
  BY Zenon
<1> HIDE DEF a, b, B
<1>5. Tokens(a \o b, S) = Tokens(a, S)
  BY <1>1, <1>2, <1>4, TokensBlanks, SMT
<1> QED
  BY <1>3, <1>5, Zenon DEF a, SameWords

\* A part of a text up to position n - 1 and the character after it.
LEMMA PartAppend ==
    ASSUME NEW C, NEW text \in Seq(C), NEW n \in 1 .. Len(text)
    PROVE  /\ SubSeq(text, 1, n - 1) \in Seq(C) /\ text[n] \in C
           /\ SubSeq(text, 1, n) = Append(SubSeq(text, 1, n - 1), text[n])
  BY SMT

\* The part of a text before position q and a word from s to e - 1 after it.
WordFrom(C, text, S, q, s, e) ==
    LET w == SubSeq(text, s, e - 1)
    IN  /\ w \in Seq(C \ S) /\ w # << >>
        /\ Tokens(SubSeq(text, 1, e - 1), S) = Append(Tokens(SubSeq(text, 1, q - 1), S), w)

\* One turn of the search for words: separators, then a word.
LEMMA WordFound ==
    ASSUME NEW C, NEW text \in Seq(C), NEW S,
           NEW q \in 1 .. Len(text), NEW s \in q .. Len(text), NEW e \in s + 1 .. Len(text) + 1,
           q = 1 \/ text[q - 1] \in S,
           \A k \in q .. s - 1 : text[k] \in S,
           \A k \in s .. e - 1 : text[k] \notin S
    PROVE  WordFrom(C, text, S, q, s, e)
<1> DEFINE w == SubSeq(text, s, e - 1)
           a == SubSeq(text, 1, s - 1)
           D == C \ S
           A == Tokens(SubSeq(text, 1, q - 1), S)
<1>1. Tokens(a, S) = A
  <2>1. q \in 1 .. Len(text) + 1 /\ s \in q .. Len(text) + 1
    BY SMT
  <2>2. SameWords(text, S, q, s)
    BY <2>1, BlanksKept, Zenon
  <2> QED
    BY <2>2, Zenon DEF SameWords
<1>2. w \in Seq(D) /\ w # << >>
  <2>1. \A k \in s .. e - 1 : text[k] \in D
    BY SMT
  <2>2. s \in Int /\ e - 1 \in Int /\ s <= e - 1 /\ (e - 1) - s + 1 # 0
    BY SMT
  <2> HIDE DEF D
  <2>3. w \in Seq(D) /\ Len(w) = IF s <= e - 1 THEN (e - 1) - s + 1 ELSE 0
    BY <2>1, <2>2, SubSeqProperties, SMT
  <2> HIDE DEF w
  <2> QED
    BY <2>2, <2>3, EmptySeq, Zenon
<1>3. a \in Seq(C) /\ SubSeq(text, 1, e - 1) = a \o w
  <2>1. /\ 1 \in 1 .. Len(text) + 1 /\ s - 1 \in 1 - 1 .. Len(text)
        /\ e - 1 \in s - 1 .. Len(text) /\ s - 1 + 1 = s
    BY SMT
  <2>2. a \in Seq(C)
    BY SMT
  <2> QED
    BY <2>1, <2>2, ConcatAdjacentSubSeq, SMT
<1>4. D \cap S = {} /\ D \subseteq C
  BY Zenon
<1>5. A \in Seq(Seq(C))
  <2>1. SubSeq(text, 1, q - 1) \in Seq(C)
    BY SMT
  <2> QED
    BY <2>1, TokensType, Zenon
<1> HIDE DEF w, D, A
<1>6. Tokens(w, S) = <<w>> /\ w \in Seq(C)
  BY <1>2, <1>4, OneWord, SeqMonotonic, Zenon
<1>7. Tokens(a \o w, S) = A \o <<w>>
  <2>1. CASE s = 1
    <3>1. a = << >>
      BY <2>1, SMT
    <3>2. << >> \o w = w /\ << >> \o <<w>> = <<w>>
      BY <1>6, SMT
    <3> QED
      BY <1>1, <1>6, <3>1, <3>2, TokensEmpty, Zenon
  <2>2. CASE s # 1
    <3> DEFINE b == SubSeq(text, 1, s - 1 - 1)
               c == text[s - 1]
    <3>1. s - 1 \in 1 .. Len(text)
      BY <2>2, SMT
    <3>2. c \in S
      BY <2>2, SMT
    <3>3. b \in Seq(C) /\ c \in C /\ a = Append(b, c)
      BY <3>1, PartAppend, Zenon
    <3> HIDE DEF a, b, c
    <3>4. Tokens(Append(b, c), S) = Tokens(b, S)
      BY <3>2, <3>3, TokensBlank, SMT
    <3>5. Tokens(Append(b, c) \o w, S) = Tokens(b, S) \o Tokens(w, S)
      <4>1. b \in Seq(C) /\ c \in C /\ c \in S /\ w \in Seq(C)
        BY <1>6, <3>2, <3>3, Zenon
      <4>2. WordsAdd(b, c, w, S)
        BY <4>1, TokensConcat, Zenon
      <4> QED
        BY <4>2, Zenon DEF WordsAdd
    <3> QED
      BY <1>1, <1>6, <3>3, <3>4, <3>5, Zenon
  <2> QED
    BY <2>1, <2>2, Zenon
<1>8. A \o <<w>> = Append(A, w)
  BY <1>5, <1>6, AppendIsConcat, Zenon
<1> QED
  BY <1>2, <1>3, <1>7, <1>8, Zenon DEF w, A, D, WordFrom

\* The words of the part before position q are the first ones of the text.
FirstWords(C, text, S, q) ==
    \E rest \in Seq(Seq(C)) : Tokens(text, S) = Tokens(SubSeq(text, 1, q - 1), S) \o rest

\* The words of a part that ends with a separator are the first ones of the text.
LEMMA WordsFirst ==
    ASSUME NEW C, NEW text \in Seq(C), NEW S, NEW q \in 2 .. Len(text) + 1,
           q = Len(text) + 1 \/ text[q - 1] \in S
    PROVE  FirstWords(C, text, S, q)
<1> DEFINE A == Tokens(SubSeq(text, 1, q - 1), S)
<1>1. CASE q = Len(text) + 1
  <2>1. SubSeq(text, 1, q - 1) = text
    BY <1>1, SMT
  <2>2. Tokens(text, S) \in Seq(Seq(C))
    BY TokensType, Zenon
  <2>3. << >> \in Seq(Seq(C)) /\ Tokens(text, S) = Tokens(text, S) \o << >>
    BY <2>2, ConcatEmptySeq, EmptySeq, Zenon
  <2> QED
    BY <2>1, <2>3, Zenon DEF FirstWords
<1>2. CASE text[q - 1] \in S /\ q # Len(text) + 1
  <2> DEFINE b == SubSeq(text, 1, q - 1 - 1)
             c == text[q - 1]
             t == SubSeq(text, q, Len(text))
  <2>1. q - 1 \in 1 .. Len(text)
    BY <1>2, SMT
  <2>2. b \in Seq(C) /\ c \in C /\ SubSeq(text, 1, q - 1) = Append(b, c)
    BY <2>1, PartAppend, Zenon
  <2>3. t \in Seq(C)
    BY SMT
  <2>4. text = SubSeq(text, 1, q - 1) \o t
    <3>1. /\ 1 \in 1 .. Len(text) + 1 /\ q - 1 \in 1 - 1 .. Len(text)
          /\ Len(text) \in q - 1 .. Len(text) /\ q - 1 + 1 = q
      BY <1>2, SMT
    <3> QED
      BY <3>1, ConcatAdjacentSubSeq, SubSeqFull, SMT
  <2> HIDE DEF b, c, t
  <2>5. Tokens(Append(b, c), S) = Tokens(b, S)
    BY <1>2, <2>2, TokensBlank, SMT DEF c
  <2>6. Tokens(Append(b, c) \o t, S) = Tokens(b, S) \o Tokens(t, S)
    <3>1. WordsAdd(b, c, t, S)
      BY <1>2, <2>2, <2>3, TokensConcat, Zenon DEF c
    <3> QED
      BY <3>1, Zenon DEF WordsAdd
  <2>7. Tokens(t, S) \in Seq(Seq(C))
    BY <2>3, TokensType, Zenon
  <2> QED
    BY <2>2, <2>4, <2>5, <2>6, <2>7, Zenon DEF FirstWords
<1> QED
  BY <1>1, <1>2, Zenon

\* A part of a text is a text.
LEMMA PartType ==
    ASSUME NEW C, NEW text \in Seq(C), NEW n \in 0 .. Len(text)
    PROVE  SubSeq(text, 1, n) \in Seq(C)
  BY SMT

\* The first words are those before the rest.
LEMMA UpToFirst ==
    ASSUME NEW C, NEW words \in Seq(C), NEW rest \in Seq(C), NEW m, Len(words) = m
    PROVE  words = UpTo(words \o rest, m)
<1>1. m \in Nat /\ Len(words \o rest) = m + Len(rest) /\ Len(rest) \in Nat
  BY ConcatProperties, LenProperties, Zenon
<1>2. CASE Len(words \o rest) <= m
  <2>1. Len(rest) = 0
    BY <1>1, <1>2, SMT
  <2>2. words \o rest = words
    BY <2>1, SMT
  <2> QED
    BY <1>2, <2>2, Zenon DEF UpTo
<1>3. CASE ~(Len(words \o rest) <= m)
  <2>1. SubSeq(words \o rest, 1, m) = words
    BY <1>1, SMT
  <2> QED
    BY <1>3, <2>1, Zenon DEF UpTo
<1> QED
  BY <1>2, <1>3, Zenon

\* The line, position by position of parse_command, main and the child.
LineType ==
    /\ line \in Seq(Chars)
    /\ args \in Seq(Seq(Range(line)))
    /\ cursor \in 1 .. Len(line) + 1
    /\ Len(args) <= MaxArgs - Before
    /\ pc \in {"parse", "usage", "join", "exec", "default", "done", "failed"}

\* The words found so far and the spaces between them are no longer than the
\* part of the line they come from.
Fits ==
    args # << >> =>
      LET n == Len(Joined(args, <<Space>>))
      IN  n <= Len(line) /\ (cursor <= Len(line) => n <= cursor - 2)

\* When the command line and the words of the child are settled.
Settled ==
    /\ pc \in {"parse", "usage", "join"} => command_line = << >>
    /\ pc \in {"exec", "default", "done", "failed"} => command_line = Joined(args, <<Space>>)
    /\ pc \notin {"parse", "usage"} => args # << >>
    /\ pc = "done" => argv = Tokens(command_line, {Space})

\* Without quotes: the words are those of the part of the line that was read,
\* which ends between two words; at the end those of the line.
Plain ==
    ~HasQuote =>
      /\ args \in Seq(Seq(Range(line) \ Blanks) \ {<< >>})
      /\ pc = "parse" =>
           /\ args = Tokens(SubSeq(line, 1, cursor - 1), Blanks)
           /\ cursor \in {1, Len(line) + 1} \/ line[cursor - 1] \in Blanks
      /\ pc # "parse" => args = UpTo(Tokens(line, Blanks), MaxArgs - Before)
      /\ pc \notin {"default", "failed"}

\* The inductive invariant of the way from the line to argv.
LineInv == LineType /\ Fits /\ Settled /\ Plain

\* An empty command line begins with its first character.
LEMMA LineInvInit == Init => LineInv
<1> SUFFICES ASSUME Init PROVE LineInv
  OBVIOUS
<1>1. line \in Seq(Chars) /\ cursor = 1 /\ args = << >> /\ command_line = << >> /\ pc = "parse"
  <2>1. PICK n \in 0 .. MaxLen : line \in [1 .. n -> Chars]
    BY Zenon DEF Init
  <2> DEFINE C == Chars
  <2> HIDE DEF C
  <2>2. n \in Nat /\ line \in [1 .. n -> C]
    BY <2>1, ConstantsAssumption, SMT DEF C
  <2>3. line \in Seq(C)
    BY <2>2, SMT
  <2> QED
    BY <2>3, Zenon DEF Init, C
<1>2. LineType
  <2>1. Len(line) \in Nat /\ Len(args) = 0
    BY <1>1, LenProperties, EmptySeq, Zenon
  <2>2. cursor \in 1 .. Len(line) + 1 /\ Len(args) <= MaxArgs - Before
    BY <1>1, <2>1, ConstantsAssumption, SMT
  <2> QED
    BY <1>1, <2>2, EmptySeq, Zenon DEF LineType
<1>3. Fits
  BY <1>1, Zenon DEF Fits
<1>4. Settled
  BY <1>1, Zenon DEF Settled
<1>5. Plain
  <2>1. SubSeq(line, 1, cursor - 1) = << >>
    BY <1>1, SMT
  <2> QED
    BY <1>1, <2>1, TokensEmpty, EmptySeq, Zenon DEF Plain
<1> QED
  BY <1>2, <1>3, <1>4, <1>5, Zenon DEF LineInv

\* What one turn of parse_command finds.
LEMMA TurnFacts ==
    ASSUME LineType, ParseWord
    PROVE  \E s, f, e \in Nat :
             /\ s \in cursor .. Len(line) /\ f \in s .. Len(line) + 1 /\ e \in f .. Len(line) + 1
             /\ \A k \in cursor .. s - 1 : line[k] \in Blanks
             /\ ~HasQuote => /\ f = s /\ e \in s + 1 .. Len(line) + 1
                             /\ \A k \in s .. e - 1 : line[k] \notin Blanks
                             /\ e <= Len(line) => line[e] \in Blanks
             /\ Len(args) < MaxArgs - Before
             /\ args' = Append(args, SubSeq(line, f, e - 1))
             /\ cursor' = IF e <= Len(line) THEN e + 1 ELSE e
             /\ UNCHANGED <<line, command_line, argv, pc>> /\ pc = "parse"
<1> DEFINE N == Len(line)
           s == Find(cursor, Chars \ Blanks)
           quoted == s <= N /\ line[s] = Quote
           f == IF quoted THEN s + 1 ELSE s
           T == IF quoted THEN {Quote} ELSE Blanks
           e == Find(f, T)
<1>1. line \in Seq(Chars) /\ N \in Nat /\ cursor \in 1 .. N + 1
  BY LenProperties, Zenon DEF LineType
<1>2. /\ s <= N /\ Len(args) < MaxArgs - Before
      /\ args' = Append(args, SubSeq(line, f, e - 1))
      /\ cursor' = Past(e)
      /\ UNCHANGED <<line, command_line, argv, pc>> /\ pc = "parse"
  BY Zenon DEF ParseWord
<1>3. /\ s \in cursor .. N + 1
      /\ s = N + 1 \/ line[s] \in Chars \ Blanks
      /\ \A k \in cursor .. s - 1 : line[k] \notin Chars \ Blanks
  BY <1>1, FindFacts, Zenon
<1> HIDE DEF s
<1>4. s \in cursor .. N /\ s # N + 1 /\ f \in s .. N + 1 /\ f \in 1 .. N + 1
  BY <1>1, <1>2, <1>3, SMT
<1>5. /\ e \in f .. N + 1
      /\ e = N + 1 \/ line[e] \in T
      /\ \A k \in f .. e - 1 : line[k] \notin T
  BY <1>1, <1>4, FindFacts, Zenon
<1> HIDE DEF e
<1>6. ASSUME NEW k \in cursor .. s - 1 PROVE line[k] \in Blanks
  <2>1. k \in 1 .. N
    BY <1>1, <1>3, SMT
  <2>2. line[k] \in Chars
    BY <1>1, <2>1, ElementOfSeq, Zenon
  <2> QED
    BY <1>3, <2>2, Zenon
<1>7. ASSUME ~HasQuote
      PROVE  /\ f = s /\ e \in s + 1 .. N + 1
             /\ \A k \in s .. e - 1 : line[k] \notin Blanks
             /\ e <= N => line[e] \in Blanks
  <2>1. ~quoted
    <3>1. s \in 1 .. N
      BY <1>1, <1>4, SMT
    <3> QED
      BY <1>7, <3>1, Zenon DEF HasQuote
  <2>2. f = s /\ T = Blanks
    BY <2>1, Zenon
  <2> HIDE DEF f, T
  <2>3. e \in s .. N + 1 /\ (e = N + 1 \/ line[e] \in Blanks) /\ \A k \in s .. e - 1 : line[k] \notin Blanks
    BY <1>5, <2>2, Zenon
  <2>4. e # s
    BY <1>3, <1>4, <2>3, Zenon
  <2>5. e \in s + 1 .. N + 1 /\ (e <= N => e # N + 1)
    BY <1>1, <1>4, <2>3, <2>4, SMT
  <2> QED
    BY <2>2, <2>3, <2>5, Zenon
<1>8. cursor' = IF e <= N THEN e + 1 ELSE e
  BY <1>2, Zenon DEF Past
<1> HIDE DEF f, T
<1>9. s \in Nat /\ f \in Nat /\ e \in Nat
  BY <1>1, <1>4, <1>5, SMT
<1> QED
  BY <1>2, <1>4, <1>5, <1>6, <1>7, <1>8, <1>9, ZenonT(60) DEF N

\* One more word makes the joined text longer by it and a space.
LEMMA JoinedLonger ==
    ASSUME NEW C, Space \in C, NEW words \in Seq(Seq(C)), NEW w \in Seq(C)
    PROVE  LET n == Len(Joined(words, <<Space>>))
           IN  /\ n \in Nat
               /\ Len(Joined(Append(words, w), <<Space>>)) =
                    IF words = << >> THEN Len(w) ELSE n + 1 + Len(w)
<1> DEFINE sep == <<Space>>
           j == Joined(words, sep)
<1>1. sep \in Seq(C) /\ Len(sep) = 1
  BY SMT
<1> HIDE DEF sep
<1>2. j \in Seq(C) /\ JoinAdds(words, sep, w)
  BY <1>1, JoinedAppend, Zenon
<1>3. Joined(Append(words, w), sep) = IF words = << >> THEN w ELSE j \o sep \o w
  BY <1>2, Zenon DEF JoinAdds
<1> HIDE DEF j
<1>4. Len(j) \in Nat /\ Len(j \o sep \o w) = Len(j) + 1 + Len(w)
  <2>1. Len(j) \in Nat /\ j \o sep \in Seq(C) /\ Len(j \o sep) = Len(j) + Len(sep)
    BY <1>1, <1>2, ConcatProperties, LenProperties, Zenon
  <2>2. Len((j \o sep) \o w) = Len(j \o sep) + Len(w)
    BY <2>1, ConcatProperties, Zenon
  <2> QED
    BY <1>1, <2>1, <2>2, Zenon
<1> QED
  BY <1>3, <1>4, Zenon DEF sep, j

\* A turn of parse_command keeps the invariant.
LEMMA ParseWordKeeps == ASSUME LineInv, ParseWord PROVE LineInv'
<1> DEFINE N == Len(line)
           R == Range(line)
<1>0. LineType /\ Fits /\ Settled /\ Plain
  BY Zenon DEF LineInv
<1>1. PICK s, f, e \in Nat :
             /\ s \in cursor .. N /\ f \in s .. N + 1 /\ e \in f .. N + 1
             /\ \A k \in cursor .. s - 1 : line[k] \in Blanks
             /\ ~HasQuote => /\ f = s /\ e \in s + 1 .. N + 1
                             /\ \A k \in s .. e - 1 : line[k] \notin Blanks
                             /\ e <= N => line[e] \in Blanks
             /\ Len(args) < MaxArgs - Before
             /\ args' = Append(args, SubSeq(line, f, e - 1))
             /\ cursor' = IF e <= N THEN e + 1 ELSE e
             /\ UNCHANGED <<line, command_line, argv, pc>> /\ pc = "parse"
  BY <1>0, TurnFacts, Zenon
<1> DEFINE w == SubSeq(line, f, e - 1)
<1>2. /\ line \in Seq(Chars) /\ N \in Nat /\ cursor \in 1 .. N + 1
      /\ args \in Seq(Seq(R)) /\ line \in Seq(R)
  BY <1>0, LenProperties, SeqOfRange, Zenon DEF LineType
<1>3. w \in Seq(R) /\ Len(w) = e - f
  <2> HIDE DEF R
  <2>1. \A k \in f .. e - 1 : k \in 1 .. N
    BY <1>1, <1>2, SMT
  <2>2. \A k \in f .. e - 1 : line[k] \in R
    BY <1>2, <2>1, ElementOfSeq, Zenon
  <2>3. f \in Int /\ e - 1 \in Int
    BY <1>1, <1>2, SMT
  <2>4. w \in Seq(R) /\ Len(w) = IF f <= e - 1 THEN e - 1 - f + 1 ELSE 0
    BY <2>2, <2>3, SubSeqProperties, Zenon
  <2> HIDE DEF w
  <2>5. f \in Nat /\ e \in Nat /\ f <= e
    BY <1>1, <1>2, SMT
  <2> QED
    BY <2>4, <2>5, SMT
<1>4. /\ args' = Append(args, w) /\ line' = line /\ command_line' = command_line
      /\ pc = "parse" /\ pc' = "parse"
  BY <1>1, Zenon
<1> HIDE DEF w, R
<1>5. LineType'
  <2>1. args' \in Seq(Seq(R)) /\ Len(args') = Len(args) + 1
    BY <1>2, <1>3, <1>4, SMT
  <2>2. cursor' \in 1 .. N + 1 /\ Len(args') <= MaxArgs - Before
    BY <1>1, <1>2, <2>1, LenProperties, ConstantsAssumption, SMTT(60)
  <2> QED
    BY <1>2, <1>4, <2>1, <2>2, Zenon DEF LineType, R
<1>6. Fits'
  <2> DEFINE C == R \cup {Space}
             n == Len(Joined(args, <<Space>>))
             m == Len(Joined(Append(args, w), <<Space>>))
  <2>1. Space \in C /\ args \in Seq(Seq(C)) /\ w \in Seq(C)
    <3>1. R \subseteq C /\ Space \in C
      BY Zenon
    <3> HIDE DEF C
    <3>2. Seq(R) \subseteq Seq(C) /\ w \in Seq(C)
      BY <1>3, <3>1, SeqMonotonic, Zenon
    <3> QED
      BY <1>2, <3>1, <3>2, SeqMonotonic, Zenon
  <2> HIDE DEF C
  <2>2. n \in Nat /\ m = IF args = << >> THEN Len(w) ELSE n + 1 + Len(w)
    BY <2>1, JoinedLonger, Zenon
  <2>3. args # << >> => n <= N /\ (cursor <= N => n <= cursor - 2)
    BY <1>0, Zenon DEF Fits
  <2>4. /\ s \in cursor .. N /\ f \in s .. N + 1 /\ e \in f .. N + 1
        /\ cursor' = IF e <= N THEN e + 1 ELSE e
        /\ N \in Nat /\ cursor \in 1 .. N + 1 /\ Len(w) = e - f
    BY <1>1, <1>2, <1>3, Zenon
  <2> HIDE DEF n, m, N
  <2>5. m <= N /\ (cursor' <= N => m <= cursor' - 2)
    BY <2>2, <2>3, <2>4, SMT
  <2> QED
    BY <1>4, <2>5, Zenon DEF Fits, m, N
<1>7. Settled'
  BY <1>0, <1>4, Zenon DEF Settled
<1>8. Plain'
  <2> SUFFICES ASSUME ~HasQuote PROVE Plain'
    BY <1>4, Zenon DEF Plain, HasQuote
  <2>1. /\ f = s /\ e \in s + 1 .. N + 1
        /\ \A k \in s .. e - 1 : line[k] \notin Blanks
        /\ e <= N => line[e] \in Blanks
    BY <1>1, Zenon
  <2>2. /\ args \in Seq(Seq(R \ Blanks) \ {<< >>})
        /\ args = Tokens(SubSeq(line, 1, cursor - 1), Blanks)
        /\ cursor \in {1, N + 1} \/ line[cursor - 1] \in Blanks
    BY <1>0, <1>1, Zenon DEF Plain, R
  <2>3. cursor \in 1 .. N /\ (cursor = 1 \/ line[cursor - 1] \in Blanks)
    BY <1>1, <1>2, <2>2, SMT
  <2>4. /\ w \in Seq(R \ Blanks) /\ w # << >>
        /\ Tokens(SubSeq(line, 1, e - 1), Blanks) = Append(args, w)
    <3>1. s \in cursor .. N /\ \A k \in cursor .. s - 1 : line[k] \in Blanks
      BY <1>1, Zenon
    <3>2. WordFrom(R, line, Blanks, cursor, s, e)
      BY <1>2, <2>1, <2>3, <3>1, WordFound, Zenon
    <3> QED
      BY <2>1, <2>2, <3>2, Zenon DEF w, WordFrom
  <2>5. args' \in Seq(Seq(R \ Blanks) \ {<< >>})
    <3> DEFINE X == Seq(R \ Blanks) \ {<< >>}
    <3>1. args \in Seq(X) /\ w \in X
      BY <2>2, <2>4, Zenon
    <3> HIDE DEF X
    <3>2. Append(args, w) \in Seq(X)
      BY <3>1, AppendLast, Zenon
    <3> QED
      BY <1>4, <3>2, Zenon DEF X
  <2>6. args' = Tokens(SubSeq(line, 1, cursor' - 1), Blanks)
    <3>1. CASE e <= N
      <4>1. /\ e \in 1 .. N + 1 /\ cursor' \in e .. N + 1
            /\ \A k \in e .. cursor' - 1 : k = e
        BY <1>1, <1>2, <3>1, SMT
      <4>2. \A k \in e .. cursor' - 1 : line[k] \in Blanks
        BY <2>1, <3>1, <4>1, Zenon
      <4>3. SameWords(line, Blanks, e, cursor')
        BY <1>2, <4>1, <4>2, BlanksKept, Zenon
      <4> QED
        BY <1>4, <2>4, <4>1, <4>3, Zenon DEF SameWords
    <3>2. CASE ~(e <= N)
      BY <1>1, <1>4, <2>4, <3>2, Zenon
    <3> QED
      BY <3>1, <3>2, Zenon
  <2>7. cursor' \in {1, N + 1} \/ line[cursor' - 1] \in Blanks
    <3>1. CASE e <= N
      <4>1. cursor' - 1 = e
        BY <1>1, <1>2, <3>1, SMT
      <4> QED
        BY <2>1, <3>1, <4>1, Zenon
    <3>2. CASE ~(e <= N)
      <4>1. cursor' = N + 1
        BY <1>1, <1>2, <3>2, SMT
      <4> QED
        BY <4>1, Zenon
    <3> QED
      BY <3>1, <3>2, Zenon
  <2> QED
    BY <1>4, <2>5, <2>6, <2>7, Zenon DEF Plain, R
<1> QED
  BY <1>5, <1>6, <1>7, <1>8, Zenon DEF LineInv

\* The end of parse_command keeps the invariant: what it leaves of the line is
\* blank, or the array is full.
LEMMA ParseDoneKeeps == ASSUME LineInv, ParseDone PROVE LineInv'
<1> DEFINE N == Len(line)
           m == MaxArgs - Before
<1>0. LineType /\ Fits /\ Settled /\ Plain
  BY Zenon DEF LineInv
<1>1. /\ pc = "parse" /\ pc' = IF args = << >> THEN "usage" ELSE "join"
      /\ line' = line /\ cursor' = cursor /\ args' = args /\ command_line' = command_line
      /\ Find(cursor, Chars \ Blanks) > N \/ Len(args) = m
  BY Zenon DEF ParseDone
<1>2. /\ line \in Seq(Chars) /\ N \in Nat /\ cursor \in 1 .. N + 1
      /\ Len(args) <= m /\ m \in Nat \ {0}
  BY <1>0, LenProperties, ConstantsAssumption, SMT DEF LineType
<1>3. LineType'
  BY <1>0, <1>1, Zenon DEF LineType
<1>4. Fits'
  BY <1>0, <1>1, Zenon DEF Fits
<1>5. Settled'
  BY <1>0, <1>1, Zenon DEF Settled
<1>6. Plain'
  <2> SUFFICES ASSUME ~HasQuote PROVE Plain'
    BY <1>1, Zenon DEF Plain, HasQuote
  <2>1. /\ args \in Seq(Seq(Range(line) \ Blanks) \ {<< >>})
        /\ args = Tokens(SubSeq(line, 1, cursor - 1), Blanks)
        /\ cursor \in {1, N + 1} \/ line[cursor - 1] \in Blanks
    BY <1>0, <1>1, Zenon DEF Plain
  <2>2. args = UpTo(Tokens(line, Blanks), m)
    <3>1. CASE Find(cursor, Chars \ Blanks) > N
      <4> DEFINE s == Find(cursor, Chars \ Blanks)
      <4>1. s \in cursor .. N + 1 /\ \A k \in cursor .. s - 1 : line[k] \notin Chars \ Blanks
        BY <1>2, FindFacts, Zenon
      <4> HIDE DEF s
      <4>2. s \in cursor .. N + 1 /\ s - 1 = N
        BY <1>2, <3>1, <4>1, SMT DEF s
      <4>3. ASSUME NEW k \in cursor .. s - 1 PROVE line[k] \in Blanks
        <5>1. k \in 1 .. N
          BY <1>2, <4>2, SMT
        <5>2. line[k] \in Chars
          BY <1>2, <5>1, ElementOfSeq, Zenon
        <5> QED
          BY <4>1, <5>2, Zenon
      <4>4. SameWords(line, Blanks, cursor, s)
        BY <1>2, <4>2, <4>3, BlanksKept, Zenon
      <4>5. SubSeq(line, 1, s - 1) = line
        BY <1>2, <4>2, SubSeqFull, Zenon
      <4>6. Tokens(line, Blanks) = args
        BY <2>1, <4>4, <4>5, Zenon DEF SameWords
      <4> HIDE DEF m
      <4> QED
        BY <1>2, <4>6, Zenon DEF UpTo
    <3>2. CASE Len(args) = m
      <4>1. cursor # 1
        <5>1. ASSUME cursor = 1 PROVE SubSeq(line, 1, cursor - 1) = << >>
          BY <1>2, <5>1, SMT
        <5>2. Len(<< >>) # m
          BY <1>2, EmptySeq, Zenon
        <5> QED
          BY <2>1, <3>2, <5>1, <5>2, TokensEmpty, Zenon
      <4>2. cursor \in 2 .. N + 1 /\ (cursor = N + 1 \/ line[cursor - 1] \in Blanks)
        BY <1>2, <2>1, <4>1, SMT
      <4>3. PICK rest \in Seq(Seq(Chars)) : Tokens(line, Blanks) = args \o rest
        <5>1. FirstWords(Chars, line, Blanks, cursor)
          BY <1>2, <4>2, WordsFirst, Zenon
        <5> QED
          BY <2>1, <5>1, Zenon DEF FirstWords
      <4>4. args \in Seq(Seq(Chars))
        <5>1. SubSeq(line, 1, cursor - 1) \in Seq(Chars)
          <6> HIDE DEF N
          <6>1. cursor - 1 \in 0 .. N
            BY <1>2, SMT
          <6> QED
            BY <1>2, <6>1, PartType, Zenon DEF N
        <5> QED
          BY <2>1, <5>1, TokensType, Zenon
      <4> QED
        BY <3>2, <4>3, <4>4, UpToFirst, Zenon
    <3> QED
      BY <1>1, <3>1, <3>2, Zenon
  <2> QED
    BY <1>1, <2>1, <2>2, Zenon DEF Plain
<1> QED
  BY <1>3, <1>4, <1>5, <1>6, Zenon DEF LineInv

\* Words without blanks are found again in the command line.
LEMMA PlainWords ==
    ASSUME LineType, args \in Seq(Seq(Range(line) \ Blanks) \ {<< >>})
    PROVE  Tokens(Joined(args, <<Space>>), {Space}) = args
<1> DEFINE D == Range(line) \ Blanks
           S == {Space}
<1>1. D \cap S = {} /\ Space \in S /\ args \in Seq(Seq(D) \ {<< >>})
  BY Characters, Zenon
<1> HIDE DEF D, S
<1>2. FoundAgain(args, Space, S)
  BY <1>1, TokensJoined, Zenon
<1> QED
  BY <1>2, Zenon DEF S, FoundAgain

\* The join keeps the invariant: without quotes the command is not empty.
LEMMA JoinKeeps == ASSUME LineInv, Join PROVE LineInv'
<1>0. LineType /\ Fits /\ Settled /\ Plain
  BY Zenon DEF LineInv
<1>1. /\ pc = "join" /\ command_line' = Joined(args, <<Space>>)
      /\ pc' = IF command_line' = << >> THEN "default" ELSE "exec"
      /\ line' = line /\ cursor' = cursor /\ args' = args /\ argv' = argv
  BY Zenon DEF Join, Space
<1>2. LineType'
  BY <1>0, <1>1, Zenon DEF LineType
<1>3. Fits'
  BY <1>0, <1>1, Zenon DEF Fits
<1>4. Settled'
  BY <1>0, <1>1, Zenon DEF Settled
<1>5. Plain'
  <2> SUFFICES ASSUME ~HasQuote PROVE Plain'
    BY <1>1, Zenon DEF Plain, HasQuote
  <2>1. /\ args \in Seq(Seq(Range(line) \ Blanks) \ {<< >>})
        /\ args = UpTo(Tokens(line, Blanks), MaxArgs - Before)
        /\ args # << >>
    BY <1>0, <1>1, Zenon DEF Plain, Settled
  <2>2. Tokens(command_line', {Space}) = args
    BY <1>0, <1>1, <2>1, PlainWords, Zenon
  <2>3. command_line' # << >>
    BY <2>1, <2>2, TokensEmpty, Zenon
  <2> QED
    BY <1>1, <2>1, <2>3, Zenon DEF Plain
<1> QED
  BY <1>2, <1>3, <1>4, <1>5, Zenon DEF LineInv

\* strtok in the child keeps the invariant: without quotes it finds the words of
\* the array, which are not too many.
LEMMA ExecKeeps == ASSUME LineInv, build_exec_argv PROVE LineInv'
<1>0. LineType /\ Fits /\ Settled /\ Plain
  BY Zenon DEF LineInv
<1> DEFINE words == Tokens(command_line, {Space})
<1>1. /\ pc = "exec"
      /\ IF Len(words) \in 1 .. MaxArgs - 1
         THEN argv' = words /\ pc' = "done" ELSE pc' = "failed" /\ argv' = argv
      /\ line' = line /\ cursor' = cursor /\ args' = args /\ command_line' = command_line
  BY Zenon DEF build_exec_argv, Space
<1>2. LineType'
  BY <1>0, <1>1, Zenon DEF LineType
<1>3. Fits'
  BY <1>0, <1>1, Zenon DEF Fits
<1>4. Settled'
  BY <1>0, <1>1, Zenon DEF Settled
<1>5. Plain'
  <2> SUFFICES ASSUME ~HasQuote PROVE Plain'
    BY <1>1, Zenon DEF Plain, HasQuote
  <2>1. /\ args \in Seq(Seq(Range(line) \ Blanks) \ {<< >>})
        /\ args = UpTo(Tokens(line, Blanks), MaxArgs - Before)
        /\ args # << >> /\ command_line = Joined(args, <<Space>>)
    BY <1>0, <1>1, Zenon DEF Plain, Settled
  <2>2. words = args
    BY <1>0, <2>1, PlainWords, Zenon
  <2>3. Len(args) \in Nat \ {0} /\ Len(args) <= MaxArgs - Before
    BY <1>0, <2>1, EmptySeq, Zenon DEF LineType
  <2>4. Len(args) \in 1 .. MaxArgs - 1
    BY <2>3, ConstantsAssumption, SMT
  <2> HIDE DEF words
  <2>5. pc' = "done"
    BY <1>1, <2>2, <2>4, Zenon
  <2> QED
    BY <1>1, <2>1, <2>5, Zenon DEF Plain
<1> QED
  BY <1>2, <1>3, <1>4, <1>5, Zenon DEF LineInv

\* Nothing else touches the line, its words or the command.
LEMMA LineKept == ASSUME LineInv, UNCHANGED vars PROVE LineInv'
<1>1. /\ line' = line /\ cursor' = cursor /\ args' = args
      /\ command_line' = command_line /\ argv' = argv /\ pc' = pc
  BY Zenon DEF vars
<1>2. LineType' /\ Fits' /\ Settled' /\ Plain'
  BY <1>1, Zenon DEF LineInv, LineType, Fits, Settled, Plain, HasQuote
<1> QED
  BY <1>2, Zenon DEF LineInv

\* Every step of the line, of the save, of a crash and of a restart keeps it.
LEMMA LineInvNext == LineInv /\ [MetaNext]_allvars => LineInv'
<1> SUFFICES ASSUME LineInv, [MetaNext]_allvars PROVE LineInv'
  OBVIOUS
<1>1. CASE ParseWord \/ ParseDone \/ Join \/ build_exec_argv
  BY <1>1, ParseWordKeeps, ParseDoneKeeps, JoinKeeps, ExecKeeps, Zenon
<1>2. CASE ~(ParseWord \/ ParseDone \/ Join \/ build_exec_argv)
  <2>1. UNCHANGED vars
    BY <1>2, Zenon DEF MetaNext, allvars, SaveOpen, SaveWrite, SaveClose, SaveRename, SaveFails,
                       Crash, Restore
  <2> QED
    BY <2>1, LineKept, Zenon
<1> QED
  BY <1>1, <1>2, Zenon

\* The invariant gives the property.
LEMMA LineInvWords == LineInv => WordsArrive
<1> SUFFICES ASSUME LineInv PROVE WordsArrive
  OBVIOUS
<1> DEFINE C == Range(line) \cup {Space}
<1>0. LineType /\ Fits /\ Settled /\ Plain
  BY Zenon DEF LineInv
<1>1. args \in Seq(Seq(C)) /\ Space \in C
  <2>1. Range(line) \subseteq C /\ Space \in C
    BY Zenon
  <2>2. args \in Seq(Seq(Range(line)))
    BY <1>0, Zenon DEF LineType
  <2> HIDE DEF C
  <2>3. Seq(Range(line)) \subseteq Seq(C)
    BY <2>1, SeqMonotonic, Zenon
  <2> QED
    BY <2>1, <2>2, <2>3, SeqMonotonic, Zenon
<1> HIDE DEF C
<1>2. ASSUME ~HasQuote
      PROVE  /\ pc = "done" => argv = UpTo(Tokens(line, Blanks), MaxArgs - Before)
             /\ pc \notin {"default", "failed"}
  <2>1. ASSUME pc = "done" PROVE argv = args
    BY <1>0, <1>2, <2>1, PlainWords, Zenon DEF Plain, Settled
  <2> QED
    BY <1>0, <1>2, <2>1, Zenon DEF Plain
<1>3. ASSUME pc = "done" PROVE Joined(argv, << >>) = Squeezed(Joined(args, << >>))
  <2>1. command_line = Joined(args, <<Space>>) /\ argv = Tokens(command_line, {Space})
    BY <1>0, <1>3, Zenon DEF Settled
  <2>2. <<Space>> \in Seq(C)
    BY <1>1, SMT
  <2>3. command_line \in Seq(C)
    BY <1>1, <2>1, <2>2, JoinedType, Zenon
  <2>4. Joined(argv, << >>) = Squeezed(command_line)
    BY <2>1, <2>3, JoinedTokens, Zenon
  <2> QED
    BY <1>1, <2>1, <2>4, SqueezedJoined, Zenon
<1>4. Len(command_line) <= Len(line)
  <2>1. CASE command_line = << >>
    <3>1. Len(line) \in Nat /\ Len(command_line) = 0
      BY <1>0, <2>1, LenProperties, EmptySeq, Zenon DEF LineType
    <3> QED
      BY <3>1, SMT
  <2>2. CASE command_line # << >>
    <3>1. args # << >> /\ command_line = Joined(args, <<Space>>)
      BY <1>0, <2>2, Zenon DEF LineType, Settled
    <3> QED
      BY <1>0, <3>1, Zenon DEF Fits
  <2> QED
    BY <2>1, <2>2, Zenon
<1> QED
  BY <1>2, <1>3, <1>4, Zenon DEF WordsArrive

\* Whatever line is typed, for every size of the array of words: without quotes
\* the argv that build_exec_argv makes has exactly the words parse_command found,
\* with quotes it has all their characters, and the joined command is no longer
\* than the line.
THEOREM WordsReachCommand == MetaSpec => []WordsArrive
<1>1. MetaInit => LineInv
  BY LineInvInit, Zenon DEF MetaInit
<1> QED
  BY <1>1, LineInvNext, LineInvWords, PTL DEF MetaSpec

----------------------------------------------------------------------------
(* save_metadata *)

\* The command is settled before the save begins, the file is the earlier one
\* until then, and what is renamed is what was written.
SaveInv ==
    /\ pc \in {"parse", "join", "usage"} => mpc = "idle"
    /\ mpc = "idle" => file = Earlier
    /\ mpc \in {"close", "rename"} => tmp = Both \/ torn
    /\ SaveAtomic

\* The text to be saved does not change with any step that leaves the command
\* alone.
LEMMA BothKept == ASSUME UNCHANGED command_line PROVE Both' = Both
  BY DEF Both, Stored

\* Nothing is saved when the line is typed.
LEMMA SaveInvInit == MetaInit => SaveInv
  BY DEF MetaInit, Init, SaveInv, SaveAtomic

\* Splitting and joining the line, the steps of save_metadata, their failures,
\* the death of the manager and its restart preserve the invariant.
LEMMA SaveInvNext == SaveInv /\ [MetaNext]_allvars => SaveInv'
<1> SUFFICES ASSUME SaveInv, [MetaNext]_allvars PROVE SaveInv'
  OBVIOUS
<1> USE DEF SaveInv, SaveAtomic, mvars
<1>1. CASE (ParseWord \/ ParseDone) /\ UNCHANGED mvars
  <2>1. UNCHANGED command_line
    BY <1>1 DEF ParseWord, ParseDone
  <2>2. pc' \in {"parse", "join", "usage"} /\ pc = "parse"
    BY <1>1 DEF ParseWord, ParseDone
  <2> QED
    BY <1>1, <2>1, <2>2, BothKept, SMTT(60)
<1>2. CASE Join /\ UNCHANGED mvars
  BY <1>2, Zenon DEF Join
<1>3. CASE mpc = "saved" /\ build_exec_argv /\ UNCHANGED mvars
  <2>1. UNCHANGED command_line /\ pc' \in {"done", "failed"}
    BY <1>3, Zenon DEF build_exec_argv
  <2> QED
    BY <1>3, <2>1, BothKept
<1>4. CASE SaveOpen \/ SaveClose \/ SaveRename \/ SaveFails \/ Crash \/ Restore
  <2>1. UNCHANGED <<command_line, pc>>
    BY <1>4 DEF SaveOpen, SaveClose, SaveRename, SaveFails, Crash, Restore, vars
  <2>2. Both' = Both
    BY <2>1, BothKept
  <2> QED
    BY <1>4, <2>1, <2>2, SMTT(60) DEF SaveOpen, SaveClose, SaveRename, SaveFails, Crash, Restore
<1>5. CASE SaveWrite
  <2>1. UNCHANGED <<command_line, pc, file>> /\ mpc = "write" /\ mpc' = "close"
    BY <1>5 DEF SaveWrite, vars
  <2>2. Both' = Both
    BY <2>1, BothKept
  <2>3. (tmp' = Both /\ torn' = torn) \/ torn' = TRUE
    BY <1>5 DEF SaveWrite
  <2> QED
    BY <2>1, <2>2, <2>3
<1>6. CASE UNCHANGED allvars
  BY <1>6, BothKept DEF allvars, vars
<1> QED
  BY <1>1, <1>2, <1>3, <1>4, <1>5, <1>6, SMTT(60) DEF MetaNext

\* At any moment of a save, however it fails and whenever the manager dies,
\* containers.meta holds all records of one complete save: save_metadata renames
\* a file only after it was written and closed.
THEOREM SaveIsAtomic == MetaSpec => []SaveAtomic
<1>1. SaveInv => SaveAtomic
  BY DEF SaveInv
<1> QED
  BY <1>1, SaveInvInit, SaveInvNext, PTL DEF MetaSpec

----------------------------------------------------------------------------
(* container_manager_init *)

\* The characters of the fields that are not the command.
Signs(id) == {id, "n", "9", "h", "/", "C", "4", "5", "6"}

\* Ten fields of X: the first, the seventh and the last three.
TenOf(X, t, first, seventh, last) ==
    /\ t \in Seq(X) /\ Len(t) = 10 /\ t[1] = first /\ t[7] = seventh
    /\ \A n \in 1 .. 3 : t[7 + n] = last[n]

\* A record as its ten fields.
LEMMA TenTuple ==
    ASSUME NEW X, NEW a \in X, NEW b \in X, NEW c \in X, NEW d \in X, NEW e \in X, NEW f \in X,
           NEW g \in X, NEW h \in X, NEW i \in X, NEW j \in X
    PROVE  TenOf(X, <<a, b, c, d, e, f, g>> \o <<h, i, j>>, a, g, <<h, i, j>>)
<1> DEFINE p == <<a, b, c, d, e, f, g>>
           q == <<h, i, j>>
<1>1. p \in Seq(X) /\ Len(p) = 7 /\ p[1] = a /\ p[7] = g
  BY SMT
<1>2. q \in Seq(X) /\ Len(q) = 3
  BY SMT
<1> HIDE DEF p, q
<1>3. /\ p \o q \in Seq(X) /\ Len(p \o q) = 10 /\ (p \o q)[1] = p[1] /\ (p \o q)[7] = p[7]
      /\ \A n \in 1 .. 3 : (p \o q)[7 + n] = q[n]
  <2> DEFINE r == p \o q
  <2>1. /\ r \in Seq(X) /\ Len(r) = Len(p) + Len(q)
        /\ \A n \in 1 .. Len(p) + Len(q) : r[n] = IF n <= Len(p) THEN p[n] ELSE q[n - Len(p)]
    BY <1>1, <1>2, ConcatProperties, Zenon
  <2> HIDE DEF r
  <2>2. Len(p) + Len(q) = 10
    BY <1>1, <1>2, SMT
  <2>3. \A n \in 1 .. 10 : r[n] = IF n <= 7 THEN p[n] ELSE q[n - 7]
    BY <1>1, <2>1, <2>2, Zenon
  <2>4. ASSUME NEW n \in 1 .. 3 PROVE r[7 + n] = q[n]
    BY <2>3, SMT
  <2>5. r[1] = p[1] /\ r[7] = p[7]
    BY <2>3, SMT
  <2> QED
    BY <2>1, <2>2, <2>4, <2>5, Zenon DEF r
<1> QED
  BY <1>1, <1>3, Zenon DEF p, q, TenOf

\* None of the fields is empty, and the limits are the last three.
LEMMA FieldsFacts ==
    ASSUME NEW K, NEW id, NEW cmd \in Seq(K), cmd # << >>
    PROVE  TenOf(Seq(K \cup Signs(id)) \ {<< >>}, Fields(id, cmd, Limits), <<id>>, cmd, Limits)
<1> DEFINE D == K \cup Signs(id)
           X == Seq(D) \ {<< >>}
<1>1. ASSUME NEW z \in D PROVE <<z>> \in X
  <2> HIDE DEF D
  <2> QED
    BY SMT
<1>2. cmd \in X
  <2>1. K \subseteq D
    BY Zenon
  <2> HIDE DEF D
  <2> QED
    BY <2>1, SeqMonotonic, Zenon
<1>3. /\ id \in D /\ "n" \in D /\ "9" \in D /\ "h" \in D /\ "/" \in D /\ "C" \in D
      /\ "4" \in D /\ "5" \in D /\ "6" \in D
  BY Zenon DEF Signs
<1> HIDE DEF X, D
<1>4. /\ <<id>> \in X /\ <<"n">> \in X /\ <<"9">> \in X /\ <<"h">> \in X /\ <<"/">> \in X /\ <<"C">> \in X
      /\ <<"4">> \in X /\ <<"5">> \in X /\ <<"6">> \in X
  BY <1>1, <1>3, Zenon
<1>5. TenOf(X, Fields(id, cmd, Limits), <<id>>, cmd, Limits)
  BY <1>2, <1>4, TenTuple, Zenon DEF Fields, Limits
<1> QED
  BY <1>5, Zenon DEF X, D

\* The limits of a record are read as the numbers they were.
LEMMA LimitsRead ==
    ASSUME NEW F, \A n \in 1 .. 3 : F[7 + n] = Limits[n]
    PROVE  [n \in 1 .. 3 |-> Number(F[7 + n])] = Limits
<1>1. DOMAIN Limits = 1 .. 3 /\ Limits = [n \in 1 .. 3 |-> Limits[n]]
  <2> DEFINE Triple(t) == DOMAIN t = 1 .. 3 /\ t = [n \in 1 .. 3 |-> t[n]]
  <2>1. ASSUME NEW a, NEW b, NEW c PROVE Triple(<<a, b, c>>)
    BY SMT
  <2> HIDE DEF Triple
  <2>2. Triple(Limits)
    BY <2>1, Zenon DEF Limits
  <2> QED
    BY <2>2, Zenon DEF Triple
<1>2. ASSUME NEW n \in 1 .. 3 PROVE Number(F[7 + n]) = Limits[n]
  BY <1>1, Zenon DEF Number, Range
<1> QED
  BY <1>1, <1>2, Zenon

\* Words that are not empty give a text that is not empty.
LEMMA JoinedNonempty ==
    ASSUME NEW C, NEW sep \in Seq(C), NEW words \in Seq(Seq(C) \ {<< >>}), words # << >>
    PROVE  Joined(words, sep) # << >>
<1> DEFINE X == Seq(C) \ {<< >>}
<1>1. PICK v \in Seq(X), w \in X : words = Append(v, w)
  <2> HIDE DEF X
  <2>1. words \in Seq(X)
    BY Zenon DEF X
  <2> QED
    BY <2>1, SequenceEmptyOrAppend, Zenon
<1>2. v \in Seq(Seq(C)) /\ w \in Seq(C) /\ w # << >>
  <2>1. X \subseteq Seq(C)
    BY Zenon
  <2>2. w \in Seq(C) /\ w # << >>
    BY Zenon
  <2> HIDE DEF X
  <2> QED
    BY <2>1, <2>2, SeqMonotonic, Zenon
<1>3. JoinAdds(v, sep, w) /\ Joined(v, sep) \in Seq(C)
  BY <1>2, JoinedAppend, Zenon
<1> DEFINE j == Joined(v, sep) \o sep
<1>4. j \in Seq(C)
  BY <1>3, ConcatProperties, Zenon
<1> HIDE DEF j
<1>5. j \o w # << >>
  <2>1. Len(j) \in Nat /\ Len(w) \in Nat \ {0} /\ Len(j \o w) = Len(j) + Len(w)
    BY <1>2, <1>4, LenProperties, EmptySeq, ConcatProperties, ZenonT(60)
  <2>2. Len(j \o w) # 0
    BY <2>1, SMT
  <2> QED
    BY <2>2, EmptySeq, Zenon
<1>6. Joined(words, sep) = IF v = << >> THEN w ELSE j \o w
  BY <1>1, <1>3, Zenon DEF JoinAdds, j
<1> QED
  BY <1>2, <1>5, <1>6, Zenon

\* The line of a record, without the newline.
RecordLine(id, cmd) == Joined(Fields(id, cmd, Limits), <<Tab>>)

\* The line is a text of the characters of its fields and tabs.
LEMMA LineText ==
    ASSUME NEW K, NEW id, NEW cmd \in Seq(K), cmd # << >>
    PROVE  RecordLine(id, cmd) \in Seq(K \cup Signs(id) \cup {Tab}) /\ RecordLine(id, cmd) # << >>
<1> DEFINE F == Fields(id, cmd, Limits)
           D == K \cup Signs(id)
           C == D \cup {Tab}
           X == Seq(C) \ {<< >>}
<1>1. F \in Seq(Seq(D) \ {<< >>}) /\ Len(F) = 10
  <2>1. TenOf(Seq(D) \ {<< >>}, F, <<id>>, cmd, Limits)
    BY FieldsFacts, Zenon
  <2> QED
    BY <2>1, Zenon DEF TenOf
<1>2. D \subseteq C /\ Tab \in C
  BY Zenon
<1> HIDE DEF F, D, C
<1>3. Seq(D) \ {<< >>} \subseteq X /\ X \subseteq Seq(C)
  BY <1>2, SeqMonotonic, Zenon
<1>4. F \in Seq(X) /\ F \in Seq(Seq(C)) /\ F # << >>
  <2> DEFINE Y == Seq(D) \ {<< >>}
  <2>1. F \in Seq(Y) /\ Y \subseteq X /\ Y \subseteq Seq(C)
    BY <1>1, <1>3, Zenon
  <2>2. F # << >>
    <3>1. 10 # 0
      BY SMT
    <3> QED
      BY <1>1, <3>1, EmptySeq, Zenon
  <2> HIDE DEF Y, X
  <2> QED
    BY <2>1, <2>2, SeqMonotonic, Zenon
<1>5. <<Tab>> \in Seq(C)
  BY <1>2, SMT
<1>6. Joined(F, <<Tab>>) \in Seq(C) /\ Joined(F, <<Tab>>) # << >>
  BY <1>4, <1>5, JoinedType, JoinedNonempty, Zenon
<1> QED
  BY <1>6, Zenon DEF RecordLine, F, D, C

\* A text without line ends is not cut.
LEMMA TrimmedSame ==
    ASSUME NEW C, Newline \notin C, Return \notin C, NEW text \in Seq(C)
    PROVE  Trimmed(text) = text
<1>1. ASSUME NEW i \in 1 .. Len(text) PROVE text[i] \notin {Newline, Return}
  <2>1. text[i] \in C
    BY ElementOfSeq, Zenon
  <2> QED
    BY <2>1, Zenon
<1> QED
  BY <1>1, Zenon DEF Trimmed

\* The line of a record, cut and split as container_manager_init does it.
Read(text) == TenFields(Tokens(Trimmed(text), {Tab}))

\* Writing a record and reading its line gives the record again, if no field
\* has a tab or a line end in it.
LEMMA RecordRead ==
    ASSUME NEW id, NEW K, NEW cmd \in Seq(K), cmd # << >>,
           {Tab, Newline, Return} \cap (K \cup Signs(id)) = {}
    PROVE  LET F == Read(RecordLine(id, cmd)) IN Accepted(F) /\ Decoded(F) = Record(id, cmd)
<1> DEFINE F == Fields(id, cmd, Limits)
           D == K \cup Signs(id)
           C == D \cup {Tab}
           L == RecordLine(id, cmd)
<1>1. /\ F \in Seq(Seq(D) \ {<< >>}) /\ Len(F) = 10 /\ F[1] = <<id>> /\ F[7] = cmd
      /\ \A n \in 1 .. 3 : F[7 + n] = Limits[n]
  <2>1. TenOf(Seq(D) \ {<< >>}, F, <<id>>, cmd, Limits)
    BY FieldsFacts, Zenon
  <2> QED
    BY <2>1, Zenon DEF TenOf
<1>2. L \in Seq(C)
  BY LineText, Zenon
<1>3. Newline \notin C /\ Return \notin C /\ D \cap {Tab} = {} /\ Tab \in {Tab}
  BY Characters, Zenon
<1>4. L = Joined(F, <<Tab>>)
  BY Zenon DEF RecordLine
<1> HIDE DEF F, D, C, L
<1>5. Trimmed(L) = L
  BY <1>2, <1>3, TrimmedSame, Zenon
<1>6. Tokens(L, {Tab}) = F
  <2> DEFINE S == {Tab}
  <2>1. D \cap S = {} /\ Tab \in S
    BY <1>3, Zenon
  <2> HIDE DEF S
  <2>2. FoundAgain(F, Tab, S)
    BY <1>1, <2>1, TokensJoined, Zenon
  <2> QED
    BY <1>4, <2>2, Zenon DEF S, FoundAgain
<1>7. Len(F) <= 10 /\ Len(F) >= 7 /\ Len(F) \in {6, 7, 10}
  BY <1>1, SMT
<1>8. Read(L) = F
  BY <1>5, <1>6, <1>7, Zenon DEF Read, TenFields, UpTo
<1>9. Decoded(F) = [id |-> <<id>>, cmd |-> cmd, limits |-> Limits]
  <2>1. [n \in 1 .. 3 |-> Number(F[7 + n])] = Limits
    BY <1>1, LimitsRead, Zenon
  <2>2. ASSUME NEW n \in 1 .. 3
        PROVE  (IF Len(F) = 10 THEN Number(F[7 + n]) ELSE <<"0">>) = Number(F[7 + n])
    BY <1>1, Zenon
  <2>3. [n \in 1 .. 3 |-> IF Len(F) = 10 THEN Number(F[7 + n]) ELSE <<"0">>] = Limits
    BY <2>1, <2>2, Zenon
  <2> QED
    BY <1>1, <1>7, <2>3, Zenon DEF Decoded
<1> QED
  BY <1>7, <1>8, <1>9, Zenon DEF Accepted, Record, L

\* Two sequences of one element.
LEMMA TwoTuple == ASSUME NEW a, NEW b PROVE <<a>> \o <<b>> = <<a, b>>
<1> DEFINE C == {a, b}
           s == <<a>>
           t == <<b>>
           u == <<a, b>>
<1>1. a \in C /\ b \in C
  BY Zenon
<1> HIDE DEF C
<1>2. s \in Seq(C) /\ Len(s) = 1 /\ s[1] = a
  BY <1>1, SMT
<1>3. u \in Seq(C) /\ Len(u) = 2 /\ u[1] = a /\ u[2] = b
  BY <1>1, SMT
<1> HIDE DEF u, s, t
<1>4. Append(s, b) = u
  <2> DEFINE v == Append(s, b)
  <2>1. /\ v \in Seq(C) /\ Len(v) = Len(s) + 1
        /\ \A i \in 1 .. Len(s) : v[i] = s[i]
        /\ v[Len(s) + 1] = b
    <3>1. s \in Seq(C) /\ b \in C
      BY <1>1, <1>2, Zenon
    <3> QED
      BY <3>1, SMT
  <2> HIDE DEF v
  <2>2. Len(v) = 2 /\ \A i \in 1 .. Len(v) : v[i] = u[i]
    BY <1>2, <1>3, <2>1, SMT
  <2>3. Len(v) = Len(u)
    BY <1>3, <2>2, Zenon
  <2> QED
    BY <1>3, <2>1, <2>2, <2>3, SeqEqual, Zenon DEF v
<1>5. Append(s, b) = s \o t
  BY <1>1, <1>2, AppendIsConcat, Zenon DEF t
<1> QED
  BY <1>4, <1>5, Zenon DEF s, t, u

\* One line and two lines are read back as such.
OneLine(s) == Tokens(s \o <<Newline>>, {Newline}) = <<s>>
TwoLines(s, t) == Tokens((s \o <<Newline>>) \o (t \o <<Newline>>), {Newline}) = <<s, t>>

\* container_manager_init finds the lines that save_metadata has ended with a
\* newline each.
LEMMA LinesFound ==
    ASSUME NEW C, Newline \notin C, NEW s \in Seq(C), s # << >>, NEW t \in Seq(C), t # << >>
    PROVE  OneLine(s) /\ TwoLines(s, t)
<1> DEFINE S == {Newline}
           D == C \cup {Newline}
           e == <<Newline>>
<1>1. C \cap S = {} /\ Newline \in S /\ Newline \in D /\ C \subseteq D
  BY Zenon
<1> HIDE DEF S, D
<1>2. s \in Seq(D) /\ t \in Seq(D)
  BY <1>1, SeqMonotonic, Zenon
<1>3. Tokens(s, S) = <<s>> /\ Tokens(t, S) = <<t>>
  BY <1>1, OneWord, Zenon
<1>4. Append(s, Newline) = s \o e /\ Append(t, Newline) = t \o e
  BY <1>1, <1>2, AppendIsConcat, Zenon
<1>5. Append(t, Newline) \in Seq(D)
  BY <1>1, <1>2, AppendLast, Zenon
<1>6. /\ Tokens(Append(s, Newline), S) = Tokens(s, S)
      /\ Tokens(Append(t, Newline), S) = Tokens(t, S)
  <2>1. ASSUME NEW v \in Seq(D) PROVE Tokens(Append(v, Newline), S) = Tokens(v, S)
    BY <1>1, TokensBlank, ZenonT(60)
  <2> QED
    BY <1>2, <2>1, Zenon
<1> DEFINE u == Append(t, Newline)
<1> HIDE DEF u
<1>7. WordsAdd(s, Newline, u, S)
  <2>1. u \in Seq(D)
    BY <1>5, Zenon DEF u
  <2> QED
    BY <1>1, <1>2, <2>1, TokensConcat, Zenon
<1>8. Tokens((s \o e) \o (t \o e), S) = <<s>> \o <<t>>
  BY <1>3, <1>4, <1>6, <1>7, Zenon DEF WordsAdd, u
<1>9. <<s>> \o <<t>> = <<s, t>>
  BY TwoTuple, Zenon
<1> QED
  BY <1>3, <1>4, <1>6, <1>8, <1>9, Zenon DEF OneLine, TwoLines, S

\* A line that is accepted becomes one of the containers of the manager.
LEMMA LineRecovered ==
    ASSUME NEW text, NEW L, NEW lines, lines = Tokens(text, {Newline}),
           \E i \in 1 .. Len(lines) : lines[i] = L,
           Accepted(Read(L))
    PROVE  Decoded(Read(L)) \in Recovered(text)
<1>1. PICK i \in 1 .. Len(lines) : lines[i] = L
  OBVIOUS
<1> DEFINE fields == [n \in 1 .. Len(lines) |-> TenFields(Tokens(Trimmed(lines[n]), {Tab}))]
<1>2. fields[i] = Read(L)
  BY <1>1, Zenon DEF Read
<1>3. Recovered(text) = {Decoded(fields[n]) : n \in {j \in 1 .. Len(lines) : Accepted(fields[j])}}
  BY Zenon DEF Recovered
<1> HIDE DEF fields
<1> QED
  BY <1>1, <1>2, <1>3, Zenon

\* The stored command is not empty, and is a text of the characters of the words,
\* spaces and those of the default command.
LEMMA StoredText ==
    ASSUME NEW R, args \in Seq(Seq(R)), command_line \in {<< >>, Joined(args, <<Space>>)}
    PROVE  Stored \in Seq(R \cup {Space, "d"}) /\ Stored # << >>
<1> DEFINE K == R \cup {Space, "d"}
<1>1. R \subseteq K /\ Space \in K /\ "d" \in K
  BY Zenon
<1> HIDE DEF K
<1>2. Default \in Seq(K) /\ Default # << >>
  BY <1>1, SMT DEF Default
<1>3. Joined(args, <<Space>>) \in Seq(K)
  <2>1. Seq(R) \subseteq Seq(K)
    BY <1>1, SeqMonotonic, Zenon
  <2>2. args \in Seq(Seq(K))
    BY <2>1, SeqMonotonic, Zenon
  <2>3. <<Space>> \in Seq(K)
    BY <1>1, SMT
  <2> QED
    BY <2>2, <2>3, JoinedType, Zenon
<1>4. Stored \in Seq(K) /\ Stored # << >>
  BY <1>2, <1>3, Zenon DEF Stored
<1> QED
  BY <1>4, Zenon DEF K

\* The characters of the other fields are no separators.
LEMMA SignsPlain ==
    ASSUME NEW id \in {"1", "2"}
    PROVE  {Tab, Newline, Return} \cap Signs(id) = {}
  BY Zenon DEF Signs, Tab, Newline, Return

\* Nor is the letter of the earlier command, or of the default one.
LEMMA LettersPlain == {Tab, Newline, Return} \cap {Space, "a", "d"} = {}
  BY Zenon DEF Space, Tab, Newline, Return

\* The lines of containers.meta, before the save and after it.
TheLines(text, lines) == Tokens(text, {Newline}) = lines

\* containers.meta has a line for each record, if no command has a newline.
LEMMA LinesOfFile ==
    ASSUME NEW K, Newline \notin K, Stored \in Seq(K), Stored # << >>
    PROVE  /\ TheLines(Earlier, <<RecordLine("1", <<"a">>)>>)
           /\ TheLines(Both, <<RecordLine("1", <<"a">>), RecordLine("2", Stored)>>)
<1> DEFINE A == {"a"} \cup Signs("1") \cup {Tab}
           B == K \cup Signs("2") \cup {Tab}
           C == A \cup B
           s == RecordLine("1", <<"a">>)
           t == RecordLine("2", Stored)
<1>1. s \in Seq(A) /\ s # << >>
  <2> DEFINE X == {"a"}
             w == <<"a">>
  <2>1. w \in Seq(X) /\ w # << >>
    BY SMT
  <2> HIDE DEF X, w
  <2>2. RecordLine("1", w) \in Seq(X \cup Signs("1") \cup {Tab}) /\ RecordLine("1", w) # << >>
    BY <2>1, LineText, Zenon
  <2> QED
    BY <2>2, Zenon DEF X, w
<1>2. t \in Seq(B) /\ t # << >>
  BY LineText, Zenon
<1>3. Newline \notin C
  <2>1. Newline \notin Signs("1") /\ Newline \notin Signs("2")
    BY SignsPlain, Zenon
  <2>2. Newline # "a" /\ Newline # Tab
    BY LettersPlain, Characters, Zenon
  <2> QED
    BY <2>1, <2>2, Zenon
<1>4. A \subseteq C /\ B \subseteq C
  BY Zenon
<1>5. /\ Earlier = s \o <<Newline>>
      /\ Both = (s \o <<Newline>>) \o (t \o <<Newline>>)
  BY Zenon DEF Earlier, Both, Encoded, RecordLine
<1> HIDE DEF A, B, C, s, t
<1>6. s \in Seq(C) /\ t \in Seq(C)
  BY <1>1, <1>2, <1>4, SeqMonotonic, Zenon
<1>7. OneLine(s) /\ TwoLines(s, t)
  BY <1>1, <1>2, <1>3, <1>6, LinesFound, Zenon
<1>8. TheLines(Earlier, <<s>>) /\ TheLines(Both, <<s, t>>)
  BY <1>5, <1>7, Zenon DEF OneLine, TwoLines, TheLines
<1> QED
  BY <1>8, Zenon DEF s, t

\* The record that was there before the save is found in both versions of the
\* file, whatever the command of the new one.
LEMMA EarlierBack ==
    ASSUME NEW K, Newline \notin K, Stored \in Seq(K), Stored # << >>, NEW text \in {Earlier, Both}
    PROVE  Record("1", <<"a">>) \in Recovered(text)
<1> DEFINE s == RecordLine("1", <<"a">>)
           t == RecordLine("2", Stored)
<1>1. TheLines(Earlier, <<s>>) /\ TheLines(Both, <<s, t>>)
  BY LinesOfFile, Zenon
<1>2. Accepted(Read(s)) /\ Decoded(Read(s)) = Record("1", <<"a">>)
  <2> DEFINE X == {"a"}
             w == <<"a">>
  <2>1. w \in Seq(X) /\ w # << >>
    BY SMT
  <2>2. {Tab, Newline, Return} \cap (X \cup Signs("1")) = {}
    BY SignsPlain, LettersPlain, Zenon
  <2> HIDE DEF X, w
  <2>3. Accepted(Read(RecordLine("1", w))) /\ Decoded(Read(RecordLine("1", w))) = Record("1", w)
    BY <2>1, <2>2, RecordRead, Zenon
  <2> QED
    BY <2>3, Zenon DEF w
<1> HIDE DEF s, t
<1>3. /\ \E i \in 1 .. Len(<<s>>) : <<s>>[i] = s
      /\ \E i \in 1 .. Len(<<s, t>>) : <<s, t>>[i] = s
  BY SMT
<1>4. CASE text = Earlier
  <2> DEFINE lines == <<s>>
  <2>1. lines = Tokens(text, {Newline}) /\ \E i \in 1 .. Len(lines) : lines[i] = s
    BY <1>1, <1>3, <1>4, Zenon DEF TheLines
  <2> HIDE DEF lines
  <2> QED
    BY <1>2, <2>1, LineRecovered, Zenon
<1>5. CASE text = Both
  <2> DEFINE lines == <<s, t>>
  <2>1. lines = Tokens(text, {Newline}) /\ \E i \in 1 .. Len(lines) : lines[i] = s
    BY <1>1, <1>3, <1>5, Zenon DEF TheLines
  <2> HIDE DEF lines
  <2> QED
    BY <1>2, <2>1, LineRecovered, Zenon
<1> QED
  BY <1>4, <1>5, Zenon

\* The record of the new container is found after the save, if its command has
\* neither a tab nor a line end in it.
LEMMA SavedBack ==
    ASSUME NEW K, {Tab, Newline, Return} \cap K = {}, Stored \in Seq(K), Stored # << >>
    PROVE  Record("2", Stored) \in Recovered(Both)
<1> DEFINE s == RecordLine("1", <<"a">>)
           t == RecordLine("2", Stored)
           lines == <<s, t>>
<1>1. TheLines(Both, lines)
  BY LinesOfFile, Zenon
<1>2. Accepted(Read(t)) /\ Decoded(Read(t)) = Record("2", Stored)
  <2>1. {Tab, Newline, Return} \cap (K \cup Signs("2")) = {}
    BY SignsPlain, Zenon
  <2> QED
    BY <2>1, RecordRead, Zenon
<1> HIDE DEF s, t
<1>3. \E i \in 1 .. Len(lines) : lines[i] = t
  BY SMT
<1> HIDE DEF lines
<1>4. lines = Tokens(Both, {Newline})
  BY <1>1, Zenon DEF TheLines
<1> QED
  BY <1>2, <1>3, <1>4, LineRecovered, Zenon

\* The manager that was restarted knows what the file says.
RestoredInv == mpc = "restored" => back = Recovered(file)

\* Nothing is restored when the line is typed.
LEMMA RestoredInvInit == MetaInit => RestoredInv
  BY Zenon DEF MetaInit, RestoredInv

\* Only the restart reads the file, and nothing is saved after it.
LEMMA RestoredInvNext == RestoredInv /\ [MetaNext]_allvars => RestoredInv'
<1> SUFFICES ASSUME RestoredInv, [MetaNext]_allvars PROVE RestoredInv'
  OBVIOUS
<1>1. CASE UNCHANGED mvars
  BY <1>1, Zenon DEF mvars, RestoredInv
<1>2. CASE Restore
  BY <1>2, Zenon DEF Restore, RestoredInv
<1>3. CASE SaveOpen \/ SaveWrite \/ SaveClose \/ SaveRename \/ SaveFails \/ Crash
  <2>1. mpc' # "restored"
    BY <1>3, Zenon DEF SaveOpen, SaveWrite, SaveClose, SaveRename, SaveFails, Crash
  <2> QED
    BY <2>1, Zenon DEF RestoredInv
<1> QED
  BY <1>1, <1>2, <1>3, Zenon DEF MetaNext, allvars

\* The three invariants give the property.
LEMMA InvsSurvive == LineInv /\ SaveInv /\ RestoredInv => RecordsSurvive
<1> SUFFICES ASSUME LineInv, SaveInv, RestoredInv, mpc = "restored", ~torn
             PROVE  /\ Record("1", <<"a">>) \in back
                    /\ /\ file = Both /\ Return \notin Range(Stored)
                       /\ HasQuote => Tab \notin Range(Stored)
                       => Record("2", Stored) \in back
  BY Zenon DEF RecordsSurvive
<1> DEFINE R == Range(line)
           K == R \cup {Space, "d"}
<1>1. back = Recovered(file) /\ file \in {Earlier, Both}
  BY Zenon DEF RestoredInv, SaveInv, SaveAtomic
<1>2. LineType /\ Settled /\ Plain
  BY Zenon DEF LineInv
<1>3. args \in Seq(Seq(R)) /\ command_line \in {<< >>, Joined(args, <<Space>>)}
  BY <1>2, Zenon DEF LineType, Settled
<1>4. Newline \notin R
  <2>1. line \in Seq(Chars)
    BY <1>2, Zenon DEF LineType
  <2>2. R \subseteq Chars
    BY <2>1, RangeOfSeq, Zenon
  <2> QED
    BY <2>2, Characters, Zenon
<1>5. Stored \in Seq(K) /\ Stored # << >>
  BY <1>3, StoredText, Zenon
<1>6. Newline \notin K
  BY <1>4, LettersPlain, Zenon
<1>7. Record("1", <<"a">>) \in back
  <2> HIDE DEF K
  <2> QED
    BY <1>1, <1>5, <1>6, EarlierBack, Zenon
<1>8. ASSUME file = Both, Return \notin Range(Stored), HasQuote => Tab \notin Range(Stored)
      PROVE  Record("2", Stored) \in back
  <2>1. Stored \in Seq(Range(Stored)) /\ Newline \notin Range(Stored)
    <3> HIDE DEF K
    <3>1. Stored \in Seq(Range(Stored))
      BY <1>5 DEF Range
    <3>2. Range(Stored) \subseteq K
      BY <1>5, RangeOfSeq, Zenon
    <3> QED
      BY <1>6, <3>1, <3>2, Zenon
  <2>2. ASSUME ~HasQuote PROVE Tab \notin Range(Stored)
    <3> DEFINE Q == R \ Blanks
               J == Q \cup {Space, "d"}
    <3>1. args \in Seq(Seq(Q))
      <4> DEFINE X == Seq(Q) \ {<< >>}
      <4>1. args \in Seq(X) /\ X \subseteq Seq(Q)
        BY <1>2, <2>2, Zenon DEF Plain
      <4> HIDE DEF X, Q
      <4> QED
        BY <4>1, SeqMonotonic, Zenon
    <3>2. Tab \notin J
      BY Characters, LettersPlain, ZenonT(60)
    <3> HIDE DEF Q
    <3>3. Stored \in Seq(J) /\ Stored # << >>
      BY <1>3, <3>1, StoredText, Zenon
    <3> HIDE DEF J
    <3>4. Range(Stored) \subseteq J
      BY <3>3, RangeOfSeq, Zenon
    <3> QED
      BY <3>2, <3>4, Zenon
  <2>3. {Tab, Newline, Return} \cap Range(Stored) = {}
    BY <1>8, <2>1, <2>2, Zenon
  <2> QED
    BY <1>1, <1>5, <1>8, <2>1, <2>3, SavedBack, ZenonT(60)
<1> QED
  BY <1>7, <1>8, Zenon

\* Whatever line is typed and whenever the manager dies, container_manager_init
\* brings back the record that was there before, and the saved one with its
\* command and limits, if that has no carriage return and no tab typed in quotes.
THEOREM RestartRestores == MetaSpec => []RecordsSurvive
<1>1. MetaInit => LineInv /\ SaveInv /\ RestoredInv
  BY LineInvInit, SaveInvInit, RestoredInvInit, Zenon DEF MetaInit
<1>2. LineInv /\ SaveInv /\ RestoredInv /\ [MetaNext]_allvars => (LineInv /\ SaveInv /\ RestoredInv)'
  BY LineInvNext, SaveInvNext, RestoredInvNext, Zenon
<1> QED
  BY <1>1, <1>2, InvsSurvive, PTL DEF MetaSpec
=============================================================================
