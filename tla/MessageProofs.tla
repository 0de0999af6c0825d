---------------------------- MODULE MessageProofs ---------------------------
(***************************************************************************)
(* Facts about texts of any length, which the codec measures, splits and   *)
(* puts together piece by piece.  Induction comes as a fact about sets of  *)
(* numbers, from the well-foundedness of < on them.                        *)
(***************************************************************************)
EXTENDS MessageCodec, SequenceTheorems, WellFoundedInduction, TLAPS

\* A set of numbers with 0 and with the successor of each is that of all.
LEMMA Induction ==
  ASSUME NEW S, 0 \in S, \A n \in Nat : n \in S => n + 1 \in S
  PROVE  Nat \subseteq S
<1> DEFINE R == OpToRel(<, Nat)
           T == Nat \ S
<1> SUFFICES ASSUME T # {} PROVE FALSE
  OBVIOUS
<1>1. IsWellFoundedOn(R, Nat)
  BY NatLessThanWellFounded
<1>2. T \subseteq Nat
  OBVIOUS
<1> HIDE DEF R, T
<1>3. PICK x \in T : \A y \in T : <<y, x>> \notin R
  BY <1>1, <1>2, WFMin
<1> USE DEF T
<1>4. x \in Nat /\ x # 0
  OBVIOUS
<1>5. x - 1 \in Nat /\ x - 1 \notin S
  BY <1>4
<1>6. <<x - 1, x>> \in R
  BY <1>4, <1>5 DEF R, OpToRel
<1> QED
  BY <1>3, <1>5, <1>6

Text == Seq(Piece)

\* A text that is not empty ends with a piece.
LEMMA FrontOfText ==
  ASSUME NEW text \in Text, text # << >>
  PROVE  \E front \in Text, last \in Piece :
           text = Append(front, last) /\ Len(front) + 1 = Len(text)
<1>1. PICK front \in Text, last \in Piece : text = Append(front, last)
  BY SequenceEmptyOrAppend DEF Text
<1>2. Len(text) = Len(front) + 1
  BY <1>1 DEF Text
<1> QED
  BY <1>1, <1>2

-----------------------------------------------------------------------------
(* Length.                                                                 *)

LengthUpTo(text) ==
  CHOOSE f : f = [n \in 0 .. Len(text) |-> IF n = 0 THEN 0 ELSE f[n - 1] + Len(text[n])]

\* The recursive function in Length is what its definition says.
LEMMA LengthUpToDef ==
  ASSUME NEW text \in Text
  PROVE  LengthUpTo(text) = [n \in 0 .. Len(text) |->
           IF n = 0 THEN 0 ELSE LengthUpTo(text)[n - 1] + Len(text[n])]
<1> DEFINE S == {k \in Nat :
             \E f : f = [n \in 0 .. k |-> IF n = 0 THEN 0 ELSE f[n - 1] + Len(text[n])]}
<1>1. 0 \in S
  <2>1. [n \in 0 .. 0 |-> 0] = [n \in 0 .. 0 |->
          IF n = 0 THEN 0 ELSE [i \in 0 .. 0 |-> 0][n - 1] + Len(text[n])]
    OBVIOUS
  <2> QED
    BY <2>1
<1>2. ASSUME NEW k \in Nat, k \in S PROVE k + 1 \in S
  <2>1. PICK f : f = [n \in 0 .. k |-> IF n = 0 THEN 0 ELSE f[n - 1] + Len(text[n])]
    BY <1>2
  <2> DEFINE g == [n \in 0 .. k + 1 |-> IF n <= k THEN f[n] ELSE f[k] + Len(text[k + 1])]
  <2>2. g = [n \in 0 .. k + 1 |-> IF n = 0 THEN 0 ELSE g[n - 1] + Len(text[n])]
    BY <2>1
  <2> HIDE DEF g
  <2> QED
    BY <2>2
<1>3. Len(text) \in S
  <2> HIDE DEF S
  <2> QED
    BY <1>1, <1>2, Induction DEF Text
<1> QED
  BY <1>3 DEF LengthUpTo

\* The length of a text is the sum of those of its pieces, one by one.
LEMMA LengthStep ==
  /\ Length(<< >>) = 0
  /\ \A text \in Text, piece \in Piece : Length(Append(text, piece)) = Length(text) + Len(piece)
<1>1. Length(<< >>) = 0
  <2>1. << >> \in Text /\ Len(<< >>) = 0
    BY DEF Text
  <2> DEFINE F == LengthUpTo(<< >>)
             empty == << >>
  <2>2. Length(empty) = F[0]
    BY <2>1 DEF Length, LengthUpTo
  <2>3. F = [n \in 0 .. Len(empty) |-> IF n = 0 THEN 0 ELSE F[n - 1] + Len(empty[n])]
    BY <2>1, LengthUpToDef
  <2> HIDE DEF F
  <2> QED
    BY <2>1, <2>2, <2>3
<1>2. ASSUME NEW text \in Text, NEW piece \in Piece
      PROVE  Length(Append(text, piece)) = Length(text) + Len(piece)
  <2> DEFINE longer == Append(text, piece)
             F == LengthUpTo(text)
             G == LengthUpTo(longer)
             S == {n \in Nat : n <= Len(text) => G[n] = F[n]}
  <2>1. /\ longer \in Text /\ Len(text) \in Nat /\ Len(longer) = Len(text) + 1
        /\ longer[Len(longer)] = piece
        /\ \A n \in 1 .. Len(text) : longer[n] = text[n]
    BY DEF Text
  <2>2. Length(text) = F[Len(text)] /\ Length(longer) = G[Len(longer)]
    BY DEF Length, LengthUpTo
  <2>3. F = [n \in 0 .. Len(text) |-> IF n = 0 THEN 0 ELSE F[n - 1] + Len(text[n])]
    BY LengthUpToDef
  <2>4. G = [n \in 0 .. Len(longer) |-> IF n = 0 THEN 0 ELSE G[n - 1] + Len(longer[n])]
    BY <2>1, LengthUpToDef
  <2> HIDE DEF longer, F, G
  <2>5. 0 \in S
    BY <2>1, <2>3, <2>4
  <2>6. ASSUME NEW n \in Nat, n \in S PROVE n + 1 \in S
    BY <2>1, <2>3, <2>4, <2>6
  <2>7. Len(text) \in S
    <3> HIDE DEF S
    <3> QED
      BY <2>1, <2>5, <2>6, Induction
  <2> QED
    BY <2>1, <2>2, <2>4, <2>7 DEF longer
<1> QED
  BY <1>1, <1>2

\* It is a number.
LEMMA LengthIsNat == \A text \in Text : Length(text) \in Nat
<1> DEFINE S == {n \in Nat : \A text \in Text : Len(text) = n => Length(text) \in Nat}
<1>1. 0 \in S
  BY LengthStep DEF Text
<1>2. ASSUME NEW n \in Nat, n \in S PROVE n + 1 \in S
  <2> SUFFICES ASSUME NEW text \in Text, Len(text) = n + 1 PROVE Length(text) \in Nat
    OBVIOUS
  <2>1. PICK front \in Text, last \in Piece : text = Append(front, last) /\ Len(front) = n
    BY FrontOfText
  <2>2. Length(front) \in Nat /\ Len(last) \in Nat
    BY <1>2, <2>1, CodecAssumption
  <2> QED
    BY <2>1, <2>2, LengthStep
<1>3. \A text \in Text : Len(text) \in Nat
  BY DEF Text
<1> QED
  <2> HIDE DEF S
  <2>1. Nat \subseteq S
    BY <1>1, <1>2, Induction
  <2> QED
    BY <1>3, <2>1 DEF S

\* The length of two texts, one after the other.
LEMMA LengthOfBoth ==
  \A text, more \in Text : Length(text \o more) = Length(text) + Length(more)
<1> DEFINE S == {n \in Nat : \A text, more \in Text :
                   Len(more) = n => Length(text \o more) = Length(text) + Length(more)}
<1>1. 0 \in S
  <2> SUFFICES ASSUME NEW text \in Text, NEW more \in Text, Len(more) = 0
               PROVE  Length(text \o more) = Length(text) + Length(more)
    OBVIOUS
  <2>1. more = << >> /\ text \o more = text
    BY DEF Text
  <2> QED
    BY <2>1, LengthStep, LengthIsNat
<1>2. ASSUME NEW n \in Nat, n \in S PROVE n + 1 \in S
  <2> SUFFICES ASSUME NEW text \in Text, NEW more \in Text, Len(more) = n + 1
               PROVE  Length(text \o more) = Length(text) + Length(more)
    OBVIOUS
  <2>1. PICK front \in Text, last \in Piece : more = Append(front, last) /\ Len(front) = n
    BY FrontOfText
  <2>2. text \o more = Append(text \o front, last) /\ text \o front \in Text
    BY <2>1 DEF Text
  <2>3. Length(text \o front) = Length(text) + Length(front)
    BY <1>2, <2>1
  <2>4. Length(text) \in Nat /\ Length(front) \in Nat /\ Len(last) \in Nat
    BY <2>1, LengthIsNat, CodecAssumption
  <2> QED
    BY <2>1, <2>2, <2>3, <2>4, LengthStep
<1> QED
  <2> HIDE DEF S
  <2>1. Nat \subseteq S
    BY <1>1, <1>2, Induction
  <2>2. \A text \in Text : Len(text) \in Nat
    BY DEF Text
  <2> QED
    BY <2>1, <2>2 DEF S

\* What the proofs need of the characters, so that Piece is not expanded.
LEMMA Pieces ==
  /\ TypeName \subseteq Piece /\ Whitespace \subseteq Piece
  /\ Space \in Whitespace /\ Newline \in Whitespace
  /\ Quote \in Piece /\ Quote \notin Whitespace /\ Quote \notin TypeName
  /\ TypeName \cap Whitespace = {}
  /\ "PUSH" \in TypeName /\ "DATA" \in TypeName
BY DEF Piece, TypeName, RequestType, ResponseType, Whitespace, Space, Tab, Newline, Quote

\* Two texts, one after the other.
LEMMA ConcatTexts ==
  ASSUME NEW text \in Text, NEW more \in Text
  PROVE  /\ text \o more \in Text /\ Len(text \o more) = Len(text) + Len(more)
         /\ Len(text) \in Nat /\ Len(more) \in Nat
         /\ \A i \in 1 .. Len(text) : (text \o more)[i] = text[i]
         /\ \A i \in 1 .. Len(more) : (text \o more)[Len(text) + i] = more[i]
BY ConcatProperties, LenProperties DEF Text

\* A piece at the end of two texts is one at the end of the second.
LEMMA AppendToConcat ==
  ASSUME NEW text \in Text, NEW more \in Text, NEW piece \in Piece
  PROVE  Append(text \o more, piece) = text \o Append(more, piece)
BY DEF Text

\* Where the parentheses are makes no difference.
LEMMA Regroup ==
  ASSUME NEW s \in Text, NEW t \in Text, NEW u \in Text
  PROVE  (s \o t) \o u = s \o (t \o u)
BY ConcatAssociative DEF Text

\* A text is what comes before its n-th piece and the rest.
LEMMA CutText ==
  ASSUME NEW text \in Text, NEW n \in 1 .. Len(text)
  PROVE  /\ SubSeq(text, 1, n - 1) \in Text /\ SubSeq(text, n, Len(text)) \in Text
         /\ text = SubSeq(text, 1, n - 1) \o SubSeq(text, n, Len(text))
<1>1. \A i \in 1 .. Len(text) : text[i] \in Piece
  BY ElementOfSeq DEF Text
<1>2. SubSeq(text, 1, n - 1) \in Text /\ SubSeq(text, n, Len(text)) \in Text
  BY <1>1, SubSeqProperties, LenProperties DEF Text
<1>3. SubSeq(text, 1, n - 1) \o SubSeq(text, n, Len(text)) = SubSeq(text, 1, Len(text))
  <2> DEFINE k == n - 1
  <2>1. /\ Len(text) \in Nat /\ 1 \in 1 .. Len(text) + 1
        /\ k \in 1 - 1 .. Len(text) /\ Len(text) \in k .. Len(text) /\ k + 1 = n
    BY DEF Text
  <2> HIDE DEF k
  <2>2. SubSeq(text, 1, k) \o SubSeq(text, k + 1, Len(text)) = SubSeq(text, 1, Len(text))
    BY <2>1, ConcatAdjacentSubSeq DEF Text
  <2> QED
    BY <2>1, <2>2 DEF k
<1> QED
  BY <1>2, <1>3, SubSeqFull DEF Text

\* A text and one more piece.
LEMMA AppendToText ==
  ASSUME NEW text \in Text, NEW piece \in Piece
  PROVE  /\ Append(text, piece) \in Text /\ Len(Append(text, piece)) = Len(text) + 1
         /\ \A i \in 1 .. Len(text) : Append(text, piece)[i] = text[i]
         /\ Append(text, piece)[Len(text) + 1] = piece
BY DEF Text

-----------------------------------------------------------------------------
(* Words.                                                                  *)

WordsUpTo(text) ==
  CHOOSE f : f = [n \in 0 .. Len(text) |->
    IF n = 0 THEN << >>
    ELSE IF text[n] \in Whitespace THEN f[n - 1]
    ELSE IF n = 1 \/ text[n - 1] \in Whitespace THEN Append(f[n - 1], <<text[n]>>)
    ELSE [f[n - 1] EXCEPT ![Len(f[n - 1])] = Append(@, text[n])]]

\* What one more piece does to the words so far.
NextWords(words, text, n) ==
  IF text[n] \in Whitespace THEN words
  ELSE IF n = 1 \/ text[n - 1] \in Whitespace THEN Append(words, <<text[n]>>)
  ELSE [words EXCEPT ![Len(words)] = Append(@, text[n])]

\* The recursive function in Words is what its definition says.
LEMMA WordsUpToDef ==
  ASSUME NEW text \in Text
  PROVE  WordsUpTo(text) = [n \in 0 .. Len(text) |->
           IF n = 0 THEN << >> ELSE NextWords(WordsUpTo(text)[n - 1], text, n)]
<1> DEFINE S == {k \in Nat : \E f : f = [n \in 0 .. k |->
                   IF n = 0 THEN << >> ELSE NextWords(f[n - 1], text, n)]}
<1>1. 0 \in S
  <2>1. [n \in 0 .. 0 |-> << >>] = [n \in 0 .. 0 |->
          IF n = 0 THEN << >> ELSE NextWords([i \in 0 .. 0 |-> << >>][n - 1], text, n)]
    OBVIOUS
  <2> QED
    BY <2>1
<1>2. ASSUME NEW k \in Nat, k \in S PROVE k + 1 \in S
  <2>1. PICK f : f = [n \in 0 .. k |-> IF n = 0 THEN << >> ELSE NextWords(f[n - 1], text, n)]
    BY <1>2
  <2> DEFINE g == [n \in 0 .. k + 1 |-> IF n <= k THEN f[n] ELSE NextWords(f[k], text, k + 1)]
  <2>2. g = [n \in 0 .. k + 1 |-> IF n = 0 THEN << >> ELSE NextWords(g[n - 1], text, n)]
    BY <2>1
  <2> HIDE DEF g
  <2> QED
    BY <2>2
<1>3. Len(text) \in S
  <2> HIDE DEF S
  <2> QED
    BY <1>1, <1>2, Induction DEF Text
<1>4. PICK f : f = [n \in 0 .. Len(text) |->
                 IF n = 0 THEN << >> ELSE NextWords(f[n - 1], text, n)]
  BY <1>3
<1> QED
  BY <1>4 DEF WordsUpTo, NextWords

\* The words of a text, piece by piece.
LEMMA WordsStep ==
  /\ Words(<< >>) = << >>
  /\ \A text \in Text, piece \in Piece :
       LET longer == Append(text, piece)
       IN  Words(longer) = NextWords(Words(text), longer, Len(longer))
<1>1. Words(<< >>) = << >>
  <2>1. << >> \in Text /\ Len(<< >>) = 0
    BY DEF Text
  <2> DEFINE F == WordsUpTo(<< >>)
             empty == << >>
  <2>2. Words(empty) = F[0]
    BY <2>1 DEF Words, WordsUpTo
  <2>3. F = [n \in 0 .. Len(empty) |-> IF n = 0 THEN << >> ELSE NextWords(F[n - 1], empty, n)]
    BY <2>1, WordsUpToDef
  <2> HIDE DEF F
  <2> QED
    BY <2>1, <2>2, <2>3
<1>2. ASSUME NEW text \in Text, NEW piece \in Piece
      PROVE  Words(Append(text, piece)) =
               NextWords(Words(text), Append(text, piece), Len(Append(text, piece)))
  <2> DEFINE longer == Append(text, piece)
             F == WordsUpTo(text)
             G == WordsUpTo(longer)
             S == {n \in Nat : n <= Len(text) => G[n] = F[n]}
  <2>1. /\ longer \in Text /\ Len(text) \in Nat /\ Len(longer) = Len(text) + 1
        /\ \A n \in 1 .. Len(text) : longer[n] = text[n]
    BY DEF Text
  <2>2. Words(text) = F[Len(text)] /\ Words(longer) = G[Len(longer)]
    BY DEF Words, WordsUpTo
  <2>3. F = [n \in 0 .. Len(text) |-> IF n = 0 THEN << >> ELSE NextWords(F[n - 1], text, n)]
    BY WordsUpToDef
  <2>4. G = [n \in 0 .. Len(longer) |-> IF n = 0 THEN << >> ELSE NextWords(G[n - 1], longer, n)]
    BY <2>1, WordsUpToDef
  <2>5. \A n \in 1 .. Len(text) : \A words : NextWords(words, text, n) = NextWords(words, longer, n)
    BY <2>1 DEF NextWords
  <2> HIDE DEF longer, F, G
  <2>6. 0 \in S
    BY <2>1, <2>3, <2>4
  <2>7. ASSUME NEW n \in Nat, n \in S PROVE n + 1 \in S
    <3> SUFFICES ASSUME n + 1 <= Len(text) PROVE G[n + 1] = F[n + 1]
      OBVIOUS
    <3>1. G[n + 1] = NextWords(G[n], longer, n + 1) /\ F[n + 1] = NextWords(F[n], text, n + 1)
      BY <2>1, <2>3, <2>4
    <3>2. G[n] = F[n]
      BY <2>1, <2>7
    <3> QED
      BY <2>1, <2>5, <3>1, <3>2
  <2>8. Len(text) \in S
    <3> HIDE DEF S
    <3> QED
      BY <2>1, <2>6, <2>7, Induction
  <2>9. G[Len(longer)] = NextWords(G[Len(text)], longer, Len(longer))
    BY <2>1, <2>4
  <2> QED
    BY <2>1, <2>2, <2>8, <2>9 DEF longer
<1> QED
  BY <1>1, <1>2

\* Words are texts, and a text that ends in a piece of a word has one.
LEMMA WordsAreTexts ==
  \A text \in Text :
    /\ Words(text) \in Seq(Text)
    /\ text # << >> /\ text[Len(text)] \notin Whitespace => Words(text) # << >>
<1> DEFINE P(text) == /\ Words(text) \in Seq(Text)
                      /\ text # << >> /\ text[Len(text)] \notin Whitespace => Words(text) # << >>
           S == {n \in Nat : \A text \in Text : Len(text) = n => P(text)}
<1>1. 0 \in S
  BY WordsStep DEF Text
<1>2. ASSUME NEW n \in Nat, n \in S PROVE n + 1 \in S
  <2> SUFFICES ASSUME NEW text \in Text, Len(text) = n + 1 PROVE P(text)
    OBVIOUS
  <2>1. PICK front \in Text, last \in Piece : text = Append(front, last) /\ Len(front) = n
    BY FrontOfText
  <2>2. Words(front) \in Seq(Text)
    BY <1>2, <2>1
  <2>3. Words(text) = NextWords(Words(front), text, n + 1)
    BY <2>1, WordsStep
  <2>4. /\ text[n + 1] = last /\ last \in Piece
        /\ n # 0 => text[n] = front[n] /\ front # << >>
        /\ <<last>> \in Text
    BY <2>1 DEF Text
  <2>5. CASE last \in Whitespace
    BY <2>2, <2>3, <2>4, <2>5 DEF NextWords
  <2>6. CASE last \notin Whitespace /\ (n + 1 = 1 \/ text[n + 1 - 1] \in Whitespace)
    <3>1. Words(text) = Append(Words(front), <<last>>)
      BY <2>3, <2>4, <2>6 DEF NextWords
    <3>2. Len(Words(text)) = Len(Words(front)) + 1 /\ Len(Words(front)) \in Nat
      BY <2>2, <2>4, <3>1
    <3> QED
      BY <2>2, <2>4, <3>1, <3>2
  <2>7. CASE last \notin Whitespace /\ ~(n + 1 = 1 \/ text[n + 1 - 1] \in Whitespace)
    <3>1. Words(text) = [Words(front) EXCEPT ![Len(Words(front))] =
                           Append(Words(front)[Len(Words(front))], last)]
      BY <2>3, <2>4, <2>7 DEF NextWords
    <3>2. Words(front) # << >>
      <4>1. front # << >> /\ front[n] \notin Whitespace
        BY <2>4, <2>7
      <4> QED
        BY <1>2, <2>1, <4>1
    <3>3. Len(Words(front)) \in 1 .. Len(Words(front)) /\ Words(front)[Len(Words(front))] \in Text
      BY <2>2, <3>2
    <3>4. Append(Words(front)[Len(Words(front))], last) \in Text
      BY <2>4, <3>3 DEF Text
    <3> QED
      BY <2>2, <3>1, <3>3, <3>4
  <2> QED
    BY <2>5, <2>6, <2>7
<1>3. \A text \in Text : Len(text) \in Nat
  BY DEF Text
<1> QED
  <2> HIDE DEF S, P
  <2>1. Nat \subseteq S
    BY <1>1, <1>2, Induction
  <2>2. \A text \in Text : P(text)
    BY <1>3, <2>1 DEF S
  <2> QED
    BY <2>2 DEF P

Blank(text)  == \A i \in 1 .. Len(text) : text[i] \in Whitespace
IsWord(text) == text # << >> /\ \A i \in 1 .. Len(text) : text[i] \notin Whitespace
BreaksOff(text) == text = << >> \/ text[1] \in Whitespace

\* The first word of a text is between blanks and the end or another blank.
FirstWord(text, blanks, word, rest) ==
  /\ text = blanks \o word \o rest
  /\ Blank(blanks) /\ IsWord(word) /\ BreaksOff(rest)

\* Blanks alone are no word; otherwise the first word is where it was read.
LEMMA WordsAreFound ==
  \A text \in Text :
    \/ Blank(text) /\ Words(text) = << >>
    \/ \E blanks, word, rest \in Text :
         FirstWord(text, blanks, word, rest) /\ Words(text) = <<word>> \o Words(rest)
<1> DEFINE P(text) ==
             \/ Blank(text) /\ Words(text) = << >>
             \/ \E blanks, word, rest \in Text :
                  FirstWord(text, blanks, word, rest) /\ Words(text) = <<word>> \o Words(rest)
           S == {n \in Nat : \A text \in Text : Len(text) = n => P(text)}
<1>1. 0 \in S
  BY WordsStep DEF Text, Blank
<1>2. ASSUME NEW n \in Nat, n \in S PROVE n + 1 \in S
  <2> HIDE DEF P
  <2> SUFFICES ASSUME NEW text \in Text, Len(text) = n + 1 PROVE P(text)
    OBVIOUS
  <2>1. PICK front \in Text, last \in Piece : text = Append(front, last) /\ Len(front) = n
    BY FrontOfText
  <2>2. /\ text[n + 1] = last /\ last \in Piece
        /\ \A i \in 1 .. n : text[i] = front[i]
    BY <2>1 DEF Text
  <2>3. Words(text) = NextWords(Words(front), text, n + 1)
    BY <2>1, WordsStep
  <2>4. P(front)
    BY <1>2, <2>1
  <2>5. CASE Blank(front)
    <3>1. Words(front) = << >>
      <4>1. ~ \E blanks, word, rest \in Text : FirstWord(front, blanks, word, rest)
        <5> SUFFICES ASSUME NEW blanks \in Text, NEW word \in Text, NEW rest \in Text,
                            FirstWord(front, blanks, word, rest)
                     PROVE  FALSE
          OBVIOUS
        <5>1. /\ Len(blanks) + 1 \in 1 .. Len(front) /\ front[Len(blanks) + 1] = word[1]
              /\ 1 \in 1 .. Len(word)
          BY DEF FirstWord, IsWord, Text
        <5> QED
          BY <2>5, <5>1 DEF FirstWord, IsWord, Blank
      <4> QED
        BY <2>4, <4>1 DEF P
    <3>2. CASE last \in Whitespace
      <4>1. Blank(text)
        BY <2>1, <2>2, <2>5, <3>2 DEF Blank
      <4>2. Words(text) = << >>
        BY <2>2, <2>3, <3>1, <3>2 DEF NextWords
      <4> QED
        BY <4>1, <4>2 DEF P
    <3>3. CASE last \notin Whitespace
      <4>1. n + 1 = 1 \/ text[n + 1 - 1] \in Whitespace
        BY <2>1, <2>2, <2>5 DEF Blank
      <4>2. Words(text) = << <<last>> >>
        BY <2>2, <2>3, <3>1, <3>3, <4>1 DEF NextWords
      <4>3. /\ <<last>> \in Text /\ << >> \in Text
            /\ text = front \o <<last>> \o << >>
        BY <2>1 DEF Text
      <4>4. FirstWord(text, front, <<last>>, << >>)
        BY <2>5, <3>3, <4>3 DEF FirstWord, IsWord, BreaksOff
      <4>5. << <<last>> >> = << <<last>> >> \o Words(<< >>)
        BY WordsStep
      <4> QED
        BY <2>1, <4>2, <4>3, <4>4, <4>5 DEF P
    <3> QED
      BY <3>2, <3>3
  <2>6. ASSUME NEW blanks \in Text, NEW word \in Text, NEW rest \in Text,
               FirstWord(front, blanks, word, rest), Words(front) = <<word>> \o Words(rest)
        PROVE  P(text)
    <3> DEFINE more == Append(rest, last)
    <3>1. /\ more \in Text /\ Len(more) = Len(rest) + 1 /\ more[Len(more)] = last
          /\ text = blanks \o word \o more
          /\ rest # << >> => /\ front[n] = rest[Len(rest)] /\ more[1] = rest[1]
                             /\ more[Len(more) - 1] = rest[Len(rest)]
          /\ rest = << >> => front[n] = word[Len(word)] /\ Len(more) = 1
          /\ n # 0 /\ text[n] = front[n] /\ Len(rest) \in Nat
      <4>1. more \in Text /\ Len(more) = Len(rest) + 1 /\ Len(rest) \in Nat
            /\ more[Len(more)] = last /\ \A i \in 1 .. Len(rest) : more[i] = rest[i]
        BY AppendToText, ConcatTexts
      <4>2. blanks \o word \in Text /\ Len(blanks \o word) = Len(blanks) + Len(word)
            /\ Len(blanks) \in Nat /\ Len(word) \in Nat \ {0}
            /\ \A i \in 1 .. Len(word) : (blanks \o word)[Len(blanks) + i] = word[i]
        <5>1. Len(word) # 0
          BY <2>6 DEF FirstWord, IsWord, Text
        <5> QED
          BY <5>1, ConcatTexts
      <4>3. text = blanks \o word \o more
        <5> DEFINE head == blanks \o word
        <5>1. front = head \o rest
          BY <2>6 DEF FirstWord
        <5> HIDE DEF head
        <5>2. Append(front, last) = head \o Append(rest, last)
          BY <4>2, <5>1, AppendToConcat, Zenon DEF head
        <5> QED
          BY <2>1, <5>2 DEF head
      <4>4. /\ n = Len(blanks) + Len(word) + Len(rest)
            /\ \A i \in 1 .. Len(rest) : front[Len(blanks) + Len(word) + i] = rest[i]
            /\ \A i \in 1 .. Len(blanks) + Len(word) : front[i] = (blanks \o word)[i]
        <5> DEFINE head == blanks \o word
        <5>1. front = head \o rest
          BY <2>6 DEF FirstWord
        <5> HIDE DEF head
        <5>2. /\ Len(front) = Len(head) + Len(rest)
              /\ \A i \in 1 .. Len(rest) : front[Len(head) + i] = rest[i]
              /\ \A i \in 1 .. Len(head) : front[i] = head[i]
          BY <4>2, <5>1 DEF head, Text
        <5> QED
          BY <2>1, <4>2, <5>2 DEF head
      <4>5. rest # << >> => front[n] = rest[Len(rest)] /\ Len(rest) # 0
        <5> SUFFICES ASSUME rest # << >> PROVE front[n] = rest[Len(rest)] /\ Len(rest) # 0
          OBVIOUS
        <5>1. Len(rest) # 0
          BY EmptySeq DEF Text
        <5> QED
          BY <4>1, <4>2, <4>4, <5>1
      <4>6. rest = << >> => front[n] = word[Len(word)] /\ Len(rest) = 0
        <5> SUFFICES ASSUME rest = << >> PROVE front[n] = word[Len(word)] /\ Len(rest) = 0
          OBVIOUS
        <5>1. Len(rest) = 0
          OBVIOUS
        <5>2. front[n] = (blanks \o word)[n] /\ n = Len(blanks) + Len(word)
          BY <4>2, <4>4, <5>1
        <5> QED
          BY <4>2, <5>1, <5>2
      <4> HIDE DEF more
      <4> QED
        BY <2>2, <4>1, <4>2, <4>3, <4>4, <4>5, <4>6, SMTT(30)
    <3>2. Words(more) = NextWords(Words(rest), more, Len(more))
      BY WordsStep
    <3>3. Words(rest) \in Seq(Text) /\ Words(rest) \in Seq(Text)
      BY WordsAreTexts
    <3>4. CASE last \in Whitespace
      <4>1. Words(text) = <<word>> \o Words(more)
        BY <2>2, <2>3, <2>6, <3>1, <3>2, <3>4 DEF NextWords
      <4>2. FirstWord(text, blanks, word, more)
        BY <2>6, <3>1, <3>4 DEF FirstWord, BreaksOff
      <4> QED
        BY <3>1, <4>1, <4>2 DEF P
    <3>5. CASE last \notin Whitespace /\ rest = << >>
      <4>1. front[n] \notin Whitespace
        BY <2>6, <3>1, <3>5 DEF FirstWord, IsWord, Text
      <4>2. Words(front) = <<word>>
        <5>1. <<word>> \in Seq(Text)
          OBVIOUS
        <5> QED
          BY <2>6, <3>5, <5>1, WordsStep, ConcatEmptySeq
      <4>3. Words(text) = <<Append(word, last)>>
        <5>1. Words(text) = [Words(front) EXCEPT ![Len(Words(front))] =
                               Append(Words(front)[Len(Words(front))], last)]
          BY <2>2, <2>3, <3>1, <3>5, <4>1 DEF NextWords
        <5> QED
          BY <4>2, <5>1
      <4>4. Append(word, last) \in Text /\ << >> \in Text
            /\ text = blanks \o Append(word, last) \o << >>
        <5>1. /\ Append(word, last) \in Text /\ blanks \o Append(word, last) \in Text
              /\ Append(blanks \o word, last) = blanks \o Append(word, last)
              /\ blanks \o word \in Text /\ << >> \in Text
          <6>1. blanks \o word \in Text /\ << >> \in Text
            BY ConcatTexts DEF Text
          <6>2. Append(word, last) \in Text
            BY AppendToText
          <6>3. blanks \o Append(word, last) \in Text
            BY <6>2, ConcatTexts
          <6>4. Append(blanks \o word, last) = blanks \o Append(word, last)
            BY AppendToConcat, Zenon
          <6> QED
            BY <6>1, <6>2, <6>3, <6>4
        <5>2. front = blanks \o word
          BY <2>6, <3>5, <5>1, ConcatEmptySeq DEF FirstWord, Text
        <5>3. text = blanks \o Append(word, last)
          BY <2>1, <5>1, <5>2
        <5> QED
          BY <5>1, <5>3, ConcatEmptySeq DEF Text
      <4>5. FirstWord(text, blanks, Append(word, last), << >>)
        <5>1. IsWord(Append(word, last))
          <6>1. /\ IsWord(word) /\ Len(word) \in Nat /\ Len(Append(word, last)) = Len(word) + 1
                /\ \A i \in 1 .. Len(word) : Append(word, last)[i] = word[i]
                /\ Append(word, last)[Len(word) + 1] = last
            BY <2>6, AppendToText, ConcatTexts DEF FirstWord
          <6>2. Append(word, last) # << >>
            BY <6>1
          <6>3. \A i \in 1 .. Len(word) + 1 : Append(word, last)[i] \notin Whitespace
            BY <3>5, <6>1 DEF IsWord
          <6> QED
            BY <6>1, <6>2, <6>3 DEF IsWord
        <5> QED
          BY <2>6, <4>4, <5>1 DEF FirstWord, BreaksOff
      <4>6. <<Append(word, last)>> = <<Append(word, last)>> \o Words(<< >>)
        BY WordsStep
      <4> QED
        BY <4>3, <4>4, <4>5, <4>6 DEF P
    <3>6. CASE last \notin Whitespace /\ rest # << >>
      <4>1. Words(text) = <<word>> \o Words(more)
        <5>1. CASE rest[Len(rest)] \in Whitespace
          <6>1. Words(text) = Append(Words(front), <<last>>)
            BY <2>2, <2>3, <3>1, <3>6, <5>1 DEF NextWords
          <6>2. Words(more) = Append(Words(rest), <<last>>)
            BY <3>1, <3>2, <3>6, <5>1 DEF NextWords
          <6>3. <<last>> \in Text
            BY DEF Text
          <6> QED
            BY <2>6, <3>3, <6>1, <6>2, <6>3
        <5>2. CASE rest[Len(rest)] \notin Whitespace
          <6>1. Words(text) = [Words(front) EXCEPT ![Len(Words(front))] =
                                 Append(Words(front)[Len(Words(front))], last)]
            BY <2>2, <2>3, <3>1, <3>6, <5>2 DEF NextWords
          <6>2. Words(more) = [Words(rest) EXCEPT ![Len(Words(rest))] =
                                 Append(Words(rest)[Len(Words(rest))], last)]
            BY <3>1, <3>2, <3>6, <5>2, SMTT(30) DEF NextWords
          <6>3. Words(rest) # << >>
            BY <3>6, <5>2, WordsAreTexts
          <6> DEFINE u == Words(rest)
                     e == Append(u[Len(u)], last)
          <6>4. /\ u \in Seq(Text) /\ Len(u) \in 1 .. Len(u)
                /\ Len(<<word>> \o u) = Len(u) + 1
                /\ (<<word>> \o u)[Len(u) + 1] = u[Len(u)]
            BY <3>3, <6>3
          <6>5. u[Len(u)] \in Text /\ e \in Text
            BY <6>4 DEF Text
          <6>6. [<<word>> \o u EXCEPT ![Len(u) + 1] = e] = <<word>> \o [u EXCEPT ![Len(u)] = e]
            <7> HIDE DEF e, u
            <7> DEFINE v == [u EXCEPT ![Len(u)] = e]
                       l == [<<word>> \o u EXCEPT ![Len(u) + 1] = e]
                       r == <<word>> \o v
            <7>1. v \in Seq(Text) /\ Len(v) = Len(u)
                  /\ \A j \in 1 .. Len(u) : v[j] = IF j = Len(u) THEN e ELSE u[j]
              BY <6>4, <6>5, ExceptSeq
            <7>2. <<word>> \in Seq(Text) /\ Len(<<word>>) = 1
              OBVIOUS
            <7>3. /\ <<word>> \o u \in Seq(Text)
                  /\ \A j \in 1 .. 1 + Len(u) :
                       (<<word>> \o u)[j] = IF j <= 1 THEN <<word>>[j] ELSE u[j - 1]
              BY <6>4, <7>2, ConcatProperties
            <7>4. /\ l \in Seq(Text) /\ Len(l) = Len(u) + 1
                  /\ \A j \in 1 .. Len(u) + 1 :
                       l[j] = IF j = Len(u) + 1 THEN e ELSE (<<word>> \o u)[j]
              <8> DEFINE w == <<word>> \o u
              <8>1. w \in Seq(Text) /\ Len(u) + 1 \in 1 .. Len(w) /\ Len(w) = Len(u) + 1
                BY <6>4, <7>3
              <8> HIDE DEF w
              <8>2. /\ [w EXCEPT ![Len(u) + 1] = e] \in Seq(Text)
                    /\ Len([w EXCEPT ![Len(u) + 1] = e]) = Len(w)
                    /\ \A j \in 1 .. Len(w) :
                         [w EXCEPT ![Len(u) + 1] = e][j] = IF j = Len(u) + 1 THEN e ELSE w[j]
                BY <6>5, <8>1, ExceptSeq
              <8> QED
                BY <8>1, <8>2 DEF w
            <7> HIDE DEF v, l
            <7>5. /\ r \in Seq(Text) /\ Len(r) = Len(u) + 1
                  /\ \A j \in 1 .. 1 + Len(u) :
                       r[j] = IF j <= 1 THEN <<word>>[j] ELSE v[j - 1]
              BY <6>4, <7>1, <7>2, ConcatProperties
            <7> HIDE DEF r
            <7>6. \A j \in 1 .. Len(u) + 1 : l[j] = r[j]
              <8> TAKE j \in 1 .. Len(u) + 1
              <8>1. l[j] = IF j = Len(u) + 1 THEN e ELSE (<<word>> \o u)[j]
                BY <7>4
              <8>2. (<<word>> \o u)[j] = IF j <= 1 THEN <<word>>[j] ELSE u[j - 1]
                BY <6>4, <7>3
              <8>3. r[j] = IF j <= 1 THEN <<word>>[j] ELSE v[j - 1]
                BY <6>4, <7>5
              <8>4. j # 1 => v[j - 1] = IF j - 1 = Len(u) THEN e ELSE u[j - 1]
                BY <6>4, <7>1
              <8> QED
                BY <6>4, <8>1, <8>2, <8>3, <8>4
            <7>7. l = r
              BY <6>4, <7>4, <7>5, <7>6, SeqEqual
            <7> QED
              BY <7>7 DEF l, r, v
          <6> QED
            BY <2>6, <6>1, <6>2, <6>4, <6>6
        <5> QED
          BY <5>1, <5>2
      <4>2. FirstWord(text, blanks, word, more)
        BY <2>6, <3>1, <3>6 DEF FirstWord, BreaksOff
      <4> QED
        BY <3>1, <4>1, <4>2 DEF P
    <3> QED
      BY <3>4, <3>5, <3>6
  <2> QED
    BY <2>4, <2>5, <2>6 DEF P
<1>3. \A text \in Text : Len(text) \in Nat
  BY DEF Text
<1> QED
  <2> HIDE DEF S, P
  <2>1. Nat \subseteq S
    BY <1>1, <1>2, Induction
  <2>2. \A text \in Text : P(text)
    BY <1>3, <2>1 DEF S
  <2> QED
    BY <2>2 DEF P

\* A text has no more than one first word.
LEMMA FirstWordIsUnique ==
  ASSUME NEW text \in Text,
         NEW b1 \in Text, NEW w1 \in Text, NEW r1 \in Text, FirstWord(text, b1, w1, r1),
         NEW b2 \in Text, NEW w2 \in Text, NEW r2 \in Text, FirstWord(text, b2, w2, r2)
  PROVE  b1 = b2 /\ w1 = w2 /\ r1 = r2
<1>1. ASSUME NEW b \in Text, NEW w \in Text, NEW r \in Text, FirstWord(text, b, w, r)
      PROVE  /\ Len(b) \in Nat /\ Len(w) \in Nat \ {0} /\ Len(r) \in Nat
             /\ Len(text) = Len(b) + Len(w) + Len(r)
             /\ \A i \in 1 .. Len(b) : text[i] = b[i] /\ text[i] \in Whitespace
             /\ \A i \in 1 .. Len(w) : /\ text[Len(b) + i] = w[i]
                                       /\ text[Len(b) + i] \notin Whitespace
             /\ \A i \in 1 .. Len(r) : text[Len(b) + Len(w) + i] = r[i]
             /\ Len(r) # 0 => text[Len(b) + Len(w) + 1] \in Whitespace
  <2> DEFINE head == b \o w
  <2>1. /\ head \in Text /\ Len(head) = Len(b) + Len(w)
        /\ Len(b) \in Nat /\ Len(w) \in Nat
        /\ \A i \in 1 .. Len(b) : head[i] = b[i]
        /\ \A i \in 1 .. Len(w) : head[Len(b) + i] = w[i]
    BY ConcatTexts, Zenon
  <2>2. text = head \o r
    BY <1>1 DEF FirstWord
  <2> HIDE DEF head
  <2>3. /\ Len(text) = Len(head) + Len(r) /\ Len(r) \in Nat
        /\ \A i \in 1 .. Len(head) : text[i] = head[i]
        /\ \A i \in 1 .. Len(r) : text[Len(head) + i] = r[i]
    <3>1. head \in Text
      BY <2>1
    <3> QED
      BY <2>2, <3>1 DEF Text
  <2>4. /\ Len(w) # 0
        /\ \A i \in 1 .. Len(b) : b[i] \in Whitespace
        /\ \A i \in 1 .. Len(w) : w[i] \notin Whitespace
        /\ Len(r) # 0 => r[1] \in Whitespace
    <3>1. Len(w) # 0
      BY <1>1, EmptySeq DEF FirstWord, IsWord, Text
    <3> QED
      BY <1>1, <3>1 DEF FirstWord, IsWord, Blank, BreaksOff
  <2>5. \A i \in 1 .. Len(b) : text[i] = b[i] /\ text[i] \in Whitespace
    BY <2>1, <2>3, <2>4
  <2>6. \A i \in 1 .. Len(w) : text[Len(b) + i] = w[i] /\ text[Len(b) + i] \notin Whitespace
    BY <2>1, <2>3, <2>4
  <2>7. Len(r) # 0 => text[Len(b) + Len(w) + 1] \in Whitespace
    BY <2>1, <2>3, <2>4
  <2> QED
    BY <2>1, <2>3, <2>4, <2>5, <2>6, <2>7
<1>2. Len(b1) = Len(b2)
  <2>1. /\ Len(b1) \in Nat /\ Len(b2) \in Nat
        /\ \A i \in 1 .. Len(b1) : text[i] \in Whitespace
        /\ \A i \in 1 .. Len(b2) : text[i] \in Whitespace
        /\ text[Len(b1) + 1] \notin Whitespace /\ text[Len(b2) + 1] \notin Whitespace
    BY <1>1
  <2> QED
    BY <2>1
<1>3. Len(w1) = Len(w2)
  <2>1. /\ Len(w1) \in Nat \ {0} /\ Len(w2) \in Nat \ {0} /\ Len(b1) \in Nat
        /\ \A i \in 1 .. Len(w1) : text[Len(b1) + i] \notin Whitespace
        /\ \A i \in 1 .. Len(w2) : text[Len(b1) + i] \notin Whitespace
        /\ Len(r1) # 0 => text[Len(b1) + Len(w1) + 1] \in Whitespace
        /\ Len(r2) # 0 => text[Len(b1) + Len(w2) + 1] \in Whitespace
        /\ Len(w1) + Len(r1) = Len(w2) + Len(r2)
        /\ Len(r1) \in Nat /\ Len(r2) \in Nat
    <3>1. /\ Len(w1) \in Nat \ {0} /\ Len(b1) \in Nat /\ Len(r1) \in Nat
          /\ \A i \in 1 .. Len(w1) : text[Len(b1) + i] \notin Whitespace
          /\ Len(r1) # 0 => text[Len(b1) + Len(w1) + 1] \in Whitespace
          /\ Len(text) = Len(b1) + Len(w1) + Len(r1)
      BY <1>1
    <3>2. /\ Len(w2) \in Nat \ {0} /\ Len(r2) \in Nat
          /\ \A i \in 1 .. Len(w2) : text[Len(b1) + i] \notin Whitespace
          /\ Len(r2) # 0 => text[Len(b1) + Len(w2) + 1] \in Whitespace
          /\ Len(text) = Len(b1) + Len(w2) + Len(r2)
      BY <1>1, <1>2
    <3> QED
      BY <3>1, <3>2, SMTT(30)
  <2>2. ~ Len(w1) < Len(w2)
    <3> SUFFICES ASSUME Len(w1) < Len(w2) PROVE FALSE
      OBVIOUS
    <3>1. Len(r1) # 0 /\ Len(w1) + 1 \in 1 .. Len(w2)
      BY <2>1
    <3>2. text[Len(b1) + (Len(w1) + 1)] \notin Whitespace
      BY <2>1, <3>1
    <3>3. Len(b1) + (Len(w1) + 1) = Len(b1) + Len(w1) + 1
      BY <2>1
    <3> QED
      BY <2>1, <3>1, <3>2, <3>3
  <2>3. ~ Len(w2) < Len(w1)
    <3> SUFFICES ASSUME Len(w2) < Len(w1) PROVE FALSE
      OBVIOUS
    <3>1. Len(r2) # 0 /\ Len(w2) + 1 \in 1 .. Len(w1)
      BY <2>1
    <3>2. text[Len(b1) + (Len(w2) + 1)] \notin Whitespace
      BY <2>1, <3>1
    <3>3. Len(b1) + (Len(w2) + 1) = Len(b1) + Len(w2) + 1
      BY <2>1
    <3> QED
      BY <2>1, <3>1, <3>2, <3>3
  <2> QED
    BY <2>1, <2>2, <2>3
<1>4. Len(r1) = Len(r2)
  BY <1>1, <1>2, <1>3
<1>5. \A i \in 1 .. Len(b1) : b1[i] = b2[i]
  BY <1>1, <1>2
<1>6. \A i \in 1 .. Len(w1) : w1[i] = w2[i]
  <2>1. \A i \in 1 .. Len(w1) : text[Len(b1) + i] = w1[i]
    BY <1>1
  <2>2. \A i \in 1 .. Len(w2) : text[Len(b2) + i] = w2[i]
    BY <1>1
  <2> QED
    BY <1>2, <1>3, <2>1, <2>2
<1>7. \A i \in 1 .. Len(r1) : r1[i] = r2[i]
  <2>1. \A i \in 1 .. Len(r1) : text[Len(b1) + Len(w1) + i] = r1[i]
    BY <1>1
  <2>2. \A i \in 1 .. Len(r2) : text[Len(b2) + Len(w2) + i] = r2[i]
    BY <1>1
  <2> QED
    BY <1>2, <1>3, <1>4, <2>1, <2>2
<1> QED
  BY <1>2, <1>3, <1>4, <1>5, <1>6, <1>7, SeqEqual DEF Text

\* A text of blanks has no first word.
LEMMA BlankHasNoWord ==
  ASSUME NEW text \in Text, NEW blanks \in Text, NEW word \in Text, NEW rest \in Text,
         FirstWord(text, blanks, word, rest)
  PROVE  ~Blank(text)
<1> DEFINE head == blanks \o word
<1>1. head \in Text /\ Len(head) = Len(blanks) + Len(word) /\ Len(blanks) \in Nat
  BY ConcatTexts, Zenon
<1>2. Len(word) \in Nat \ {0}
  BY EmptySeq DEF FirstWord, IsWord, Text
<1>3. head[Len(blanks) + 1] = word[1]
  BY <1>2 DEF Text
<1>4. text = head \o rest
  BY DEF FirstWord
<1> HIDE DEF head
<1>5. text[Len(blanks) + 1] = word[1] /\ Len(text) >= Len(blanks) + 1
  BY <1>1, <1>2, <1>3, <1>4 DEF Text
<1>6. word[1] \notin Whitespace
  BY <1>2 DEF FirstWord, IsWord
<1> QED
  BY <1>1, <1>5, <1>6 DEF Blank

\* Blanks alone have no words.
LEMMA WordsOfBlank == \A text \in Text : Blank(text) <=> Words(text) = << >>
<1> TAKE text \in Text
<1>1. ASSUME NEW w \in Text, NEW r \in Text PROVE <<w>> \o Words(r) # << >>
  <2>1. <<w>> \in Seq(Text) /\ <<w>> # << >> /\ Words(r) \in Seq(Text)
    BY WordsAreTexts
  <2> QED
    BY <2>1, ConcatEqualIffEmpty
<1> QED
  BY <1>1, WordsAreFound, BlankHasNoWord

\* A text that starts with a word has that word and those of the rest.
LEMMA WordsOfWord ==
  ASSUME NEW blanks \in Text, NEW word \in Text, NEW rest \in Text,
         Blank(blanks), IsWord(word), BreaksOff(rest)
  PROVE  /\ blanks \o word \o rest \in Text
         /\ Words(blanks \o word \o rest) = <<word>> \o Words(rest)
<1> DEFINE text == blanks \o word \o rest
<1>1. text \in Text
  BY ConcatTexts, Zenon
<1>2. FirstWord(text, blanks, word, rest)
  BY DEF FirstWord
<1> HIDE DEF text
<1>3. ~Blank(text)
  BY <1>1, <1>2, BlankHasNoWord
<1>4. PICK b \in Text, w \in Text, r \in Text :
        FirstWord(text, b, w, r) /\ Words(text) = <<w>> \o Words(r)
  BY <1>1, <1>3, WordsAreFound
<1>5. w = word /\ r = rest
  BY <1>1, <1>2, <1>4, FirstWordIsUnique
<1> QED
  BY <1>1, <1>4, <1>5 DEF text

\* The parts of a text that has a first word.
LEMMA FirstWordParts ==
  ASSUME NEW text \in Text, NEW blanks \in Text, NEW word \in Text, NEW rest \in Text,
         FirstWord(text, blanks, word, rest)
  PROVE  /\ Len(blanks) \in Nat /\ Len(word) \in Nat \ {0} /\ Len(rest) \in Nat
         /\ Len(text) = Len(blanks) + Len(word) + Len(rest)
         /\ \A i \in 1 .. Len(word) : text[Len(blanks) + i] = word[i]
         /\ \A i \in 1 .. Len(rest) : text[Len(blanks) + Len(word) + i] = rest[i]
<1>1. Len(word) \in Nat \ {0}
  BY EmptySeq DEF FirstWord, IsWord, Text
<1>2. text = blanks \o word \o rest
  BY DEF FirstWord
<1> QED
  BY <1>1, <1>2, SMTT(30) DEF Text

\* A blank between two texts keeps their words apart.
LEMMA WordsApart ==
  \A text, more \in Text, blank \in Whitespace :
    Words(text \o <<blank>> \o more) = Words(text) \o Words(more)
<1> DEFINE P(text) == \A more \in Text, blank \in Whitespace :
             Words(text \o <<blank>> \o more) = Words(text) \o Words(more)
           S == {n \in Nat : \A text \in Text : Len(text) <= n => P(text)}
<1>1. ASSUME NEW text \in Text, \A shorter \in Text : Len(shorter) < Len(text) => P(shorter)
      PROVE  P(text)
  <2> SUFFICES ASSUME NEW more \in Text, NEW blank \in Whitespace
               PROVE  Words(text \o <<blank>> \o more) = Words(text) \o Words(more)
    OBVIOUS
  <2>1. /\ <<blank>> \in Text /\ <<blank>> \o more \in Text /\ text \o <<blank>> \in Text
        /\ text \o (<<blank>> \o more) = text \o <<blank>> \o more
        /\ text \o (<<blank>> \o more) \in Text
    <3>1. <<blank>> \in Text
      BY Pieces DEF Text
    <3> QED
      BY <3>1 DEF Text
  <2>2. Words(text) \in Seq(Text) /\ Words(more) \in Seq(Text)
    BY WordsAreTexts
  <2>3. CASE Blank(text)
    <3>1. Words(text) = << >>
      BY <2>3, WordsOfBlank
    <3>2. CASE Blank(more)
      <4>1. Blank(text \o <<blank>> \o more)
        BY <2>3, <3>2 DEF Blank, Text
      <4> QED
        BY <2>1, <2>2, <3>1, <3>2, <4>1, WordsOfBlank, ConcatEmptySeq
    <3>3. CASE ~Blank(more)
      <4>1. PICK b \in Text, w \in Text, r \in Text :
              FirstWord(more, b, w, r) /\ Words(more) = <<w>> \o Words(r)
        BY <3>3, WordsAreFound
      <4> DEFINE c == text \o <<blank>> \o b
      <4>2. c \in Text /\ Blank(c)
        <5>1. c \in Text
          BY <2>1 DEF Text
        <5>2. Blank(b)
          BY <4>1 DEF FirstWord
        <5> QED
          BY <2>1, <2>3, <5>1, <5>2 DEF Blank, Text
      <4>3. text \o <<blank>> \o more = c \o w \o r
        <5>1. more = b \o w \o r
          BY <4>1 DEF FirstWord
        <5> QED
          BY <2>1, <5>1, SMTT(30) DEF Text
      <4> HIDE DEF c
      <4>4. Words(c \o w \o r) = <<w>> \o Words(r)
        BY <4>1, <4>2, WordsOfWord DEF FirstWord
      <4> QED
        BY <2>2, <3>1, <4>1, <4>3, <4>4, ConcatEmptySeq
    <3> QED
      BY <3>2, <3>3
  <2>4. CASE ~Blank(text)
    <3>1. PICK b \in Text, w \in Text, r \in Text :
            FirstWord(text, b, w, r) /\ Words(text) = <<w>> \o Words(r)
      BY <2>4, WordsAreFound
    <3> DEFINE s == r \o <<blank>> \o more
    <3>2. s \in Text /\ BreaksOff(s)
      <4>1. s \in Text
        BY <2>1 DEF Text
      <4>2. BreaksOff(r)
        BY <3>1 DEF FirstWord
      <4>3. CASE r = << >>
        <5>1. s[1] = blank
          BY <2>1, <4>3 DEF Text
        <5> QED
          BY <4>1, <5>1 DEF BreaksOff
      <4>4. CASE r # << >>
        <5>1. s[1] = r[1]
          BY <2>1, <4>4 DEF Text
        <5> QED
          BY <4>1, <4>2, <4>4, <5>1 DEF BreaksOff
      <4> QED
        BY <4>3, <4>4
    <3>3. text \o <<blank>> \o more = b \o w \o s
      <4>1. text = b \o w \o r
        BY <3>1 DEF FirstWord
      <4> QED
        <5> HIDE DEF P, S
        <5>1. (b \o w \o r) \o <<blank>> \o more = b \o w \o (r \o <<blank>> \o more)
          BY <2>1, SMTT(20) DEF Text
        <5> QED
          BY <4>1, <5>1
    <3>4. Words(s) = Words(r) \o Words(more)
      <4>1. Len(r) < Len(text)
        BY <3>1, FirstWordParts
      <4> QED
        BY <1>1, <4>1
    <3> HIDE DEF s
    <3>5. Words(b \o w \o s) = <<w>> \o Words(s)
      BY <3>1, <3>2, WordsOfWord DEF FirstWord
    <3>6. <<w>> \o (Words(r) \o Words(more)) = (<<w>> \o Words(r)) \o Words(more)
      <4>1. <<w>> \in Seq(Text) /\ Words(r) \in Seq(Text)
        BY WordsAreTexts
      <4> QED
        BY <2>2, <4>1, ConcatAssociative
    <3> QED
      BY <3>1, <3>3, <3>4, <3>5, <3>6
  <2> QED
    BY <2>3, <2>4
<1>2. \A text \in Text : Len(text) \in Nat
  BY DEF Text
<1> HIDE DEF P
<1>3. 0 \in S
  BY <1>1, <1>2
<1>4. ASSUME NEW n \in Nat, n \in S PROVE n + 1 \in S
  BY <1>1, <1>2, <1>4
<1> QED
  <2> HIDE DEF S
  <2>1. Nat \subseteq S
    BY <1>3, <1>4, Induction
  <2>2. \A text \in Text : P(text)
    BY <1>2, <2>1 DEF S
  <2> QED
    BY <2>2 DEF P

\* Blanks before a text are no words.
LEMMA WordsAfterBlank ==
  ASSUME NEW text \in Text, NEW blank \in Whitespace
  PROVE  Words(<<blank>> \o text) = Words(text)
<1>1. << >> \in Text /\ <<blank>> \in Text
  BY Pieces DEF Text
<1>2. << >> \o <<blank>> \o text = <<blank>> \o text
  BY <1>1 DEF Text
<1>3. Words(<< >>) \o Words(text) = Words(text)
  BY WordsStep, WordsAreTexts, ConcatEmptySeq
<1> QED
  BY <1>1, <1>2, <1>3, WordsApart, ZenonT(40)

\* Words are words, of pieces of their text.
LEMMA WordsAreWords ==
  \A text \in Text : \A i \in 1 .. Len(Words(text)) :
    /\ IsWord(Words(text)[i])
    /\ \A j \in 1 .. Len(Words(text)[i]) :
         \E k \in 1 .. Len(text) : Words(text)[i][j] = text[k]
<1> DEFINE P(text) == \A i \in 1 .. Len(Words(text)) :
             /\ IsWord(Words(text)[i])
             /\ \A j \in 1 .. Len(Words(text)[i]) :
                  \E k \in 1 .. Len(text) : Words(text)[i][j] = text[k]
           S == {n \in Nat : \A text \in Text : Len(text) <= n => P(text)}
<1>1. ASSUME NEW text \in Text, \A shorter \in Text : Len(shorter) < Len(text) => P(shorter)
      PROVE  P(text)
  <2>1. CASE Blank(text)
    <3>1. Words(text) = << >>
      BY <2>1, WordsOfBlank
    <3> QED
      BY <3>1
  <2>2. CASE ~Blank(text)
    <3>1. PICK b \in Text, w \in Text, r \in Text :
            FirstWord(text, b, w, r) /\ Words(text) = <<w>> \o Words(r)
      BY <2>2, WordsAreFound
    <3>2. /\ Len(b) \in Nat /\ Len(w) \in Nat \ {0} /\ Len(r) \in Nat
          /\ Len(text) = Len(b) + Len(w) + Len(r)
          /\ \A i \in 1 .. Len(w) : text[Len(b) + i] = w[i]
          /\ \A i \in 1 .. Len(r) : text[Len(b) + Len(w) + i] = r[i]
      BY <3>1, FirstWordParts
    <3>3. P(r)
      <4>1. Len(r) < Len(text)
        BY <3>2
      <4> HIDE DEF P
      <4> QED
        BY <1>1, <4>1
    <3>4. /\ Words(r) \in Seq(Text) /\ Len(Words(r)) \in Nat
          /\ Len(Words(text)) = Len(Words(r)) + 1 /\ Words(text)[1] = w
          /\ \A i \in 1 .. Len(Words(r)) : Words(text)[i + 1] = Words(r)[i]
      <4>1. Words(r) \in Seq(Text) /\ <<w>> \in Seq(Text) /\ Len(<<w>>) = 1
        BY WordsAreTexts
      <4> QED
        BY <3>1, <4>1, ConcatProperties, LenProperties
    <3> SUFFICES ASSUME NEW i \in 1 .. Len(Words(text))
                 PROVE  /\ IsWord(Words(text)[i])
                        /\ \A j \in 1 .. Len(Words(text)[i]) :
                             \E k \in 1 .. Len(text) : Words(text)[i][j] = text[k]
      OBVIOUS
    <3>5. CASE i = 1
      <4>1. IsWord(w)
        BY <3>1 DEF FirstWord
      <4>2. \A j \in 1 .. Len(w) : Len(b) + j \in 1 .. Len(text)
        BY <3>2
      <4> QED
        BY <3>2, <3>4, <3>5, <4>1, <4>2
    <3>6. CASE i # 1
      <4>1. i - 1 \in 1 .. Len(Words(r)) /\ Words(text)[i] = Words(r)[i - 1]
        BY <3>4, <3>6
      <4>2. \A k \in 1 .. Len(r) : /\ Len(b) + Len(w) + k \in 1 .. Len(text)
                                   /\ text[Len(b) + Len(w) + k] = r[k]
        BY <3>2
      <4>3. /\ IsWord(Words(r)[i - 1])
            /\ \A j \in 1 .. Len(Words(r)[i - 1]) :
                 \E k \in 1 .. Len(r) : Words(r)[i - 1][j] = r[k]
        BY <3>3, <4>1
      <4> QED
        BY <4>1, <4>2, <4>3
    <3> QED
      BY <3>5, <3>6
  <2> QED
    BY <2>1, <2>2
<1>2. \A text \in Text : Len(text) \in Nat
  BY DEF Text
<1> HIDE DEF P
<1>3. 0 \in S
  BY <1>1, <1>2
<1>4. ASSUME NEW n \in Nat, n \in S PROVE n + 1 \in S
  BY <1>1, <1>2, <1>4
<1> QED
  <2> HIDE DEF S
  <2>1. Nat \subseteq S
    BY <1>3, <1>4, Induction
  <2>2. \A text \in Text : P(text)
    BY <1>2, <2>1 DEF S
  <2> QED
    BY <2>2 DEF P

-----------------------------------------------------------------------------
(* decode.                                                                 *)

\* A set of numbers has a least one.
LEMMA LeastNumber ==
  ASSUME NEW S \in SUBSET Nat, S # {}
  PROVE  Min(S) \in S /\ \A n \in S : Min(S) <= n
<1>1. PICK x \in S : \A y \in S : <<y, x>> \notin OpToRel(<, Nat)
  BY NatLessThanWellFounded, WFMin
<1>2. ASSUME NEW y \in S, y < x PROVE FALSE
  <2>1. <<y, x>> \in OpToRel(<, Nat)
    BY <1>2 DEF OpToRel
  <2> QED
    BY <1>1, <2>1
<1>3. \A y \in S : x <= y
  BY <1>2
<1> QED
  BY <1>3 DEF Min

\* The first quote of a text.
LEMMA FirstQuote ==
  ASSUME NEW text \in Text
  PROVE  LET close == SelectInSeq(text, LAMBDA piece : piece = Quote)
         IN  \/ close = 0 /\ \A i \in 1 .. Len(text) : text[i] # Quote
             \/ /\ close \in 1 .. Len(text) /\ text[close] = Quote
                /\ \A i \in 1 .. close - 1 : text[i] # Quote
<1> DEFINE I == {i \in 1 .. Len(text) : text[i] = Quote}
           close == SelectInSeq(text, LAMBDA piece : piece = Quote)
<1>1. close = IF I # {} THEN Min(I) ELSE 0
  BY DEF SelectInSeq
<1>2. I \in SUBSET Nat
  OBVIOUS
<1>3. I # {} => Min(I) \in I /\ \A i \in I : Min(I) <= i
  BY <1>2, LeastNumber
<1>4. CASE I = {}
  BY <1>1, <1>4
<1>5. CASE I # {}
  <2>1. close \in I /\ \A i \in I : close <= i
    BY <1>1, <1>3, <1>5
  <2> HIDE DEF close
  <2>2. \A i \in 1 .. close - 1 : text[i] # Quote
    <3> SUFFICES ASSUME NEW i \in 1 .. close - 1, text[i] = Quote PROVE FALSE
      OBVIOUS
    <3>1. close \in 1 .. Len(text) /\ Len(text) \in Nat
      BY <2>1 DEF Text
    <3>2. i \in I
      BY <3>1
    <3> QED
      BY <2>1, <3>1, <3>2
  <2> QED
    BY <2>1, <2>2 DEF close
<1> QED
  BY <1>4, <1>5

\* What follows the type is what follows the first word.
LEMMA AfterFirstWord ==
  ASSUME NEW text \in Text, NEW blanks \in Text, NEW word \in Text, NEW rest \in Text,
         FirstWord(text, blanks, word, rest), rest # << >>
  PROVE  AfterType(text) = rest
<1> DEFINE start == SelectInSeq(text, LAMBDA piece : piece \notin Whitespace)
           end == SelectInSubSeq(text, start, Len(text), LAMBDA piece : piece \in Whitespace)
           I == {i \in 1 .. Len(text) : text[i] \notin Whitespace}
           J == {i \in Len(blanks) + 1 .. Len(text) : text[i] \in Whitespace}
<1>1. /\ Len(blanks) \in Nat /\ Len(word) \in Nat \ {0} /\ Len(rest) \in Nat
      /\ Len(text) = Len(blanks) + Len(word) + Len(rest)
      /\ \A i \in 1 .. Len(word) : text[Len(blanks) + i] = word[i]
      /\ \A i \in 1 .. Len(rest) : text[Len(blanks) + Len(word) + i] = rest[i]
  BY FirstWordParts
<1>2. \A i \in 1 .. Len(blanks) : text[i] \in Whitespace
  <2>1. text = blanks \o word \o rest /\ Blank(blanks)
    BY DEF FirstWord
  <2> QED
    BY <2>1 DEF Blank, Text
<1>3. \A i \in 1 .. Len(word) : word[i] \notin Whitespace
  BY DEF FirstWord, IsWord
<1>4. Len(rest) # 0 /\ rest[1] \in Whitespace
  <2>1. Len(rest) # 0
    BY EmptySeq DEF Text
  <2> QED
    BY <2>1 DEF FirstWord, BreaksOff
<1>5. start = Len(blanks) + 1
  <2>1. start = IF I # {} THEN Min(I) ELSE 0
    BY DEF SelectInSeq
  <2> HIDE DEF start
  <2>2. Len(blanks) + 1 \in I
    BY <1>1, <1>3
  <2>3. \A i \in I : Len(blanks) + 1 <= i
    BY <1>1, <1>2
  <2>4. Min(I) \in I /\ \A i \in I : Min(I) <= i
    <3>1. I \in SUBSET Nat
      OBVIOUS
    <3> QED
      BY <2>2, <3>1, LeastNumber
  <2> QED
    BY <1>1, <2>1, <2>2, <2>3, <2>4
<1> HIDE DEF start
<1>6. end = Len(blanks) + Len(word) + 1
  <2>1. end = IF J # {} THEN Min(J) ELSE 0
    BY <1>5 DEF SelectInSubSeq
  <2> HIDE DEF end
  <2>2. Len(blanks) + Len(word) + 1 \in J
    <3>1. text[Len(blanks) + Len(word) + 1] = rest[1]
      BY <1>1, <1>4
    <3> QED
      BY <1>1, <1>4, <1>5, <3>1
  <2>3. \A i \in J : Len(blanks) + Len(word) + 1 <= i
    <3> SUFFICES ASSUME NEW i \in J, i < Len(blanks) + Len(word) + 1 PROVE FALSE
      BY <1>1, <1>5
    <3>1. i - Len(blanks) \in 1 .. Len(word)
      BY <1>1, <1>5
    <3>2. text[Len(blanks) + (i - Len(blanks))] = word[i - Len(blanks)]
      BY <1>1, <3>1
    <3>3. Len(blanks) + (i - Len(blanks)) = i
      BY <1>1, <1>5
    <3> QED
      BY <1>3, <3>1, <3>2, <3>3
  <2>4. Min(J) \in J /\ \A i \in J : Min(J) <= i
    <3>1. J \in SUBSET Nat
      BY <1>1, <1>5
    <3> QED
      BY <2>2, <3>1, LeastNumber
  <2> QED
    <3> HIDE DEF I, J
    <3>1. end = Min(J) /\ Min(J) \in J /\ Min(J) <= Len(blanks) + Len(word) + 1
      BY <2>1, <2>2, <2>4
    <3>2. Min(J) \in Int
      BY <3>1 DEF J
    <3>3. Len(blanks) + Len(word) + 1 <= Min(J)
      BY <2>3, <3>1, Zenon
    <3>4. \A x \in Int, y \in Int : x <= y /\ y <= x => x = y
      OBVIOUS
    <3>5. Len(blanks) + Len(word) + 1 \in Int
      BY <1>1
    <3> HIDE DEF end
    <3> QED
      BY <3>1, <3>2, <3>3, <3>4, <3>5
<1>7. SubSeq(text, Len(blanks) + Len(word) + 1, Len(text)) = rest
  <2>1. text = blanks \o word \o rest
    BY DEF FirstWord
  <2> HIDE DEF end, I, J
  <2> QED
    BY <1>1, <2>1 DEF Text
<1>8. AfterType(text) = SubSeq(text, end, Len(text))
  BY DEF AfterType, start
<1> HIDE DEF end
<1> QED
  BY <1>6, <1>7, <1>8

\* A text that is not empty has a length.
LEMMA LengthIsPositive ==
  ASSUME NEW text \in Text, text # << >> PROVE Length(text) \in Nat \ {0}
<1>1. PICK front \in Text, last \in Piece : text = Append(front, last)
  BY FrontOfText
<1>2. Length(front) \in Nat /\ Len(last) \in Nat \ {0}
  BY LengthIsNat, CodecAssumption
<1> QED
  BY <1>1, <1>2, LengthStep

\* The length of a single piece.
LEMMA LengthOfPiece ==
  \A piece \in Piece : /\ <<piece>> \in Text /\ Length(<<piece>>) = Len(piece)
                       /\ piece \notin TypeName => Length(<<piece>>) = 1
<1> TAKE piece \in Piece
<1>1. << >> \in Text /\ <<piece>> = Append(<< >>, piece) /\ <<piece>> \in Text
  BY DEF Text
<1>2. Len(piece) \in Nat /\ (piece \notin TypeName => Len(piece) = 1)
  BY CodecAssumption
<1>3. Length(<<piece>>) = 0 + Len(piece)
  BY <1>1, LengthStep
<1> QED
  BY <1>1, <1>2, <1>3

\* The text in which the arguments are looked for.
Rest(text) == IF text # << >> /\ text[1] = Space THEN Tail(text) ELSE text
Quoted(text) == text # << >> /\ text[1] = Quote

\* One space, and no more, is skipped.
LEMMA RestOfText ==
  ASSUME NEW text \in Text
  PROVE  /\ Rest(text) \in Text
         /\ text # << >> /\ text[1] = Space =>
              text = <<Space>> \o Rest(text) /\ Length(text) = 1 + Length(Rest(text))
<1>1. CASE text # << >> /\ text[1] = Space
  <2>1. Rest(text) \in Text /\ text = <<Space>> \o Rest(text) /\ <<Space>> \in Text
    BY <1>1, Pieces DEF Rest, Text
  <2>2. Length(<<Space>>) = 1
    BY Pieces, LengthOfPiece
  <2>3. Length(text) = Length(<<Space>>) + Length(Rest(text))
    BY <2>1, LengthOfBoth
  <2> QED
    BY <2>1, <2>2, <2>3
<1> QED
  BY <1>1 DEF Rest

\* What a quote opens is one argument without quotes, otherwise there are words.
LEMMA ArgumentsOf ==
  ASSUME NEW text \in Text
  PROVE  /\ Arguments(text) \in Seq(Text)
         /\ ~Quoted(Rest(text)) => Arguments(text) = Words(Rest(text))
         /\ Quoted(Rest(text)) =>
              \E arg \in Text :
                /\ Arguments(text) = <<arg>>
                /\ \A i \in 1 .. Len(arg) : arg[i] # Quote
                /\ Length(arg) + 1 <= Length(Rest(text))
<1> DEFINE rest == Rest(text)
           quoted == Tail(rest)
           close == SelectInSeq(quoted, LAMBDA piece : piece = Quote)
           arg == IF close = 0 THEN quoted ELSE SubSeq(quoted, 1, close - 1)
<1>1. rest \in Text
  BY RestOfText
<1>2. Arguments(text) = IF Quoted(rest) THEN <<arg>> ELSE Words(rest)
  BY DEF Arguments, Rest, Quoted
<1> HIDE DEF rest
<1>3. CASE ~Quoted(rest)
  BY <1>1, <1>2, <1>3, WordsAreTexts DEF rest
<1>4. CASE Quoted(rest)
  <2>1. quoted \in Text /\ rest = <<Quote>> \o quoted /\ <<Quote>> \in Text
    BY <1>1, <1>4, Pieces DEF Quoted, Text
  <2>2. \/ close = 0 /\ \A i \in 1 .. Len(quoted) : quoted[i] # Quote
        \/ /\ close \in 1 .. Len(quoted) /\ quoted[close] = Quote
           /\ \A i \in 1 .. close - 1 : quoted[i] # Quote
    BY <2>1, FirstQuote
  <2> HIDE DEF close
  <2>3. Length(rest) = 1 + Length(quoted)
    <3>1. Length(<<Quote>>) = 1
      BY Pieces, LengthOfPiece
    <3>2. Length(rest) = Length(<<Quote>>) + Length(quoted)
      BY <2>1, LengthOfBoth
    <3> QED
      BY <3>1, <3>2
  <2>4. /\ arg \in Text /\ \A i \in 1 .. Len(arg) : arg[i] # Quote
        /\ Length(arg) <= Length(quoted)
    <3> HIDE DEF quoted
    <3>1. CASE close = 0
      BY <2>1, <2>2, <3>1, LengthIsNat
    <3>2. CASE close # 0
      <4>1. /\ close \in 1 .. Len(quoted) /\ Len(quoted) \in Nat
            /\ \A i \in 1 .. close - 1 : quoted[i] # Quote
        BY <2>1, <2>2, <3>2 DEF Text
      <4> DEFINE more == SubSeq(quoted, close, Len(quoted))
      <4>2. /\ arg = SubSeq(quoted, 1, close - 1) /\ arg \in Text /\ more \in Text
            /\ quoted = arg \o more
        <5>1. arg = SubSeq(quoted, 1, close - 1)
          BY <3>2
        <5> HIDE DEF arg
        <5> QED
          BY <2>1, <4>1, <5>1, CutText
      <4> HIDE DEF arg, more
      <4>3. \A i \in 1 .. Len(arg) : arg[i] # Quote
        <5>1. Len(arg) = close - 1 /\ \A i \in 1 .. close - 1 : arg[i] = quoted[i]
          BY <2>1, <4>1, <4>2 DEF Text
        <5> QED
          BY <4>1, <5>1
      <4>4. Length(quoted) = Length(arg) + Length(more)
        BY <4>2, LengthOfBoth
      <4>5. Length(arg) \in Nat /\ Length(more) \in Nat
        BY <4>2, LengthIsNat
      <4>6. Length(arg) <= Length(quoted)
        BY <4>4, <4>5
      <4> QED
        BY <4>2, <4>3, <4>6
    <3> QED
      BY <3>1, <3>2
  <2> HIDE DEF arg
  <2>5. Length(arg) \in Nat /\ Length(quoted) \in Nat
    BY <2>1, <2>4, LengthIsNat
  <2>6. Length(arg) + 1 <= Length(rest)
    BY <2>3, <2>4, <2>5
  <2> QED
    BY <1>2, <1>4, <2>4, <2>6 DEF rest
<1> QED
  BY <1>3, <1>4 DEF rest

\* A text that is decoded ends with a newline, is short enough and valid.
LEMMA DecodedText ==
  ASSUME NEW text \in Text, decode(text) # Invalid
  PROVE  /\ text # << >> /\ text[Len(text)] = Newline /\ Length(text) <= MaxEncodedLen
         /\ is_valid(decode(text))
         /\ decode(text) = Message(TypeOf(text),
                IF Words(text) = << >> THEN << >> ELSE Arguments(AfterType(text)))
BY DEF decode, Last

\* The type and the arguments of a text, by its first word.
LEMMA TypeAndArguments ==
  ASSUME NEW text \in Text, text # << >>, text[Len(text)] = Newline,
         NEW blanks \in Text, NEW word \in Text, NEW rest \in Text,
         FirstWord(text, blanks, word, rest)
  PROVE  /\ rest # << >> /\ rest[Len(rest)] = Newline /\ rest[1] \in Whitespace
         /\ TypeOf(text) = IF \E type \in TypeName : word = <<type>> THEN word[1] ELSE "NONE"
         /\ Words(text) # << >> /\ AfterType(text) = rest
         /\ Words(text) = <<word>> \o Words(rest)
<1>1. /\ Len(blanks) \in Nat /\ Len(word) \in Nat \ {0} /\ Len(rest) \in Nat
      /\ Len(text) = Len(blanks) + Len(word) + Len(rest)
      /\ \A i \in 1 .. Len(word) : text[Len(blanks) + i] = word[i]
      /\ \A i \in 1 .. Len(rest) : text[Len(blanks) + Len(word) + i] = rest[i]
  BY FirstWordParts
<1>2. rest # << >>
  <2> SUFFICES ASSUME Len(rest) = 0 PROVE FALSE
    BY <1>1
  <2>1. text[Len(blanks) + Len(word)] = word[Len(word)] /\ Len(text) = Len(blanks) + Len(word)
    BY <1>1
  <2>2. word[Len(word)] \notin Whitespace
    BY <1>1 DEF FirstWord, IsWord
  <2> QED
    BY <2>1, <2>2, Pieces
<1>3. Len(rest) # 0
  BY <1>2, EmptySeq DEF Text
<1>4. rest[Len(rest)] = Newline
  BY <1>1, <1>3
<1>5. Words(text) = <<word>> \o Words(rest) /\ <<word>> \in Seq(Text) /\ Words(rest) \in Seq(Text)
  <2>1. text = blanks \o word \o rest /\ Blank(blanks) /\ IsWord(word) /\ BreaksOff(rest)
    BY DEF FirstWord
  <2>2. Words(blanks \o word \o rest) = <<word>> \o Words(rest)
    BY <2>1, WordsOfWord
  <2>3. <<word>> \in Seq(Text) /\ Words(rest) \in Seq(Text)
    BY WordsAreTexts
  <2> QED
    BY <2>1, <2>2, <2>3, Zenon
<1>6. Words(text) # << >> /\ Words(text)[1] = word
  BY <1>5
<1>7. AfterType(text) = rest
  BY <1>2, AfterFirstWord
<1>8. rest[1] \in Whitespace
  BY <1>2 DEF FirstWord, BreaksOff
<1>9. TypeOf(text) = IF word \in {<<type>> : type \in TypeName} THEN word[1] ELSE "NONE"
  BY <1>6, Zenon DEF TypeOf
<1> HIDE DEF FirstWord
<1> QED
  BY <1>2, <1>4, <1>5, <1>6, <1>7, <1>8, <1>9

-----------------------------------------------------------------------------
(* encode.                                                                 *)

JoinedUpTo(m) ==
  CHOOSE f : f = [n \in 0 .. Len(m.args) |->
    IF n = 0 THEN <<m.type>> ELSE f[n - 1] \o <<Space>> \o m.args[n]]

\* What one more argument does to the text so far.
Joining(text, arg) == text \o <<Space>> \o arg

\* The recursive function in Joined is what its definition says.
LEMMA JoinedUpToDef ==
  ASSUME NEW type, NEW args \in Seq(Text)
  PROVE  LET m == Message(type, args)
         IN  JoinedUpTo(m) = [n \in 0 .. Len(args) |->
               IF n = 0 THEN <<type>> ELSE Joining(JoinedUpTo(m)[n - 1], args[n])]
<1> DEFINE S == {k \in Nat : \E f : f = [n \in 0 .. k |->
                   IF n = 0 THEN <<type>> ELSE Joining(f[n - 1], args[n])]}
<1>1. 0 \in S
  <2>1. [n \in 0 .. 0 |-> <<type>>] = [n \in 0 .. 0 |->
          IF n = 0 THEN <<type>>
          ELSE Joining([i \in 0 .. 0 |-> <<type>>][n - 1], args[n])]
    OBVIOUS
  <2> QED
    BY <2>1
<1>2. ASSUME NEW k \in Nat, k \in S PROVE k + 1 \in S
  <2>1. PICK f : f = [n \in 0 .. k |->
                   IF n = 0 THEN <<type>> ELSE Joining(f[n - 1], args[n])]
    BY <1>2
  <2> DEFINE g == [n \in 0 .. k + 1 |->
                     IF n <= k THEN f[n] ELSE Joining(f[k], args[k + 1])]
  <2>2. g = [n \in 0 .. k + 1 |->
               IF n = 0 THEN <<type>> ELSE Joining(g[n - 1], args[n])]
    BY <2>1
  <2> HIDE DEF g
  <2> QED
    BY <2>2
<1>3. Len(args) \in S
  <2> HIDE DEF S
  <2> QED
    BY <1>1, <1>2, Induction
<1>4. PICK f : f = [n \in 0 .. Len(args) |->
                 IF n = 0 THEN <<type>> ELSE Joining(f[n - 1], args[n])]
  BY <1>3
<1> QED
  BY <1>4 DEF JoinedUpTo, Message, Joining

\* A word is its only word.
LEMMA WordsOfOneWord ==
  ASSUME NEW word \in Text, IsWord(word) PROVE Words(word) = <<word>>
<1>1. << >> \in Text /\ Blank(<< >>) /\ BreaksOff(<< >>)
  BY DEF Text, Blank, BreaksOff
<1>2. << >> \o word \o << >> = word
  BY DEF Text
<1>3. Words(<< >> \o word \o << >>) = <<word>> \o Words(<< >>)
  BY <1>1, WordsOfWord
<1>4. <<word>> \o << >> = <<word>>
  OBVIOUS
<1> QED
  BY <1>2, <1>3, <1>4, WordsStep

\* A message's text begins with its type, alone or followed by a space and the
\* first argument; and if the arguments are words, they are its words.
JoinedSoFar(type, args, n, text) ==
  /\ text \in Text
  /\ n = 0 => text = <<type>>
  /\ n # 0 => \E tail \in Text :
                /\ text = <<type, Space>> \o args[1] \o tail
                /\ n = 1 => tail = << >>
  /\ (\A i \in 1 .. Len(args) : IsWord(args[i])) =>
       Words(text) = << <<type>> >> \o SubSeq(args, 1, n)

\* Without arguments.
LEMMA JoinedStart ==
  ASSUME NEW type \in TypeName, NEW args \in Seq(Text)
  PROVE  JoinedSoFar(type, args, 0, <<type>>)
<1>1. <<type>> \in Text /\ IsWord(<<type>>)
  BY Pieces DEF Text, IsWord
<1>2. Words(<<type>>) = << <<type>> >>
  BY <1>1, WordsOfOneWord
<1>3. << <<type>> >> \o SubSeq(args, 1, 0) = << <<type>> >>
  <2>1. SubSeq(args, 1, 0) = << >> /\ << <<type>> >> \in Seq(Text)
    BY <1>1, SubSeqEmpty
  <2> QED
    BY <2>1, ConcatEmptySeq
<1> QED
  BY <1>1, <1>2, <1>3, Zenon DEF JoinedSoFar

\* With one more.
LEMMA JoinedOneMore ==
  ASSUME NEW type \in TypeName, NEW args \in Seq(Text),
         NEW n \in Nat, n + 1 <= Len(args), NEW text, JoinedSoFar(type, args, n, text)
  PROVE  JoinedSoFar(type, args, n + 1, Joining(text, args[n + 1]))
<1> DEFINE arg == args[n + 1]
           longer == text \o <<Space>> \o arg
<1>1. /\ <<type>> \in Text /\ <<Space>> \in Text /\ <<type, Space>> \in Text
      /\ Space \in Whitespace /\ text \in Text
  BY Pieces DEF Text, JoinedSoFar
<1>2. Len(args) \in Nat /\ arg \in Text /\ args[1] \in Text
  OBVIOUS
<1> HIDE DEF arg
<1>3. longer \in Text
  BY <1>1, <1>2 DEF Text
<1>4. \E tail \in Text : /\ longer = <<type, Space>> \o args[1] \o tail
                         /\ n + 1 = 1 => tail = << >>
  <2> DEFINE first == args[1]
  <2>1. first \in Text
    BY <1>2
  <2>2. CASE n = 0
    <3>1. text = <<type>> /\ arg = first
      BY <2>2 DEF JoinedSoFar, arg
    <3> HIDE DEF first
    <3>2. longer = <<type, Space>> \o first \o << >> /\ << >> \in Text
      BY <1>1, <2>1, <3>1 DEF Text
    <3> QED
      BY <3>2 DEF first
  <2>3. CASE n # 0
    <3>1. PICK tail \in Text : text = <<type, Space>> \o first \o tail
      BY <2>3, Zenon DEF JoinedSoFar
    <3> HIDE DEF first
    <3>2. /\ tail \o <<Space>> \o arg \in Text
          /\ longer = <<type, Space>> \o first \o (tail \o <<Space>> \o arg)
      <4> DEFINE h == <<type, Space>>
                 s == <<Space>>
      <4>1. h \in Text /\ s \in Text
        BY <1>1
      <4> HIDE DEF h, s
      <4>2. tail \o s \o arg \in Text
        BY <1>2, <4>1 DEF Text
      <4>3. (h \o first \o tail) \o s \o arg = h \o first \o (tail \o s \o arg)
        <5> DEFINE P(a, b, c, d, e) == (a \o b \o c) \o d \o e = a \o b \o (c \o d \o e)
        <5>1. \A a, b, c, d, e \in Text : P(a, b, c, d, e)
          BY SMTT(60) DEF Text
        <5> HIDE DEF P
        <5>2. P(h, first, tail, s, arg)
          BY <1>2, <2>1, <4>1, <5>1
        <5> QED
          BY <5>2 DEF P
      <4> QED
        BY <3>1, <4>2, <4>3, Zenon DEF h, s
    <3>3. n + 1 # 1
      BY <2>3
    <3> HIDE DEF longer
    <3> QED
      BY <3>2, <3>3 DEF first
  <2> QED
    BY <2>2, <2>3
<1>5. ASSUME \A i \in 1 .. Len(args) : IsWord(args[i])
      PROVE  Words(longer) = << <<type>> >> \o SubSeq(args, 1, n + 1)
  <2> DEFINE before == SubSeq(args, 1, n)
             one == << <<type>> >>
             last == <<arg>>
  <2>1. Words(longer) = Words(text) \o Words(arg)
    BY <1>1, <1>2, WordsApart
  <2>2. Words(arg) = last
    <3>1. IsWord(arg)
      BY <1>2, <1>5 DEF arg
    <3> QED
      BY <1>2, <3>1, WordsOfOneWord
  <2>3. Words(text) = one \o before
    BY <1>5 DEF JoinedSoFar
  <2>4. SubSeq(args, 1, n + 1) = before \o last /\ before \in Seq(Text)
    BY <1>2 DEF arg
  <2>5. one \in Seq(Text) /\ last \in Seq(Text)
    BY <1>1, <1>2
  <2> HIDE DEF before, one, last
  <2>6. (one \o before) \o last = one \o (before \o last)
    BY <2>4, <2>5, ConcatAssociative, SMTT(30)
  <2> QED
    BY <2>1, <2>2, <2>3, <2>4, <2>6 DEF one
<1> HIDE DEF longer
<1>6. JoinedSoFar(type, args, n + 1, longer)
  <2>1. n + 1 # 0
    OBVIOUS
  <2> QED
    BY <1>3, <1>4, <1>5, <2>1, Zenon DEF JoinedSoFar
<1> QED
  BY <1>6 DEF longer, arg, Joining

\* With all of them.
LEMMA JoinedMessage ==
  ASSUME NEW type \in TypeName, NEW args \in Seq(Text)
  PROVE  JoinedSoFar(type, args, Len(args), Joined(Message(type, args)))
<1> DEFINE m == Message(type, args)
           F == JoinedUpTo(m)
           P(n) == JoinedSoFar(type, args, n, F[n])
           S == {n \in Nat : n <= Len(args) => P(n)}
<1>1. F = [n \in 0 .. Len(args) |-> IF n = 0 THEN <<type>> ELSE Joining(F[n - 1], args[n])]
  BY JoinedUpToDef
<1>2. Joined(m) = F[Len(args)]
  BY DEF Joined, JoinedUpTo, Message
<1>3. Len(args) \in Nat
  OBVIOUS
<1> HIDE DEF m, F
<1>4. 0 \in S
  <2>1. F[0] = <<type>>
    BY <1>1, <1>3
  <2> QED
    BY <2>1, JoinedStart
<1>5. ASSUME NEW n \in Nat, n \in S PROVE n + 1 \in S
  <2> SUFFICES ASSUME n + 1 <= Len(args) PROVE P(n + 1)
    OBVIOUS
  <2>1. F[n + 1] = Joining(F[n], args[n + 1])
    BY <1>1, <1>3
  <2>2. P(n)
    BY <1>3, <1>5
  <2> QED
    BY <2>1, <2>2, JoinedOneMore
<1>6. Len(args) \in S
  <2> HIDE DEF S, P
  <2> QED
    BY <1>3, <1>4, <1>5, Induction
<1>7. P(Len(args))
  <2> HIDE DEF P
  <2> QED
    BY <1>3, <1>6
<1> QED
  BY <1>2, <1>7 DEF m

\* What decode finds in the text of a message.
LEMMA SpelledMessage ==
  ASSUME NEW type \in TypeName, NEW args \in Seq(Text)
  PROVE  LET text == Spelled(Message(type, args))
             after == AfterType(text)
         IN  /\ text \in Text /\ text # << >> /\ text[Len(text)] = Newline
             /\ TypeOf(text) = type /\ Words(text) # << >> /\ after \in Text
             /\ args = << >> => Arguments(after) = << >>
             /\ args # << >> => \E tail \in Text :
                  /\ after = <<Space>> \o args[1] \o tail \o <<Newline>>
                  /\ Rest(after) = args[1] \o tail \o <<Newline>>
                  /\ Len(args) = 1 => tail = << >>
             /\ (\A i \in 1 .. Len(args) : IsWord(args[i])) => Words(Rest(after)) = args
<1> DEFINE joined == Joined(Message(type, args))
           text == Spelled(Message(type, args))
           words == \A i \in 1 .. Len(args) : IsWord(args[i])
<1>1. /\ joined \in Text
      /\ args = << >> => joined = <<type>>
      /\ words => Words(joined) = << <<type>> >> \o args
  <2>1. JoinedSoFar(type, args, Len(args), joined)
    BY JoinedMessage
  <2> HIDE DEF joined
  <2>2. args = << >> => Len(args) = 0
    OBVIOUS
  <2>3. SubSeq(args, 1, Len(args)) = args
    BY SubSeqFull
  <2> QED
    BY <2>1, <2>2, <2>3, Zenon DEF JoinedSoFar
<1>2. args # << >> => \E tail \in Text : /\ joined = <<type, Space>> \o args[1] \o tail
                                         /\ Len(args) = 1 => tail = << >>
  <2>1. JoinedSoFar(type, args, Len(args), joined)
    BY JoinedMessage
  <2>2. args # << >> => Len(args) # 0
    BY EmptySeq
  <2> HIDE DEF joined
  <2> QED
    BY <2>1, <2>2, Zenon DEF JoinedSoFar
<1>3. text = joined \o <<Newline>>
  BY DEF Spelled
<1> HIDE DEF joined, text
<1>4. /\ <<type>> \in Text /\ <<Space>> \in Text /\ <<Newline>> \in Text /\ << >> \in Text
      /\ Space \in Whitespace /\ Newline \in Whitespace
      /\ IsWord(<<type>>) /\ Blank(<< >>)
  BY Pieces DEF Text, IsWord, Blank
<1>5. text \in Text /\ text # << >> /\ text[Len(text)] = Newline
  BY <1>1, <1>3, <1>4 DEF Text
<1>6. words => Words(text) = << <<type>> >> \o args
  <2>1. text = joined \o <<Newline>> \o << >>
    BY <1>1, <1>3, <1>4 DEF Text
  <2>2. Words(text) = Words(joined) \o Words(<< >>)
    BY <1>1, <1>4, <2>1, WordsApart
  <2>3. Words(joined) \o << >> = Words(joined)
    BY <1>1, WordsAreTexts, ConcatEmptySeq
  <2> HIDE DEF words
  <2> QED
    BY <1>1, <2>2, <2>3, WordsStep
<1>7. ASSUME NEW rest \in Text, text = <<type>> \o rest, rest[1] \in Whitespace
      PROVE  /\ TypeOf(text) = type /\ Words(text) # << >> /\ AfterType(text) = rest
             /\ Words(text) = << <<type>> >> \o Words(rest)
  <2>1. text = << >> \o <<type>> \o rest
    BY <1>4, <1>7 DEF Text
  <2>2. FirstWord(text, << >>, <<type>>, rest)
    BY <1>4, <1>7, <2>1 DEF FirstWord, BreaksOff
  <2>3. /\ TypeOf(text) = IF \E t \in TypeName : <<type>> = <<t>> THEN <<type>>[1] ELSE "NONE"
        /\ Words(text) # << >> /\ AfterType(text) = rest
        /\ Words(text) = << <<type>> >> \o Words(rest)
    BY <1>4, <1>5, <2>2, TypeAndArguments
  <2>4. TypeOf(text) = type
    BY <2>3
  <2> QED
    BY <2>3, <2>4
<1>8. CASE args = << >>
  <2>1. text = <<type>> \o <<Newline>>
    BY <1>1, <1>3, <1>8
  <2>2. <<Newline>>[1] \in Whitespace
    BY <1>4
  <2>3. /\ TypeOf(text) = type /\ Words(text) # << >> /\ AfterType(text) = <<Newline>>
    BY <1>4, <1>7, <2>1, <2>2
  <2>4. Rest(<<Newline>>) = <<Newline>> /\ ~Quoted(<<Newline>>)
    BY DEF Rest, Quoted, Newline, Space, Quote
  <2>5. Words(<<Newline>>) = << >>
    BY <1>4, WordsOfBlank DEF Blank
  <2>6. Arguments(<<Newline>>) = << >>
    BY <1>4, <2>4, <2>5, ArgumentsOf
  <2> HIDE DEF words
  <2> QED
    BY <1>4, <1>5, <1>8, <2>3, <2>4, <2>5, <2>6 DEF text
<1>9. CASE args # << >>
  <2> DEFINE first == args[1]
  <2>1. first \in Text
    BY <1>9
  <2>2. PICK tail \in Text : /\ joined = <<type, Space>> \o first \o tail
                             /\ Len(args) = 1 => tail = << >>
    BY <1>2, <1>9
  <2> HIDE DEF first
  <2> DEFINE rest == first \o tail \o <<Newline>>
             after == <<Space>> \o rest
  <2>3. rest \in Text /\ after \in Text /\ after[1] = Space /\ after # << >>
        /\ after = <<Space>> \o first \o tail \o <<Newline>>
    BY <1>4, <2>1 DEF Text
  <2>4. text = <<type>> \o after
    BY <1>3, <1>4, <2>1, <2>2 DEF Text
  <2>5. Rest(after) = rest
    <3>1. Tail(after) = rest
      BY <1>4, <2>3 DEF Text
    <3> QED
      BY <2>3, <3>1 DEF Rest
  <2> HIDE DEF rest, after
  <2>6. /\ TypeOf(text) = type /\ Words(text) # << >> /\ AfterType(text) = after
        /\ Words(text) = << <<type>> >> \o Words(after)
    BY <1>4, <1>7, <2>3, <2>4
  <2>7. Words(after) = Words(rest)
    BY <1>4, <2>3, WordsAfterBlank DEF after
  <2>8. words => Words(rest) = args
    <3>1. << <<type>> >> \in Seq(Text) /\ Words(rest) \in Seq(Text)
      BY <1>4, <2>3, WordsAreTexts
    <3> HIDE DEF words
    <3>2. words => << <<type>> >> \o Words(rest) = << <<type>> >> \o args
      BY <1>6, <2>6, <2>7
    <3> QED
      BY <3>1, <3>2, ConcatSimplifications
  <2> QED
    BY <1>5, <1>9, <2>2, <2>3, <2>5, <2>6, <2>8, Zenon DEF rest, text, first
<1> QED
  BY <1>8, <1>9

-----------------------------------------------------------------------------
(* decode after encode.                                                    *)

\* The arguments are words, and the first opens no quote.
WordsUnquoted(args) ==
  /\ \A i \in 1 .. Len(args) : IsWord(args[i])
  /\ args # << >> => ~Quoted(args[1])

\* What the text of a message is decoded to.
LEMMA DecodeOfSpelled ==
  ASSUME NEW type \in TypeName, NEW args \in Seq(Text),
         Length(Spelled(Message(type, args))) <= MaxEncodedLen
  PROVE  LET text == Spelled(Message(type, args))
             m == Message(type, Arguments(AfterType(text)))
         IN  decode(text) = IF is_valid(m) THEN m ELSE Invalid
<1> DEFINE text == Spelled(Message(type, args))
<1>1. /\ text \in Text /\ text # << >> /\ text[Len(text)] = Newline
      /\ TypeOf(text) = type /\ Words(text) # << >>
  BY SpelledMessage
<1>2. Length(text) <= MaxEncodedLen
  OBVIOUS
<1> HIDE DEF text
<1>3. decode(text) = IF is_valid(Message(type, Arguments(AfterType(text))))
                     THEN Message(type, Arguments(AfterType(text))) ELSE Invalid
  BY <1>1, <1>2 DEF decode, Last
<1> QED
  BY <1>3 DEF text

\* A first argument with what follows it opens a quote exactly if it does so alone.
LEMMA QuotedArgument ==
  ASSUME NEW arg \in Text, NEW tail \in Text
  PROVE  LET rest == arg \o tail \o <<Newline>>
         IN  /\ arg # << >> => (Quoted(rest) <=> Quoted(arg))
             /\ arg = << >> /\ tail = << >> => ~Quoted(rest)
<1>1. <<Newline>> \in Text /\ Newline # Quote
  BY Pieces DEF Text
<1>2. CASE arg # << >>
  <2>1. arg \o tail \o <<Newline>> # << >> /\ (arg \o tail \o <<Newline>>)[1] = arg[1]
    BY <1>1, <1>2 DEF Text
  <2> QED
    BY <1>2, <2>1 DEF Quoted
<1>3. CASE arg = << >> /\ tail = << >>
  <2>1. (arg \o tail \o <<Newline>>)[1] = Newline
    BY <1>1, <1>3 DEF Text
  <2> QED
    BY <1>1, <1>3, <2>1 DEF Quoted
<1> QED
  BY <1>2, <1>3

\* The arguments come back exactly if they are words and open no quote.
LEMMA ArgumentsComeBack ==
  ASSUME NEW type \in TypeName, NEW args \in Seq(Text)
  PROVE  Arguments(AfterType(Spelled(Message(type, args)))) = args <=> WordsUnquoted(args)
<1> DEFINE text == Spelled(Message(type, args))
           after == AfterType(text)
           rest == Rest(after)
           words == \A i \in 1 .. Len(args) : IsWord(args[i])
<1>1. /\ after \in Text
      /\ args = << >> => Arguments(after) = << >>
      /\ words => Words(rest) = args
  BY SpelledMessage
<1>2. args # << >> => \E tail \in Text : /\ rest = args[1] \o tail \o <<Newline>>
                                         /\ Len(args) = 1 => tail = << >>
  BY SpelledMessage, ZenonT(40)
<1> HIDE DEF text, after
<1>3. CASE args = << >>
  BY <1>1, <1>3 DEF WordsUnquoted, after, text
<1>4. CASE args # << >>
  <2> DEFINE first == args[1]
  <2>1. first \in Text /\ Len(args) \in Nat \ {0}
    BY <1>4, EmptySeq
  <2>2. PICK tail \in Text : /\ rest = first \o tail \o <<Newline>>
                             /\ Len(args) = 1 => tail = << >>
    BY <1>2, <1>4
  <2> HIDE DEF first
  <2>3. /\ first # << >> => (Quoted(rest) <=> Quoted(first))
        /\ first = << >> /\ tail = << >> => ~Quoted(rest)
    BY <2>1, <2>2, QuotedArgument
  <2>4. rest \in Text
    BY <1>1, RestOfText
  <2> HIDE DEF rest
  <2>5. ASSUME WordsUnquoted(args) PROVE Arguments(after) = args
    <3>1. words /\ first # << >> /\ ~Quoted(first)
      BY <1>4, <2>1, <2>5 DEF WordsUnquoted, IsWord, first
    <3>2. Arguments(after) = Words(rest)
      BY <1>1, <2>3, <3>1, ArgumentsOf DEF rest
    <3> HIDE DEF words
    <3> QED
      BY <1>1, <3>1, <3>2
  <2>6. ASSUME Arguments(after) = args PROVE WordsUnquoted(args)
    <3>1. ~Quoted(rest)
      <4> SUFFICES ASSUME Quoted(rest) PROVE FALSE
        OBVIOUS
      <4>1. PICK arg \in Text : args = <<arg>> /\ \A i \in 1 .. Len(arg) : arg[i] # Quote
        BY <1>1, <2>6, ArgumentsOf DEF rest
      <4>2. first = arg /\ tail = << >>
        BY <2>2, <4>1 DEF first
      <4>3. first # << >> /\ Quoted(first)
        BY <2>3, <4>2
      <4>4. first[1] = Quote /\ 1 \in 1 .. Len(first)
        BY <2>1, <4>3, EmptySeq DEF Quoted, Text
      <4> QED
        BY <4>1, <4>2, <4>4
    <3>2. args = Words(rest)
      BY <1>1, <2>6, <3>1, ArgumentsOf DEF rest
    <3>3. words
      BY <2>4, <3>2, WordsAreWords
    <3>4. first # << >>
      BY <2>1, <3>3 DEF IsWord, first
    <3> QED
      BY <2>3, <3>1, <3>3, <3>4 DEF WordsUnquoted, first
  <2> QED
    BY <2>5, <2>6 DEF after, text
<1> QED
  BY <1>3, <1>4

\* So a valid message comes back exactly under this condition.
LEMMA MessageComesBack ==
  ASSUME NEW type \in TypeName, NEW args \in Seq(Text),
         is_valid(Message(type, args)), Length(Spelled(Message(type, args))) <= MaxEncodedLen
  PROVE  decode(Spelled(Message(type, args))) = Message(type, args) <=> WordsUnquoted(args)
<1> DEFINE text == Spelled(Message(type, args))
           back == Arguments(AfterType(text))
<1>1. decode(text) = IF is_valid(Message(type, back)) THEN Message(type, back) ELSE Invalid
  BY DecodeOfSpelled
<1>2. back = args <=> WordsUnquoted(args)
  BY ArgumentsComeBack
<1> HIDE DEF text, back
<1>3. Message(type, back) = Message(type, args) => back = args
  BY DEF Message
<1>4. Invalid # Message(type, args)
  <2>1. type # "invalid"
    BY DEF TypeName, RequestType, ResponseType
  <2> QED
    BY <2>1 DEF Invalid, Message
<1> HIDE DEF Invalid
<1> QED
  BY <1>1, <1>2, <1>3, <1>4 DEF text

\* What is decoded is a message.
LEMMA DecodedIsMessage ==
  ASSUME NEW text \in Text, decode(text) # Invalid
  PROVE  \E type \in TypeName, args \in Seq(Text) : decode(text) = Message(type, args)
<1>1. decode(text) = Message(TypeOf(text),
                IF Words(text) = << >> THEN << >> ELSE Arguments(AfterType(text)))
  BY DecodedText
<1>2. text # << >> /\ text[Len(text)] = Newline
  BY DecodedText
<1>3. CASE Words(text) = << >>
  <2>1. TypeOf(text) = "NONE" /\ << >> \in Seq(Text)
    BY <1>3 DEF TypeOf
  <2> QED
    BY <1>1, <1>3, <2>1 DEF TypeName
<1>4. CASE Words(text) # << >>
  <2>1. PICK b \in Text, w \in Text, r \in Text : FirstWord(text, b, w, r)
    BY <1>4, WordsAreFound
  <2>2. AfterType(text) = r
    BY <1>2, <2>1, TypeAndArguments
  <2>3. TypeOf(text) \in TypeName
    <3>1. CASE Words(text)[1] \in {<<type>> : type \in TypeName}
      BY <1>4, <3>1 DEF TypeOf
    <3>2. CASE Words(text)[1] \notin {<<type>> : type \in TypeName}
      BY <3>2 DEF TypeOf, TypeName
    <3> QED
      BY <3>1, <3>2
  <2>4. Arguments(r) \in Seq(Text)
    BY ArgumentsOf
  <2> QED
    BY <1>1, <1>4, <2>2, <2>3, <2>4
<1> QED
  BY <1>3, <1>4

-----------------------------------------------------------------------------
(* The value of a request.                                                 *)

\* What follows the type is longer than the first argument by two: a space and
\* a quote, or a blank on either side of a word.
LEMMA ArgumentIsShorter ==
  ASSUME NEW text \in Text, text # << >>, text[1] \in Whitespace, text[Len(text)] = Newline,
         Arguments(text) # << >>
  PROVE  /\ Arguments(text)[1] \in Text
         /\ Length(Arguments(text)[1]) + 2 <= Length(text)
<1> DEFINE rest == Rest(text)
<1>1. rest \in Text /\ (text[1] = Space => Length(text) = 1 + Length(rest))
  BY RestOfText
<1>2. text[1] # Space => rest = text
  BY DEF Rest
<1>3. Length(rest) \in Nat /\ Length(text) \in Nat
  BY <1>1, LengthIsNat
<1> HIDE DEF rest
<1>4. CASE Quoted(rest)
  <2>1. PICK arg \in Text : Arguments(text) = <<arg>> /\ Length(arg) + 1 <= Length(rest)
    BY <1>4, ArgumentsOf DEF rest
  <2>2. text[1] = Space
    <3> SUFFICES ASSUME text[1] # Space PROVE FALSE
      OBVIOUS
    <3>1. Quoted(text)
      BY <1>2, <1>4
    <3> QED
      BY <3>1, Pieces DEF Quoted
  <2>3. Length(arg) \in Nat
    BY LengthIsNat
  <2> QED
    BY <1>1, <1>3, <2>1, <2>2, <2>3
<1>5. CASE ~Quoted(rest)
  <2>1. Arguments(text) = Words(rest)
    BY <1>5, ArgumentsOf DEF rest
  <2>2. PICK b \in Text, w \in Text, r \in Text :
          FirstWord(rest, b, w, r) /\ Words(rest) = <<w>> \o Words(r)
    BY <1>1, <2>1, WordsAreFound
  <2>3. Arguments(text)[1] = w
    <3>1. Words(r) \in Seq(Text)
      BY WordsAreTexts
    <3> QED
      BY <2>1, <2>2, <3>1
  <2>4. rest # << >> /\ rest[Len(rest)] = Newline
    <3>1. rest # << >>
      BY <2>1, WordsStep
    <3>2. CASE text[1] = Space
      <4>1. text = <<Space>> \o rest /\ <<Space>> \in Text
        <5>1. text = <<Space>> \o Rest(text)
          BY <3>2, RestOfText, Zenon
        <5> QED
          BY <5>1, Pieces DEF rest, Text
      <4> QED
        BY <1>1, <3>1, <4>1 DEF Text
    <3>3. CASE text[1] # Space
      BY <1>2, <3>3
    <3> QED
      BY <3>1, <3>2, <3>3
  <2>5. r # << >>
    BY <1>1, <2>2, <2>4, TypeAndArguments
  <2>6. /\ Length(rest) = Length(b) + Length(w) + Length(r)
        /\ Length(b) \in Nat /\ Length(w) \in Nat /\ Length(r) \in Nat \ {0}
    <3>1. rest = (b \o w) \o r /\ b \o w \in Text
      BY <2>2 DEF FirstWord, Text
    <3>2. Length(rest) = Length(b \o w) + Length(r)
      BY <3>1, LengthOfBoth
    <3>3. Length(b \o w) = Length(b) + Length(w)
      BY LengthOfBoth
    <3>4. Length(r) \in Nat \ {0} /\ Length(b) \in Nat /\ Length(w) \in Nat
      BY <2>5, LengthIsPositive, LengthIsNat
    <3> QED
      BY <3>2, <3>3, <3>4
  <2>7. CASE text[1] = Space
    BY <1>1, <1>3, <2>3, <2>6, <2>7
  <2>8. CASE text[1] # Space
    <3>1. b # << >>
      <4> SUFFICES ASSUME b = << >> PROVE FALSE
        OBVIOUS
      <4>1. rest = w \o r /\ IsWord(w)
        <5>1. rest = b \o w \o r /\ IsWord(w)
          BY <2>2 DEF FirstWord
        <5>2. << >> \o w = w
          BY ConcatEmptySeq DEF Text
        <5> QED
          BY <5>1, <5>2
      <4>2. rest[1] = w[1] /\ w[1] \notin Whitespace
        <5>1. Len(w) \in Nat \ {0}
          BY <4>1, EmptySeq DEF IsWord, Text
        <5> QED
          BY <4>1, <5>1 DEF IsWord, Text
      <4> QED
        BY <1>2, <2>8, <4>2
    <3>2. Length(b) \in Nat \ {0}
      BY <3>1, LengthIsPositive
    <3> QED
      BY <1>2, <1>3, <2>3, <2>6, <2>8, <3>2
  <2> QED
    BY <2>7, <2>8
<1> QED
  BY <1>4, <1>5

\* The text of a message with one argument.
LEMMA SpelledWithOne ==
  ASSUME NEW type \in TypeName, NEW value \in Text
  PROVE  /\ Spelled(Message(type, <<value>>)) = <<type, Space>> \o value \o <<Newline>>
         /\ Length(Spelled(Message(type, <<value>>))) = Len(type) + 2 + Length(value)
<1> DEFINE args == <<value>>
           joined == Joined(Message(type, args))
           head == <<type, Space>>
<1>1. args \in Seq(Text) /\ Len(args) = 1 /\ args[1] = value
  OBVIOUS
<1>2. JoinedSoFar(type, args, 1, joined)
  BY <1>1, JoinedMessage
<1> HIDE DEF args, joined
<1>3. joined = head \o value
  <2>1. PICK tail \in Text : joined = <<type, Space>> \o args[1] \o tail /\ tail = << >>
    <3>1. 1 # 0
      OBVIOUS
    <3> QED
      BY <1>2, <3>1, Zenon DEF JoinedSoFar
  <2>2. joined = head \o value \o << >>
    BY <1>1, <2>1
  <2>3. head \o value \in Text
    BY Pieces DEF Text
  <2> QED
    BY <2>2, <2>3, ConcatEmptySeq DEF Text
<1>4. /\ <<type>> \in Text /\ <<Space>> \in Text /\ <<Newline>> \in Text /\ head \in Text
      /\ head \o value \in Text /\ head = <<type>> \o <<Space>>
  BY Pieces DEF Text
<1>5. Length(<<type>>) = Len(type) /\ Length(<<Space>>) = 1 /\ Length(<<Newline>>) = 1
  BY Pieces, LengthOfPiece
<1> HIDE DEF head
<1>6. Length(head) = Length(<<type>>) + Length(<<Space>>)
  BY <1>4, LengthOfBoth
<1>7. Length(head \o value) = Length(head) + Length(value)
  BY <1>4, LengthOfBoth
<1>8. Length(head \o value \o <<Newline>>) = Length(head \o value) + Length(<<Newline>>)
  BY <1>4, LengthOfBoth
<1>9. Length(value) \in Nat /\ Len(type) \in Nat
  BY Pieces, LengthIsNat, CodecAssumption
<1>10. Length(head \o value \o <<Newline>>) = Len(type) + 2 + Length(value)
  BY <1>5, <1>6, <1>7, <1>8, <1>9
<1>11. Spelled(Message(type, <<value>>)) = head \o value \o <<Newline>>
  BY <1>3 DEF Spelled, joined, args
<1> QED
  BY <1>10, <1>11 DEF head

\* The value of a PUSH, sent back as DATA, makes no longer a text.
LEMMA ValueFits ==
  ASSUME NEW text \in Text, decode(text) # Invalid, decode(text).type = "PUSH"
  PROVE  /\ get_value(decode(text)) \in Text
         /\ Length(Spelled(Message("DATA", <<get_value(decode(text))>>))) <= Length(text)
<1>1. /\ text # << >> /\ text[Len(text)] = Newline /\ is_valid(decode(text))
      /\ decode(text) = Message(TypeOf(text),
             IF Words(text) = << >> THEN << >> ELSE Arguments(AfterType(text)))
  BY DecodedText
<1>2. TypeOf(text) = "PUSH"
  BY <1>1 DEF Message
<1>3. Words(text) # << >> /\ Words(text)[1] = <<"PUSH">>
  BY <1>2 DEF TypeOf
<1>4. PICK b \in Text, r \in Text : FirstWord(text, b, <<"PUSH">>, r)
  <2>1. PICK b \in Text, w \in Text, r \in Text :
          FirstWord(text, b, w, r) /\ Words(text) = <<w>> \o Words(r)
    BY <1>3, WordsAreFound
  <2>2. Words(r) \in Seq(Text)
    BY WordsAreTexts
  <2>3. w = <<"PUSH">>
    BY <1>3, <2>1, <2>2
  <2> QED
    BY <2>1, <2>3
<1>5. <<"PUSH">> \in Text /\ Length(<<"PUSH">>) = 4
  BY Pieces, LengthOfPiece, CodecAssumption
<1>6. /\ r # << >> /\ r[Len(r)] = Newline /\ r[1] \in Whitespace
      /\ AfterType(text) = r
  BY <1>1, <1>4, <1>5, TypeAndArguments, ZenonT(40)
<1>7. decode(text).args = Arguments(r) /\ Len(Arguments(r)) = 1
  BY <1>1, <1>2, <1>3, <1>6 DEF is_valid, Message
<1>8. Arguments(r) # << >> /\ get_value(decode(text)) = Arguments(r)[1]
  <2>1. Arguments(r) \in Seq(Text)
    BY ArgumentsOf
  <2>2. Arguments(r) # << >>
    <3> SUFFICES ASSUME Arguments(r) = << >> PROVE FALSE
      OBVIOUS
    <3>1. Len(<< >>) = 1
      BY <1>7, Zenon
    <3> QED
      BY <3>1, EmptySeq
  <2> QED
    BY <1>7, <2>2 DEF get_value, FirstArg
<1> DEFINE value == Arguments(r)[1]
<1>9. value \in Text /\ Length(value) + 2 <= Length(r)
  BY <1>6, <1>8, ArgumentIsShorter
<1> HIDE DEF value
<1>10. Length(text) = Length(b) + 4 + Length(r)
  <2> DEFINE push == <<"PUSH">>
  <2>1. text = (b \o push) \o r
    BY <1>4 DEF FirstWord
  <2>2. push \in Text /\ Length(push) = 4
    BY <1>5
  <2> HIDE DEF push
  <2>3. b \o push \in Text
    BY <2>2 DEF Text
  <2>4. Length(text) = Length(b \o push) + Length(r)
    BY <2>1, <2>3, LengthOfBoth
  <2>5. Length(b \o push) = Length(b) + Length(push)
    BY <2>2, LengthOfBoth
  <2> QED
    BY <2>2, <2>4, <2>5
<1>11. Length(Spelled(Message("DATA", <<value>>))) = 4 + 2 + Length(value)
  BY <1>9, Pieces, SpelledWithOne, CodecAssumption
<1>12. Length(b) \in Nat /\ Length(r) \in Nat /\ Length(value) \in Nat
  BY <1>9, LengthIsNat
<1>13. Length(Spelled(Message("DATA", <<value>>))) <= Length(text)
  BY <1>9, <1>10, <1>11, <1>12
<1> QED
  BY <1>8, <1>9, <1>13 DEF value

\* One argument that comes back as another: it is what a quote opened, which
\* has no quote, or a word, which has none unless the first argument had one.
LEMMA OneArgument ==
  ASSUME NEW type \in TypeName, NEW sent \in Text, NEW got \in Text,
         Arguments(AfterType(Spelled(Message(type, <<sent>>)))) = <<got>>
  PROVE  \/ Quoted(sent) /\ \A i \in 1 .. Len(got) : got[i] # Quote
         \/ /\ ~Quoted(sent) /\ IsWord(got)
            /\ (\E i \in 1 .. Len(got) : got[i] = Quote) =>
                  \E i \in 1 .. Len(sent) : sent[i] = Quote
<1> DEFINE args == <<sent>>
           after == AfterType(Spelled(Message(type, args)))
           rest == sent \o << >> \o <<Newline>>
<1>1. args \in Seq(Text) /\ args # << >> /\ Len(args) = 1 /\ args[1] = sent
  OBVIOUS
<1>2. after \in Text /\ Arguments(after) = <<got>>
  BY <1>1, SpelledMessage
<1>3. Rest(after) = rest
  <2>1. \E tail \in Text : /\ Rest(after) = args[1] \o tail \o <<Newline>>
                           /\ Len(args) = 1 => tail = << >>
    BY <1>1, SpelledMessage, ZenonT(40)
  <2> QED
    BY <1>1, <2>1, Zenon
<1>4. /\ rest \in Text /\ Len(rest) = Len(sent) + 1 /\ rest[Len(sent) + 1] = Newline
      /\ \A i \in 1 .. Len(sent) : rest[i] = sent[i]
      /\ Len(sent) \in Nat
  BY Pieces DEF Text
<1>5. Quoted(rest) <=> Quoted(sent)
  <2>1. << >> \in Text /\ ~Quoted(<< >>)
    BY DEF Text, Quoted
  <2>2. /\ sent # << >> => (Quoted(rest) <=> Quoted(sent))
        /\ sent = << >> => ~Quoted(rest)
    BY <2>1, QuotedArgument
  <2> QED
    BY <2>1, <2>2
<1> HIDE DEF args, after, rest
<1>6. CASE Quoted(sent)
  <2>1. PICK arg \in Text :
          Arguments(after) = <<arg>> /\ \A i \in 1 .. Len(arg) : arg[i] # Quote
    BY <1>2, <1>3, <1>5, <1>6, ArgumentsOf
  <2>2. arg = got
    BY <1>2, <2>1
  <2> QED
    BY <1>6, <2>1, <2>2
<1>7. CASE ~Quoted(sent)
  <2>1. Words(rest) = <<got>>
    BY <1>2, <1>3, <1>5, <1>7, ArgumentsOf
  <2>2. Words(rest)[1] = got /\ 1 \in 1 .. Len(Words(rest))
    BY <2>1
  <2>3. /\ IsWord(got)
        /\ \A j \in 1 .. Len(got) : \E k \in 1 .. Len(rest) : got[j] = rest[k]
    BY <1>4, <2>2, WordsAreWords
  <2>4. ASSUME NEW j \in 1 .. Len(got), got[j] = Quote
        PROVE  \E i \in 1 .. Len(sent) : sent[i] = Quote
    <3>1. PICK k \in 1 .. Len(rest) : rest[k] = Quote
      BY <2>3, <2>4
    <3>2. Newline # Quote
      BY Pieces
    <3>3. k # Len(sent) + 1
      BY <1>4, <3>1, <3>2
    <3>4. k \in 1 .. Len(sent)
      BY <1>4, <3>1, <3>3
    <3> QED
      BY <1>4, <3>1, <3>4
  <2> QED
    BY <1>7, <2>3, <2>4
<1> QED
  BY <1>6, <1>7

=============================================================================
