----------------------------- MODULE WireProofs -----------------------------
(***************************************************************************)
(* Proofs about one run of a client program against the server, for any    *)
(* list of requests, any buffers, and any way to cut the two streams.      *)
(***************************************************************************)
EXTENDS Wire, MessageProofs

-----------------------------------------------------------------------------
(* Streams of whole lines.                                                 *)

\* The text is made of the lines k + 1 to n: the i-th ends at ends[i].
CutsInto(text, lines, k, n) ==
  \E ends \in [k .. n -> 0 .. Len(text)] :
    /\ ends[k] = 0 /\ ends[n] = Len(text)
    /\ \A i \in k + 1 .. n :
         /\ ends[i] = ends[i - 1] + Len(lines[i])
         /\ \A j \in 1 .. Len(lines[i]) : text[ends[i - 1] + j] = lines[i][j]

\* A sequence of texts that are not empty.
NotEmpty(lines) == lines \in Seq(Text) /\ \A i \in 1 .. Len(lines) : lines[i] # << >>

\* No text is made of no lines.
LEMMA CutsNothing ==
  ASSUME NEW lines PROVE CutsInto(<< >>, lines, 0, 0)
<1> DEFINE ends == [i \in 0 .. 0 |-> 0]
<1>1. ends \in [0 .. 0 -> 0 .. Len(<< >>)] /\ ends[0] = 0 /\ Len(<< >>) = 0
  BY EmptySeq
<1>2. 0 + 1 .. 0 = {}
  OBVIOUS
<1> HIDE DEF ends
<1> QED
  BY <1>1, <1>2 DEF CutsInto

\* One more line is written.
LEMMA CutsMore ==
  ASSUME NEW lines, NotEmpty(lines), NEW text \in Text,
         NEW k \in Nat, NEW n \in Nat, k <= n, n < Len(lines), CutsInto(text, lines, k, n)
  PROVE  CutsInto(text \o lines[n + 1], lines, k, n + 1)
<1> DEFINE line == lines[n + 1]
           longer == text \o line
<1>1. line \in Text /\ Len(line) \in Nat /\ Len(text) \in Nat /\ Len(lines) \in Nat
  <2>1. lines \in Seq(Text) /\ n + 1 \in 1 .. Len(lines)
    BY DEF NotEmpty
  <2> QED
    BY <2>1 DEF Text
<1>2. /\ longer \in Text /\ Len(longer) = Len(text) + Len(line)
      /\ \A i \in 1 .. Len(text) : longer[i] = text[i]
      /\ \A i \in 1 .. Len(line) : longer[Len(text) + i] = line[i]
  BY <1>1, ConcatTexts
<1>3. PICK ends \in [k .. n -> 0 .. Len(text)] :
        /\ ends[k] = 0 /\ ends[n] = Len(text)
        /\ \A i \in k + 1 .. n :
             /\ ends[i] = ends[i - 1] + Len(lines[i])
             /\ \A j \in 1 .. Len(lines[i]) : text[ends[i - 1] + j] = lines[i][j]
  BY DEF CutsInto
<1> DEFINE more == [i \in k .. n + 1 |-> IF i = n + 1 THEN Len(longer) ELSE ends[i]]
<1> HIDE DEF longer
<1>4. more \in [k .. n + 1 -> 0 .. Len(longer)]
  BY <1>1, <1>2
<1>5. more[k] = 0 /\ more[n + 1] = Len(longer)
  BY <1>3
<1>6. ASSUME NEW i \in k + 1 .. n + 1
      PROVE  /\ more[i] = more[i - 1] + Len(lines[i])
             /\ \A j \in 1 .. Len(lines[i]) : longer[more[i - 1] + j] = lines[i][j]
  <2>1. CASE i = n + 1
    <3>1. /\ i - 1 = n /\ n \in k .. n + 1 /\ n # n + 1 /\ lines[i] = line
          /\ more[i] = Len(longer) /\ more[n] = Len(text)
      BY <1>3, <2>1
    <3> HIDE DEF more, line
    <3> QED
      BY <1>2, <3>1
  <2>2. CASE i # n + 1
    <3>1. i \in k + 1 .. n /\ more[i] = ends[i] /\ more[i - 1] = ends[i - 1]
      BY <2>2
    <3>2. ends[i] \in 0 .. Len(text) /\ ends[i - 1] \in 0 .. Len(text)
      BY <3>1
    <3>3. lines[i] \in Text /\ Len(lines[i]) \in Nat
      <4>1. lines \in Seq(Text) /\ i \in 1 .. Len(lines)
        BY <1>1, <3>1 DEF NotEmpty
      <4> QED
        BY <4>1 DEF Text
    <3>4. ASSUME NEW j \in 1 .. Len(lines[i]) PROVE longer[more[i - 1] + j] = lines[i][j]
      <4>1. ends[i] = ends[i - 1] + Len(lines[i]) /\ text[ends[i - 1] + j] = lines[i][j]
        BY <1>3, <3>1
      <4> DEFINE e == ends[i - 1]
                 size == Len(lines[i])
                 full == Len(text)
      <4>2. e \in Nat /\ size \in Nat /\ full \in Nat /\ e + size <= full /\ j \in 1 .. size
        BY <1>1, <3>2, <3>3, <4>1
      <4> HIDE DEF e, size, full
      <4>3. e + j \in 1 .. full
        BY <4>2
      <4>4. longer[e + j] = text[e + j]
        BY <1>2, <4>3 DEF full
      <4> HIDE DEF more
      <4> QED
        BY <3>1, <4>1, <4>4 DEF e
    <3> QED
      BY <1>3, <3>1, <3>4
  <2> QED
    BY <2>1, <2>2
<1> HIDE DEF more
<1> QED
  BY <1>4, <1>5, <1>6 DEF CutsInto, longer

\* What is not empty starts with the first of its lines, and the others follow.
LEMMA CutsFirst ==
  ASSUME NEW lines, NotEmpty(lines), NEW text \in Text, text # << >>,
         NEW k \in Nat, NEW n \in Nat, k <= n, n <= Len(lines), CutsInto(text, lines, k, n)
  PROVE  LET line == lines[k + 1]
         IN  /\ k < n /\ line \in Text /\ Len(line) \in 1 .. Len(text)
             /\ \A j \in 1 .. Len(line) : text[j] = line[j]
             /\ CutsInto(SubSeq(text, Len(line) + 1, Len(text)), lines, k + 1, n)
<1> DEFINE line == lines[k + 1]
           size == Len(line)
           rest == SubSeq(text, size + 1, Len(text))
<1>1. PICK ends \in [k .. n -> 0 .. Len(text)] :
        /\ ends[k] = 0 /\ ends[n] = Len(text)
        /\ \A i \in k + 1 .. n :
             /\ ends[i] = ends[i - 1] + Len(lines[i])
             /\ \A j \in 1 .. Len(lines[i]) : text[ends[i - 1] + j] = lines[i][j]
  BY DEF CutsInto
<1>2. Len(text) \in Nat \ {0} /\ Len(lines) \in Nat
  BY EmptySeq DEF Text, NotEmpty
<1>3. k < n
  BY <1>1, <1>2
<1>4. \A i \in 1 .. Len(lines) : lines[i] \in Text /\ Len(lines[i]) \in Nat \ {0}
  BY EmptySeq DEF NotEmpty, Text
<1>5. line \in Text /\ size \in Nat \ {0}
  <2>1. k + 1 \in 1 .. Len(lines)
    BY <1>2, <1>3
  <2> QED
    BY <1>4, <2>1
<1>6. /\ k + 1 \in k + 1 .. n /\ k + 1 - 1 = k
      /\ ends[k + 1] = size /\ \A j \in 1 .. size : text[j] = line[j]
  <2>1. k + 1 \in k + 1 .. n /\ k + 1 - 1 = k
    BY <1>3
  <2>2. /\ ends[k + 1] = ends[k] + size
        /\ \A j \in 1 .. size : text[ends[k] + j] = line[j]
    BY <1>1, <2>1, SMTT(30)
  <2>3. /\ ends[k] = 0
        /\ \A j \in 1 .. size : 0 + j = j
    BY <1>1
  <2> HIDE DEF line, size
  <2> QED
    BY <1>5, <2>1, <2>2, <2>3
<1>7. size \in 1 .. Len(text)
  BY <1>1, <1>2, <1>3, <1>5, <1>6
<1> HIDE DEF line, size
<1>8. /\ rest \in Text /\ Len(rest) = Len(text) - size
      /\ \A i \in 1 .. Len(rest) : rest[i] = text[size + i]
  BY <1>2, <1>7 DEF Text
<1> DEFINE fewer == [i \in k + 1 .. n |-> ends[i] - size]
<1> HIDE DEF rest
<1>9. ASSUME NEW i \in k + 1 .. n
      PROVE  /\ ends[i] \in size .. Len(text)
             /\ i # k + 1 => ends[i - 1] \in size .. Len(text)
  <2> DEFINE S == {d \in Nat : k + 1 + d <= n => ends[k + 1 + d] >= size}
  <2>1. 0 \in S
    BY <1>6, <1>7
  <2>2. ASSUME NEW d \in Nat, d \in S PROVE d + 1 \in S
    <3> SUFFICES ASSUME k + 1 + d + 1 <= n PROVE ends[k + 1 + d + 1] >= size
      BY <2>2
    <3>1. k + 1 + d + 1 \in k + 1 .. n /\ k + 1 + d + 1 - 1 = k + 1 + d
      BY <2>2
    <3>2. ends[k + 1 + d + 1] = ends[k + 1 + d] + Len(lines[k + 1 + d + 1])
      BY <1>1, <3>1
    <3>3. Len(lines[k + 1 + d + 1]) \in Nat /\ ends[k + 1 + d] \in Nat /\ ends[k + 1 + d] >= size
      BY <1>2, <1>4, <2>2, <3>1
    <3> QED
      BY <1>7, <3>2, <3>3
  <2> HIDE DEF S
  <2>3. Nat \subseteq S
    BY <2>1, <2>2, Induction
  <2>4. ASSUME NEW h \in k + 1 .. n PROVE ends[h] \in size .. Len(text)
    <3>1. h - (k + 1) \in Nat /\ k + 1 + (h - (k + 1)) = h /\ h \in k .. n
      OBVIOUS
    <3>2. h - (k + 1) \in S
      BY <2>3, <3>1
    <3>3. ends[h] >= size
      BY <3>1, <3>2 DEF S
    <3>4. ends[h] \in 0 .. Len(text)
      BY <3>1
    <3> QED
      BY <1>2, <1>7, <3>3, <3>4
  <2>5. i # k + 1 => i - 1 \in k + 1 .. n
    OBVIOUS
  <2> QED
    BY <2>4, <2>5
<1>10. fewer \in [k + 1 .. n -> 0 .. Len(rest)]
  BY <1>2, <1>7, <1>8, <1>9
<1>11. fewer[k + 1] = 0 /\ fewer[n] = Len(rest)
  BY <1>1, <1>3, <1>6, <1>7, <1>8
<1>12. ASSUME NEW i \in k + 1 + 1 .. n
       PROVE  /\ fewer[i] = fewer[i - 1] + Len(lines[i])
              /\ \A j \in 1 .. Len(lines[i]) : rest[fewer[i - 1] + j] = lines[i][j]
  <2>1. /\ i \in k + 1 .. n /\ i - 1 \in k + 1 .. n /\ i # k + 1
        /\ fewer[i] = ends[i] - size /\ fewer[i - 1] = ends[i - 1] - size
    OBVIOUS
  <2>2. /\ ends[i] \in size .. Len(text) /\ ends[i - 1] \in size .. Len(text)
        /\ Len(lines[i]) \in Nat
    BY <1>2, <1>4, <1>9, <2>1
  <2>3. ends[i] = ends[i - 1] + Len(lines[i])
    BY <1>1, <2>1
  <2>4. ASSUME NEW j \in 1 .. Len(lines[i]) PROVE rest[fewer[i - 1] + j] = lines[i][j]
    <3>1. text[ends[i - 1] + j] = lines[i][j]
      BY <1>1, <2>1
    <3>2. /\ fewer[i - 1] + j \in 1 .. Len(rest)
          /\ size + (fewer[i - 1] + j) = ends[i - 1] + j
      <4> HIDE DEF fewer
      <4> DEFINE e == ends[i - 1]
                 length == Len(lines[i])
                 full == Len(text)
      <4>1. /\ e \in Nat /\ length \in Nat /\ full \in Nat /\ size \in Nat
            /\ size <= e /\ e + length <= full /\ j \in 1 .. length
            /\ fewer[i - 1] = e - size /\ Len(rest) = full - size
        BY <1>2, <1>7, <1>8, <2>1, <2>2, <2>3
      <4> HIDE DEF e, length, full
      <4>2. e - size + j \in 1 .. full - size /\ size + (e - size + j) = e + j
        BY <4>1
      <4> QED
        BY <4>1, <4>2 DEF e
    <3> QED
      BY <1>8, <3>1, <3>2
  <2> QED
    BY <1>7, <2>1, <2>2, <2>3, <2>4, SMTT(30)
<1> HIDE DEF fewer
<1>13. CutsInto(rest, lines, k + 1, n)
  BY <1>10, <1>11, <1>12 DEF CutsInto
<1> QED
  BY <1>3, <1>5, <1>6, <1>7, <1>13 DEF rest, size, line

-----------------------------------------------------------------------------
(* The session takes what the program has written.                         *)

Lines  == [i \in 1 .. Len(list) |-> Spelled(list[i])]
Marker == {EndOfFile, ReadError}
Stream == usrbuf \o rio_buf \o incoming
Failed == returned # << >> /\ returned[Len(returned)] \in Marker

Exchange ==
  [request : {decode(text) : text \in Text} \cup {Invalid},
   reply : {Request("OK"), FAILED, ERROR, Invalid} \cup {Message("DATA", <<v>>) : v \in Values}]

WireTypes ==
  /\ list \in Programs
  /\ incoming \in Text /\ rio_buf \in Text /\ usrbuf \in Text
  /\ returned \in Seq(Text \cup Marker) /\ handled \in Seq(Exchange)
  /\ calling \in BOOLEAN
  /\ session \in {"idle", "reading", "writing", "over"}
  /\ client \in {"start", "write", "read"} => next \in 1 .. Len(list)
  /\ client \in {"start", "write", "read"} \cup Ended

\* What has been read is handled before more is read, and nothing is read
\* after what could not be.
OneAtATime ==
  /\ Len(handled) <= Len(returned) /\ Len(returned) <= Len(handled) + 1
  /\ calling => session = "reading"
  /\ session # "reading" \/ calling => Len(returned) = Len(handled)
  /\ session = "writing" => handled # << >>
  /\ Failed /\ Len(handled) = Len(returned) => session \in {"writing", "over"}
  /\ client = "start" => session \in {"idle", "over"} /\ returned = << >>

\* Each line is a request, but for the last if the connection ended or failed.
LinesAreRequests ==
  \A i \in 1 .. Len(returned) :
    \/ i <= Len(list) /\ returned[i] = Lines[i]
    \/ i = Len(returned) /\ returned[i] \in Marker

Decoded ==
  \A i \in 1 .. Len(handled) :
    /\ returned[i] \notin Marker => handled[i].request = decode(returned[i])
    /\ returned[i] \in Marker => handled[i].request = Invalid /\ handled[i].reply = ERROR

\* What was written and not yet read are the next requests, whole.
PartOfLine ==
  /\ \A i \in 1 .. Len(usrbuf) : usrbuf[i] # Newline
  /\ ~calling => usrbuf = << >>

Written ==
  ~Failed =>
    \E n \in Len(returned) .. Len(list) :
      /\ CutsInto(Stream, Lines, Len(returned), n)
      /\ client = "start" => n = 0 /\ next = 1
      /\ client = "write" /\ clientfd = 0 => n = next - 1
      /\ client = "read" => n = next

WireInv ==
  /\ WireTypes /\ OneAtATime /\ LinesAreRequests /\ Decoded /\ PartOfLine /\ Written

\* The requests as they are written: each has one newline, at its end, and
\* fits the session's buffer.
LEMMA LinesAreWhole ==
  ASSUME list \in Programs
  PROVE  /\ NotEmpty(Lines) /\ Len(Lines) = Len(list) /\ Len(list) \in Nat \ {0}
         /\ \A i \in 1 .. Len(list) :
              /\ Lines[i] = Spelled(list[i]) /\ Lines[i] \in Text
              /\ Len(Lines[i]) \in Nat \ {0} /\ Len(Lines[i]) < MaxLen
              /\ \A j \in 1 .. Len(Lines[i]) : Lines[i][j] = Newline <=> j = Len(Lines[i])
<1>1. list \in Seq([type : RequestType, args : Seq(Seq(Piece))]) /\ list # << >>
  BY WireAssumption
<1>2. Len(list) \in Nat \ {0}
  BY <1>1, EmptySeq
<1>3. ASSUME NEW i \in 1 .. Len(list)
      PROVE  LET text == Spelled(list[i])
             IN  /\ text \in Text /\ text # << >> /\ Len(text) \in Nat \ {0}
                 /\ Len(text) < MaxLen
                 /\ \A j \in 1 .. Len(text) : text[j] = Newline <=> j = Len(text)
  <2> DEFINE type == list[i].type
             args == list[i].args
             text == Spelled(list[i])
  <2>1. list[i] \in [type : RequestType, args : Seq(Seq(Piece))]
    BY <1>1, ElementOfSeq
  <2>2. list[i] = Message(type, args) /\ type \in TypeName /\ args \in Seq(Text)
    BY <2>1 DEF Message, TypeName, Text
  <2> HIDE DEF type, args
  <2>3. text \in Text /\ text # << >> /\ text[Len(text)] = Newline
    BY <2>2, SpelledMessage
  <2>4. Len(text) < MaxLen /\ \A j \in 1 .. Len(text) - 1 : text[j] # Newline
    BY WireAssumption
  <2> HIDE DEF text
  <2>5. Len(text) \in Nat \ {0}
    BY <2>3, EmptySeq DEF Text
  <2>6. \A j \in 1 .. Len(text) : text[j] = Newline <=> j = Len(text)
    BY <2>3, <2>4, <2>5
  <2> QED
    BY <2>3, <2>4, <2>5, <2>6 DEF text
<1>4. Lines \in Seq(Text) /\ Len(Lines) = Len(list)
      /\ \A i \in 1 .. Len(list) : Lines[i] = Spelled(list[i])
  BY <1>2, <1>3 DEF Lines
<1> QED
  BY <1>2, <1>3, <1>4 DEF NotEmpty

\* The bytes of the stream, and those of them that have been copied.
LEMMA StreamParts ==
  ASSUME WireTypes
  PROVE  /\ Stream \in Text /\ Len(Stream) = Len(usrbuf) + Len(rio_buf) + Len(incoming)
         /\ Len(usrbuf) \in Nat /\ Len(rio_buf) \in Nat /\ Len(incoming) \in Nat
         /\ \A i \in 1 .. Len(usrbuf) : Stream[i] = usrbuf[i]
         /\ rio_buf # << >> => Stream[Len(usrbuf) + 1] = Head(rio_buf)
<1>1. incoming \in Text /\ rio_buf \in Text /\ usrbuf \in Text
  BY DEF WireTypes
<1>2. /\ Stream \in Text /\ Len(Stream) = Len(usrbuf) + Len(rio_buf) + Len(incoming)
      /\ Len(usrbuf) \in Nat /\ Len(rio_buf) \in Nat /\ Len(incoming) \in Nat
      /\ \A i \in 1 .. Len(usrbuf) : Stream[i] = usrbuf[i]
  BY <1>1 DEF Stream, Text
<1>3. ASSUME rio_buf # << >> PROVE Stream[Len(usrbuf) + 1] = Head(rio_buf)
  BY <1>1, <1>3 DEF Stream, Text
<1> QED
  BY <1>2, <1>3

\* What the session is about to return, if anything is left.
LEMMA NextLine ==
  ASSUME WireInv, ~Failed, Stream # << >>
  PROVE  LET k == Len(returned)
             line == Lines[k + 1]
         IN  /\ k + 1 \in 1 .. Len(list) /\ Len(line) \in 1 .. Len(Stream)
             /\ Len(usrbuf) < Len(line)
             /\ \A j \in 1 .. Len(line) : Stream[j] = line[j]
<1> DEFINE k == Len(returned)
           line == Lines[k + 1]
<1>1. PICK n \in k .. Len(list) : CutsInto(Stream, Lines, k, n)
  BY DEF WireInv, Written
<1>2. /\ NotEmpty(Lines) /\ Len(Lines) = Len(list) /\ Len(list) \in Nat
      /\ Stream \in Text /\ k \in Nat
  BY LinesAreWhole, StreamParts DEF WireInv, WireTypes
<1>3. /\ k < n /\ Len(line) \in 1 .. Len(Stream)
      /\ \A j \in 1 .. Len(line) : Stream[j] = line[j]
  <2>1. n \in Nat /\ k <= n /\ n <= Len(Lines)
    BY <1>1, <1>2
  <2> QED
    BY <1>1, <1>2, <2>1, CutsFirst
<1>4. k + 1 \in 1 .. Len(list)
  BY <1>2, <1>3
<1>5. Len(line) \in Nat \ {0} /\ line[Len(line)] = Newline
  BY <1>4, LinesAreWhole DEF WireInv, WireTypes
<1>6. /\ Len(usrbuf) \in Nat
      /\ \A i \in 1 .. Len(usrbuf) : Stream[i] = usrbuf[i] /\ usrbuf[i] # Newline
  BY StreamParts DEF WireInv, PartOfLine
<1> HIDE DEF line, k
<1>7. Len(usrbuf) < Len(line)
  <2> SUFFICES ASSUME Len(usrbuf) >= Len(line) PROVE FALSE
    BY <1>5, <1>6
  <2>1. Len(line) \in 1 .. Len(usrbuf) /\ Len(line) \in 1 .. Len(line)
    BY <1>5, <1>6
  <2> QED
    BY <1>3, <1>5, <1>6, <2>1
<1> QED
  BY <1>3, <1>4, <1>7 DEF line, k

\* What the program does, and what the session does without reading.
LEMMA ReaderStays ==
  ASSUME WireInv, UNCHANGED <<list, returned, handled, calling, usrbuf>>,
         client' = "start" => client = "start",
         \/ session' = session
         \/ client' # "start" /\ client = "start" /\ session' = "reading"
         \/ session # "reading" /\ session' = "over"
  PROVE  OneAtATime' /\ LinesAreRequests' /\ Decoded' /\ PartOfLine' /\ Failed' = Failed
         /\ Lines' = Lines
<1>1. Failed' = Failed /\ Lines' = Lines
  BY DEF Failed, Lines
<1>2. LinesAreRequests' /\ Decoded' /\ PartOfLine'
  BY <1>1 DEF WireInv, LinesAreRequests, Decoded, PartOfLine
<1>3. OneAtATime'
  <2>1. CASE session' = session
    BY <1>1, <2>1 DEF WireInv, OneAtATime
  <2>2. CASE client' # "start" /\ client = "start" /\ session' = "reading"
    <3>1. /\ returned = << >> /\ ~Failed /\ Len(handled) <= Len(returned)
          /\ session \in {"idle", "over"}
      BY <2>2 DEF WireInv, OneAtATime, Failed
    <3>2. Len(handled) = Len(returned) /\ session # "reading"
      BY <3>1 DEF WireInv, OneAtATime
    <3> QED
      BY <1>1, <2>2, <3>1, <3>2 DEF WireInv, OneAtATime
  <2>3. CASE session # "reading" /\ session' = "over"
    BY <1>1, <2>3 DEF WireInv, OneAtATime
  <2> QED
    BY <2>1, <2>2, <2>3
<1> QED
  BY <1>1, <1>2, <1>3

\* The end of a program leaves the stream as it is.
LEMMA ProgramEnds ==
  ASSUME NEW how \in Ended, Exits(how)
  PROVE  client' \in Ended /\ UNCHANGED <<incoming, rio_buf, usrbuf, calling, returned>>
BY DEF Exits

\* A program that has ended is at none of its stages.
LEMMA EndedIsNoStage ==
  Ended \cap {"start", "write", "read"} = {}
BY DEF Ended

\* What is written does not change with the stream alone.
LEMMA WrittenStays ==
  ASSUME WireInv, UNCHANGED <<list, returned, usrbuf, rio_buf, incoming>>,
         \/ client' \in Ended
         \/ /\ client' = "write" /\ client \in {"start", "read"}
            /\ next' = IF client = "start" THEN next ELSE next + 1
         \/ client' = client /\ next' = next /\ clientfd' = clientfd
  PROVE  Written'
<1>1. Stream' = Stream /\ Lines' = Lines /\ Failed' = Failed
  BY DEF Stream, Lines, Failed
<1>2. SUFFICES ASSUME ~Failed PROVE Written'
  BY <1>1 DEF Written
<1>3. PICK n \in Len(returned) .. Len(list) :
        /\ CutsInto(Stream, Lines, Len(returned), n)
        /\ client = "start" => n = 0 /\ next = 1
        /\ client = "write" /\ clientfd = 0 => n = next - 1
        /\ client = "read" => n = next
  BY <1>2 DEF WireInv, Written
<1>4. /\ CutsInto(Stream', Lines', Len(returned'), n)
      /\ n \in Len(returned') .. Len(list')
  BY <1>1, <1>3
<1>5. /\ client' = "start" => n = 0 /\ next' = 1
      /\ client' = "write" /\ clientfd' = 0 => n = next' - 1
      /\ client' = "read" => n = next'
  BY <1>3, EndedIsNoStage
<1> QED
  BY <1>4, <1>5 DEF Written

\* Connecting (open_clientfd, or its failure) keeps the invariant.
LEMMA ConnectStep == ASSUME WireInv, Connect PROVE WireInv'
<1>1. /\ client = "start" /\ UNCHANGED <<list, next, handled>>
      /\ session' = session \/ session' = "reading"
  BY DEF Connect
<1>2. /\ client' \in Ended \/ client' = "write"
      /\ UNCHANGED <<incoming, rio_buf, usrbuf, calling, returned>>
  BY ProgramEnds DEF Connect, Ended, rioVars
<1>3. OneAtATime' /\ LinesAreRequests' /\ Decoded' /\ PartOfLine' 
  BY <1>1, <1>2, ReaderStays, EndedIsNoStage
<1>4. Written'
  BY <1>1, <1>2, WrittenStays
<1>5. WireTypes'
  BY <1>1, <1>2, EndedIsNoStage DEF WireInv, WireTypes
<1> QED
  BY <1>3, <1>4, <1>5 DEF WireInv

\* Writing the next request, or dying of SIGPIPE, keeps the invariant.
LEMMA WriteRequestStep == ASSUME WireInv, WriteRequest PROVE WireInv'
<1>1. client = "write" /\ UNCHANGED <<list, next, handled, session, clientfd>>
  BY DEF WriteRequest, sessionVars
<1>2. CASE \E how \in Ended : Exits(how)
  <2>1. client' \in Ended /\ UNCHANGED <<incoming, rio_buf, usrbuf, calling, returned>>
    BY <1>2, ProgramEnds
  <2>2. OneAtATime' /\ LinesAreRequests' /\ Decoded' /\ PartOfLine' 
    BY <1>1, <2>1, ReaderStays, EndedIsNoStage
  <2>3. Written'
    BY <1>1, <2>1, WrittenStays
  <2>4. WireTypes'
    BY <1>1, <2>1, EndedIsNoStage DEF WireInv, WireTypes
  <2> QED
    BY <2>2, <2>3, <2>4 DEF WireInv
<1>3. CASE clientfd = 0 /\ Reader!Send(Spelled(list[next])) /\ client' = "read"
  <2> DEFINE line == Lines[next]
  <2>1. /\ next \in 1 .. Len(list) /\ line = Spelled(list[next]) /\ line \in Text
        /\ NotEmpty(Lines) /\ Len(Lines) = Len(list) /\ Len(list) \in Nat
    BY <1>1, LinesAreWhole DEF WireInv, WireTypes
  <2>2. incoming' = incoming \o line /\ UNCHANGED <<rio_buf, usrbuf, calling, returned>>
    BY <1>3, <2>1 DEF Reader!Send
  <2> HIDE DEF line
  <2>3. /\ OneAtATime' /\ LinesAreRequests' /\ Decoded' /\ PartOfLine'
        /\ Failed' = Failed /\ Lines' = Lines
    BY <1>1, <1>3, <2>2, ReaderStays
  <2>4. WireTypes'
    <3>1. incoming' \in Text
      BY <2>1, <2>2, ConcatTexts DEF WireInv, WireTypes
    <3> QED
      BY <1>1, <1>3, <2>2, <3>1, EndedIsNoStage DEF WireInv, WireTypes
  <2>5. Written'
    <3> SUFFICES ASSUME ~Failed PROVE Written'
      BY <2>3 DEF Written
    <3>1. PICK n \in Len(returned) .. Len(list) :
            CutsInto(Stream, Lines, Len(returned), n) /\ n = next - 1
      BY <1>1, <1>3 DEF WireInv, Written
    <3>2. Stream' = Stream \o line
      <4>1. incoming \in Text /\ rio_buf \in Text /\ usrbuf \in Text
        BY DEF WireInv, WireTypes
      <4>2. usrbuf \o rio_buf \in Text
        BY <4>1, ConcatTexts
      <4> QED
        BY <2>1, <2>2, <4>1, <4>2, Regroup DEF Stream
    <3>3. Len(returned) \in Nat /\ Stream \in Text
      BY StreamParts DEF WireInv, WireTypes
    <3>4. n \in Nat /\ Len(returned) <= n /\ n < Len(Lines) /\ n + 1 = next
      BY <2>1, <3>1, <3>3
    <3>5. CutsInto(Stream \o line, Lines, Len(returned), next)
      BY <2>1, <3>1, <3>3, <3>4, CutsMore DEF line
    <3>6. next' \in Len(returned') .. Len(list')
      BY <1>1, <2>1, <2>2, <3>3, <3>4
    <3> QED
      BY <1>1, <1>3, <2>2, <2>3, <3>2, <3>5, <3>6 DEF Written
  <2> QED
    BY <2>3, <2>4, <2>5 DEF WireInv
<1> QED
  BY <1>2, <1>3 DEF WriteRequest, Ended

\* Taking a reply, whatever one read(2) returns of it, keeps the invariant.
LEMMA ReadReplyStep == ASSUME WireInv, ReadReply PROVE WireInv'
<1>1. client = "read" /\ UNCHANGED <<list, handled, session, clientfd>>
  BY DEF ReadReply, sessionVars
<1>2. /\ UNCHANGED <<incoming, rio_buf, usrbuf, calling, returned>>
      /\ \/ client' \in Ended
         \/ client' = "write" /\ next' = next + 1 /\ next # Len(list)
  <2>1. ASSUME NEW text, Takes(text)
        PROVE  \/ \E how \in Ended : Exits(how)
               \/ /\ client' = "write" /\ next' = next + 1 /\ next # Len(list)
                  /\ UNCHANGED rioVars
    <3> DEFINE m == decode(text)
    <3>1. CASE m = Invalid
      BY <2>1, <3>1 DEF Takes, Ended, Invalid, Message
    <3>2. CASE m # Invalid /\ m.type \in {"FAILED", "ERROR"}
      BY <2>1, <3>2 DEF Takes, Ended
    <3>3. CASE m # Invalid /\ m.type \notin {"FAILED", "ERROR"}
      <4>1. m.type # "invalid"
        <5>1. m = Message(TypeOf(text),
                     IF Words(text) = << >> THEN << >> ELSE Arguments(AfterType(text)))
          BY <3>3 DEF decode
        <5>2. TypeOf(text) \in TypeName
          BY DEF TypeOf, TypeName
        <5> QED
          BY <5>1, <5>2 DEF Message, TypeName, RequestType, ResponseType
      <4>2. next' = next + 1
        BY <2>1, <3>3, <4>1 DEF Takes
      <4>3. IF next = Len(list) THEN Exits("exit 0") ELSE client' = "write" /\ UNCHANGED rioVars
        BY <2>1, <3>3 DEF Takes
      <4> HIDE DEF m
      <4> QED
        BY <4>2, <4>3 DEF Ended
    <3> QED
      BY <3>1, <3>2, <3>3
  <2> QED
    BY <2>1, ProgramEnds DEF ReadReply, Ended, rioVars
<1>3. OneAtATime' /\ LinesAreRequests' /\ Decoded' /\ PartOfLine' 
  BY <1>1, <1>2, ReaderStays, EndedIsNoStage
<1>4. Written'
  BY <1>1, <1>2, WrittenStays
<1>5. WireTypes'
  <2>1. next \in 1 .. Len(list) /\ Len(list) \in Nat
    BY <1>1, LinesAreWhole DEF WireInv, WireTypes
  <2>2. client' = "write" => next' \in 1 .. Len(list)
    BY <1>2, <2>1, EndedIsNoStage
  <2> QED
    BY <1>1, <1>2, <2>2, EndedIsNoStage DEF WireInv, WireTypes
<1> QED
  BY <1>3, <1>4, <1>5 DEF WireInv

\* What the server does without its reader.
LEMMA OtherServerSteps ==
  ASSUME WireInv, Listen \/ rio_writen \/ Replied PROVE WireInv'
<1>1. UNCHANGED <<incoming, rio_buf, usrbuf, calling, returned, client, clientfd, list, next,
                  handled>>
  BY DEF Listen, rio_writen, Replied, rioVars, clientVars
<1>2. WireTypes' /\ Written'
  <2>1. session' \in {"idle", "reading", "writing", "over"}
    BY DEF Listen, rio_writen, Replied, WireInv, WireTypes
  <2>2. WireTypes'
    BY <1>1, <2>1 DEF WireInv, WireTypes
  <2>3. Written'
    BY <1>1, WrittenStays
  <2> QED
    BY <2>2, <2>3
<1>3. CASE Listen \/ rio_writen
  <2>1. session' = session \/ (session # "reading" /\ session' = "over")
    BY <1>3 DEF Listen, rio_writen
  <2> QED
    BY <1>1, <1>2, <2>1, ReaderStays DEF WireInv
<1>4. CASE Replied
  <2>1. /\ session = "writing" /\ handled # << >> /\ Len(handled) = Len(returned)
        /\ client # "start" /\ ~calling
    BY <1>4 DEF Replied, WireInv, OneAtATime
  <2>2. /\ Failed' = Failed /\ Lines' = Lines
        /\ LinesAreRequests' /\ Decoded' /\ PartOfLine'
    BY <1>1 DEF Failed, Lines, WireInv, LinesAreRequests, Decoded, PartOfLine
  <2>3. session' \in {"over", "reading"}
    BY <1>4 DEF Replied
  <2>4. ASSUME Failed PROVE session' = "over"
    <3>1. Len(handled) \in 1 .. Len(handled) /\ Last(handled) = handled[Len(handled)]
      BY <2>1, EmptySeq DEF WireInv, WireTypes, Last
    <3>2. Last(handled).request = Invalid /\ Last(handled).reply = ERROR
      BY <2>1, <2>4, <3>1 DEF WireInv, Decoded, Failed
    <3>3. Last(handled).request.type # "PUSH"
      BY <3>2 DEF Invalid, Message
    <3> QED
      BY <1>4, <3>2, <3>3 DEF Replied
  <2>5. OneAtATime'
    BY <1>1, <2>1, <2>2, <2>3, <2>4 DEF OneAtATime, WireInv
  <2> QED
    BY <1>2, <2>2, <2>5 DEF WireInv
<1> QED
  BY <1>3, <1>4

\* What becomes of a line that was read: it is decoded and answered.
LEMMA HandleStep == ASSUME WireInv, Handle PROVE WireInv'
<1> DEFINE k == Len(handled)
           line == Last(returned)
           m == IF line \in Marker THEN Invalid ELSE decode(line)
<1>1. PICK r \in IF Rejected(m) THEN {ERROR} ELSE Replies(m) :
        /\ handled' = Append(handled, [request |-> m, reply |-> r])
        /\ session' \in {"over", "writing"}
        /\ session = "reading" /\ Len(returned) > k
        /\ UNCHANGED <<incoming, rio_buf, usrbuf, calling, returned, client, clientfd, list, next>>
  BY DEF Handle, rioVars, clientVars, Marker
<1>2. /\ k \in Nat /\ Len(returned) = k + 1 /\ line = returned[k + 1] /\ ~calling
      /\ client # "start"
  <2>1. k \in Nat /\ Len(returned) \in Nat
    BY DEF WireInv, WireTypes
  <2> QED
    BY <1>1, <2>1 DEF WireInv, OneAtATime, Last
<1>3. m \in {decode(text) : text \in Text} \cup {Invalid}
  <2>1. line \in Text \cup Marker
    BY <1>2, ElementOfSeq DEF WireInv, WireTypes
  <2> QED
    BY <2>1
<1>4. line \in Marker => m = Invalid /\ r = ERROR
  <2>1. ASSUME line \in Marker PROVE m = Invalid /\ Rejected(m)
    <3>1. m = Invalid
      BY <2>1
    <3>2. m.type \notin RequestType
      BY <3>1 DEF Invalid, Message, RequestType
    <3> QED
      BY <3>1, <3>2 DEF Rejected
  <2> QED
    BY <1>1, <2>1
<1>5. line \notin Marker => m = decode(line)
  OBVIOUS
<1> HIDE DEF m, line
<1>6. r \in {Request("OK"), FAILED, ERROR, Invalid} \cup {Message("DATA", <<v>>) : v \in Values}
  <2>1. CASE Rejected(m)
    BY <1>1, <2>1
  <2>2. CASE ~Rejected(m)
    <3>1. m.type \in RequestType /\ r \in Replies(m)
      BY <1>1, <2>2 DEF Rejected
    <3> QED
      BY <3>1 DEF Replies, RequestType
  <2> QED
    BY <2>1, <2>2
<1>7. /\ handled' \in Seq(Exchange) /\ Len(handled') = k + 1
      /\ \A i \in 1 .. k : handled'[i] = handled[i]
      /\ handled'[k + 1].request = m /\ handled'[k + 1].reply = r
  <2> DEFINE exchange == [request |-> m, reply |-> r]
  <2>1. exchange \in Exchange /\ exchange.request = m /\ exchange.reply = r
    BY <1>3, <1>6 DEF Exchange
  <2> HIDE DEF exchange
  <2>2. handled \in Seq(Exchange) /\ handled' = Append(handled, exchange)
    BY <1>1 DEF WireInv, WireTypes, exchange
  <2> QED
    BY <2>1, <2>2, AppendProperties
<1> HIDE DEF k
<1>8. /\ Failed' = Failed /\ Lines' = Lines /\ LinesAreRequests' /\ PartOfLine' /\ Written'
  BY <1>1, WrittenStays DEF Failed, Lines, WireInv, LinesAreRequests, PartOfLine
<1>9. WireTypes'
  BY <1>1, <1>7 DEF WireInv, WireTypes
<1>10. Decoded'
  <2> SUFFICES ASSUME NEW i \in 1 .. Len(handled')
               PROVE  /\ returned[i] \notin Marker =>
                           handled'[i].request = decode(returned[i])
                      /\ returned[i] \in Marker =>
                           handled'[i].request = Invalid /\ handled'[i].reply = ERROR
    BY <1>1 DEF Decoded, Marker
  <2>1. CASE i = k + 1
    BY <1>2, <1>4, <1>5, <1>7, <2>1
  <2>2. CASE i # k + 1
    <3>1. i \in 1 .. k
      BY <1>2, <1>7, <2>2
    <3> QED
      BY <1>7, <3>1 DEF WireInv, Decoded, k
  <2> QED
    BY <2>1, <2>2
<1>11. OneAtATime'
  <2>1. handled' # << >>
    <3> SUFFICES ASSUME handled' = << >> PROVE FALSE
      OBVIOUS
    <3>1. Len(<< >>) = k + 1
      BY <1>7, Zenon
    <3> QED
      BY <1>2, <3>1, EmptySeq
  <2> QED
    BY <1>1, <1>2, <1>7, <1>8, <2>1 DEF OneAtATime, WireInv
<1> QED
  BY <1>8, <1>9, <1>10, <1>11 DEF WireInv

\* A call of rio_readlineb begins.
LEMMA CallStep ==
  ASSUME WireInv, session = "reading", Len(returned) = Len(handled), Reader!rio_readlineb,
         UNCHANGED <<client, clientfd, list, next, session, handled>>
  PROVE  WireInv'
<1>1. /\ calling' = TRUE /\ usrbuf' = << >> /\ usrbuf = << >>
      /\ UNCHANGED <<incoming, rio_buf, returned>>
  BY DEF Reader!rio_readlineb, WireInv, PartOfLine
<1>2. Failed' = Failed /\ Lines' = Lines /\ << >> \in Text /\ Len(<< >>) = 0
  BY <1>1 DEF Failed, Lines, Text
<1>3. WireTypes'
  BY <1>1, <1>2 DEF WireInv, WireTypes
<1>4. PartOfLine'
  BY <1>1, <1>2 DEF PartOfLine
<1>5. LinesAreRequests' /\ Decoded' /\ Written'
  BY <1>1, <1>2, WrittenStays DEF WireInv, LinesAreRequests, Decoded
<1>6. OneAtATime'
  BY <1>1, <1>2 DEF WireInv, OneAtATime
<1> QED
  BY <1>3, <1>4, <1>5, <1>6 DEF WireInv

\* The buffer is filled with a part of what has arrived.
LEMMA RefillStep ==
  ASSUME WireInv, Reader!Refill,
         UNCHANGED <<client, clientfd, list, next, session, handled>>
  PROVE  WireInv'
<1>1. PICK n \in 1 .. Len(incoming) :
        /\ rio_buf' = SubSeq(incoming, 1, n)
        /\ incoming' = SubSeq(incoming, n + 1, Len(incoming))
        /\ rio_buf = << >> /\ UNCHANGED <<usrbuf, calling, returned>>
  BY DEF Reader!Refill
<1>2. incoming \in Text /\ usrbuf \in Text /\ Len(incoming) \in Nat
  BY DEF WireInv, WireTypes, Text
<1>3. rio_buf' \in Text /\ incoming' \in Text /\ rio_buf' \o incoming' = incoming
  <2>1. CASE n = Len(incoming)
    <3>1. SubSeq(incoming, 1, n) = incoming /\ incoming' = << >> /\ << >> \in Text
      BY <1>1, <1>2, <2>1 DEF Text
    <3> QED
      BY <1>1, <1>2, <3>1 DEF Text
  <2>2. CASE n # Len(incoming)
    <3> DEFINE cut == n + 1
    <3>1. cut \in 1 .. Len(incoming) /\ n = cut - 1
      BY <1>2, <2>2
    <3> HIDE DEF cut
    <3> QED
      BY <1>1, <1>2, <3>1, CutText DEF cut
  <2> QED
    BY <2>1, <2>2
<1>4. Stream' = Stream /\ Lines' = Lines /\ Failed' = Failed
  <2>1. Stream = usrbuf \o incoming
    BY <1>1, <1>2 DEF Stream, Text
  <2>2. Stream' = usrbuf \o (rio_buf' \o incoming')
    BY <1>1, <1>2, <1>3, Regroup DEF Stream
  <2> QED
    BY <1>1, <1>3, <2>1, <2>2 DEF Lines, Failed
<1>5. WireTypes'
  BY <1>1, <1>3 DEF WireInv, WireTypes
<1>6. OneAtATime' /\ LinesAreRequests' /\ Decoded' /\ PartOfLine'
  BY <1>1, ReaderStays
<1>7. Written'
  BY <1>1, <1>4 DEF WireInv, Written
<1> QED
  BY <1>5, <1>6, <1>7 DEF WireInv

\* A call returns: a request, or that there is none.
LEMMA ReturnStep ==
  ASSUME WireInv, ~Failed, Len(returned) = Len(handled), session = "reading",
         NEW text, text \in Text \cup Marker, returned' = Append(returned, text),
         calling' = FALSE, usrbuf' = << >>, rio_buf' \in Text, incoming' \in Text,
         UNCHANGED <<client, clientfd, list, next, session, handled>>,
         text \in Marker \/
           (Len(returned) + 1 \in 1 .. Len(list) /\ text = Lines[Len(returned) + 1]),
         text \notin Marker => Written'
  PROVE  WireInv'
<1> DEFINE k == Len(returned)
<1>1. returned \in Seq(Text \cup Marker) /\ k \in Nat
  BY DEF WireInv, WireTypes
<1>2. /\ returned' \in Seq(Text \cup Marker) /\ Len(returned') = k + 1
      /\ \A i \in 1 .. k : returned'[i] = returned[i]
      /\ returned'[k + 1] = text
  BY <1>1, AppendProperties
<1>3. Failed' <=> text \in Marker
  <2>1. returned' # << >>
    BY <1>1
  <2> QED
    BY <1>2, <2>1 DEF Failed, Marker
<1>4. Lines' = Lines /\ client # "start"
  BY DEF Lines, WireInv, OneAtATime
<1> HIDE DEF k
<1>5. WireTypes'
  <2>1. << >> \in Text
    BY DEF Text
  <2> QED
    BY <1>2, <2>1 DEF WireInv, WireTypes, Marker
<1>6. PartOfLine'
  BY EmptySeq DEF PartOfLine
<1>7. OneAtATime'
  BY <1>1, <1>2, <1>3, <1>4 DEF WireInv, OneAtATime, k
<1>8. LinesAreRequests'
  <2> SUFFICES ASSUME NEW i \in 1 .. k + 1
               PROVE  \/ i <= Len(list) /\ returned'[i] = Lines[i]
                      \/ i = k + 1 /\ returned'[i] \in Marker
    BY <1>2, <1>4 DEF LinesAreRequests, Marker
  <2>1. CASE i = k + 1
    BY <1>1, <1>2, <2>1 DEF k
  <2>2. CASE i # k + 1
    <3>1. i \in 1 .. k
      BY <1>1, <2>2
    <3>2. k \in 1 .. k /\ (i = k => returned # << >>)
      BY <1>1, <3>1, EmptySeq DEF k
    <3>3. ~(i = k /\ returned[i] \in Marker)
      BY <3>2 DEF Failed, k
    <3> QED
      BY <1>2, <3>1, <3>3 DEF WireInv, LinesAreRequests, k
  <2> QED
    BY <2>1, <2>2
<1>9. Decoded'
  <2> SUFFICES ASSUME NEW i \in 1 .. Len(handled)
               PROVE  /\ returned'[i] \notin Marker =>
                           handled[i].request = decode(returned'[i])
                      /\ returned'[i] \in Marker =>
                           handled[i].request = Invalid /\ handled[i].reply = ERROR
    BY DEF Decoded, Marker
  <2>1. returned'[i] = returned[i]
    BY <1>2 DEF k
  <2> QED
    BY <2>1 DEF WireInv, Decoded
<1>10. Written'
  <2>1. CASE text \in Marker
    BY <1>3, <2>1 DEF Written
  <2>2. CASE text \notin Marker
    BY <2>2
  <2> QED
    BY <2>1, <2>2
<1> QED
  BY <1>5, <1>6, <1>7, <1>8, <1>9, <1>10 DEF WireInv

\* A call is only in progress while the session waits for its next request.
LEMMA CallInProgress ==
  ASSUME WireInv, calling
  PROVE  session = "reading" /\ Len(returned) = Len(handled) /\ ~Failed
BY DEF WireInv, OneAtATime

\* At the end of the stream nothing of a request is left over.
LEMMA RefillEndStep ==
  ASSUME WireInv, Reader!RefillEnd,
         UNCHANGED <<client, clientfd, list, next, session, handled>>
  PROVE  WireInv'
<1>1. /\ calling /\ rio_buf = << >> /\ incoming = << >> /\ calling' = FALSE /\ usrbuf' = << >>
      /\ returned' = Append(returned, IF usrbuf = << >> THEN EndOfFile ELSE usrbuf)
      /\ UNCHANGED <<incoming, rio_buf>>
  BY DEF Reader!RefillEnd, Reader!Return
<1>2. session = "reading" /\ Len(returned) = Len(handled) /\ ~Failed
  BY <1>1, CallInProgress
<1>3. usrbuf = << >>
  <2> SUFFICES ASSUME usrbuf # << >> PROVE FALSE
    OBVIOUS
  <2>1. /\ Len(Stream) = Len(usrbuf) + 0 + 0 /\ Len(usrbuf) \in Nat \ {0}
    BY <1>1, StreamParts, EmptySeq DEF WireInv, WireTypes, Text
  <2>2. Stream # << >>
    BY <2>1, EmptySeq
  <2>3. Len(Lines[Len(returned) + 1]) \in 1 .. Len(Stream)
        /\ Len(usrbuf) < Len(Lines[Len(returned) + 1])
    BY <1>2, <2>2, NextLine
  <2> QED
    BY <2>1, <2>3
<1>4. returned' = Append(returned, EndOfFile)
  BY <1>1, <1>3
<1>5. /\ EndOfFile \in Marker /\ rio_buf' \in Text /\ incoming' \in Text
  BY <1>1 DEF Marker, WireInv, WireTypes
<1> QED
  BY <1>1, <1>2, <1>4, <1>5, ReturnStep

\* A read that fails.
LEMMA RefillFailsStep ==
  ASSUME WireInv, Reader!RefillFails,
         UNCHANGED <<client, clientfd, list, next, session, handled>>
  PROVE  WireInv'
<1>1. /\ calling /\ calling' = FALSE /\ usrbuf' = << >>
      /\ returned' = Append(returned, ReadError)
      /\ UNCHANGED <<incoming, rio_buf>>
  BY DEF Reader!RefillFails, Reader!Return
<1>2. session = "reading" /\ Len(returned) = Len(handled) /\ ~Failed
  BY <1>1, CallInProgress
<1>3. /\ ReadError \in Marker /\ rio_buf' \in Text /\ incoming' \in Text
  BY <1>1 DEF Marker, WireInv, WireTypes
<1> QED
  BY <1>1, <1>2, <1>3, ReturnStep

\* A byte is copied: it is the next of the request, and ends the call exactly
\* if it is the newline, because the request fits the buffer.
LEMMA CopyByteStep ==
  ASSUME WireInv, Reader!CopyByte,
         UNCHANGED <<client, clientfd, list, next, session, handled>>
  PROVE  WireInv'
<1> DEFINE byte == Head(rio_buf)
           copied == Append(usrbuf, byte)
           k == Len(returned)
           line == Lines[k + 1]
<1>1. /\ calling /\ rio_buf # << >> /\ rio_buf' = Tail(rio_buf) /\ incoming' = incoming
      /\ \/ /\ byte = Newline \/ Len(copied) = MaxLen - 1
            /\ calling' = FALSE /\ usrbuf' = << >> /\ returned' = Append(returned, copied)
         \/ /\ byte # Newline /\ Len(copied) # MaxLen - 1
            /\ usrbuf' = copied /\ calling' = calling /\ returned' = returned
  BY DEF Reader!CopyByte, Reader!Return
<1>2. session = "reading" /\ Len(returned) = Len(handled) /\ ~Failed
  BY <1>1, CallInProgress
<1>3. /\ incoming \in Text /\ rio_buf \in Text /\ usrbuf \in Text
      /\ byte \in Piece /\ Tail(rio_buf) \in Text /\ rio_buf = <<byte>> \o Tail(rio_buf)
      /\ <<byte>> \in Text
  <2>1. incoming \in Text /\ rio_buf \in Text /\ usrbuf \in Text
    BY DEF WireInv, WireTypes
  <2> QED
    BY <1>1, <2>1 DEF Text
<1>4. /\ copied \in Text /\ Len(copied) = Len(usrbuf) + 1 /\ Len(usrbuf) \in Nat
      /\ \A i \in 1 .. Len(usrbuf) : copied[i] = usrbuf[i]
      /\ copied[Len(usrbuf) + 1] = byte /\ copied = usrbuf \o <<byte>>
  <2> HIDE DEF byte
  <2>1. /\ copied \in Text /\ Len(copied) = Len(usrbuf) + 1
        /\ \A i \in 1 .. Len(usrbuf) : copied[i] = usrbuf[i]
    BY <1>3, AppendToText
  <2>2. Len(usrbuf) \in Nat /\ copied[Len(usrbuf) + 1] = byte
    BY <1>3 DEF Text
  <2>3. copied = usrbuf \o <<byte>>
    BY <1>3, AppendIsConcat DEF Text
  <2> QED
    BY <2>1, <2>2, <2>3
<1>5. /\ Stream \in Text /\ Stream # << >> /\ Stream[Len(usrbuf) + 1] = byte
      /\ \A i \in 1 .. Len(usrbuf) : Stream[i] = usrbuf[i]
  <2>1. /\ Len(Stream) = Len(usrbuf) + Len(rio_buf) + Len(incoming)
        /\ Len(rio_buf) \in Nat \ {0} /\ Len(incoming) \in Nat
    BY <1>1, StreamParts, EmptySeq DEF WireInv, WireTypes, Text
  <2>2. Stream # << >>
    BY <1>4, <2>1, EmptySeq
  <2> QED
    BY <1>1, <2>2, StreamParts DEF WireInv
<1>6. /\ k + 1 \in 1 .. Len(list) /\ Len(line) \in 1 .. Len(Stream)
      /\ Len(usrbuf) < Len(line)
      /\ \A j \in 1 .. Len(line) : Stream[j] = line[j]
  BY <1>2, <1>5, NextLine
<1>7. /\ line \in Text /\ Len(line) < MaxLen /\ MaxLen \in Nat
      /\ \A j \in 1 .. Len(line) : line[j] = Newline <=> j = Len(line)
  BY <1>6, LinesAreWhole, WireAssumption DEF WireInv, WireTypes
<1>8. Stream = copied \o (Tail(rio_buf) \o incoming)
  <2> DEFINE rest == Tail(rio_buf)
             first == <<byte>>
  <2>1. /\ rest \in Text /\ incoming \in Text /\ usrbuf \in Text /\ first \in Text
        /\ rio_buf = first \o rest /\ copied = usrbuf \o first
    BY <1>3, <1>4
  <2> HIDE DEF rest, first, copied
  <2>2. Stream = (usrbuf \o (first \o rest)) \o incoming
    BY <2>1 DEF Stream
  <2>3. usrbuf \o (first \o rest) = (usrbuf \o first) \o rest
    BY <2>1, Regroup
  <2>4. copied \in Text
    BY <2>1, ConcatTexts
  <2>5. (copied \o rest) \o incoming = copied \o (rest \o incoming)
    BY <2>1, <2>4, Regroup
  <2> QED
    BY <2>1, <2>2, <2>3, <2>5 DEF rest
<1> HIDE DEF byte, copied, line, k
<1>9. Stream[Len(usrbuf) + 1] = line[Len(usrbuf) + 1] /\ Len(usrbuf) + 1 \in 1 .. Len(line)
  BY <1>4, <1>6, <1>7
<1>10. byte = Newline <=> Len(copied) = Len(line)
  BY <1>4, <1>5, <1>7, <1>9
<1>11. rio_buf' \in Text /\ incoming' \in Text
  BY <1>1, <1>3
<1>12. CASE byte = Newline \/ Len(copied) = MaxLen - 1
  <2>1. Len(copied) = Len(line)
    BY <1>4, <1>6, <1>7, <1>9, <1>10, <1>12 DEF Text
  <2>2. copied = line
    <3>1. \A i \in 1 .. Len(line) : copied[i] = line[i]
      BY <1>4, <1>5, <1>6, <1>9, <2>1
    <3> QED
      BY <1>4, <1>7, <2>1, <3>1, SeqEqual DEF Text
  <2>3. /\ calling' = FALSE /\ usrbuf' = << >> /\ returned' = Append(returned, copied)
    BY <1>1, <1>4, <1>7, <1>9, <1>10, <1>12, <2>1
  <2>4. Written'
    <3>1. PICK n \in k .. Len(list) :
            /\ CutsInto(Stream, Lines, k, n)
            /\ client = "start" => n = 0 /\ next = 1
            /\ client = "write" /\ clientfd = 0 => n = next - 1
            /\ client = "read" => n = next
      BY <1>2 DEF WireInv, Written, k
    <3>2. /\ NotEmpty(Lines) /\ Len(Lines) = Len(list) /\ k \in Nat /\ Len(list) \in Nat
      BY LinesAreWhole DEF WireInv, WireTypes, k
    <3>3. k < n /\ CutsInto(SubSeq(Stream, Len(line) + 1, Len(Stream)), Lines, k + 1, n)
      <4>1. n \in Nat /\ k <= n /\ n <= Len(Lines)
        BY <3>1, <3>2
      <4> QED
        BY <1>5, <3>1, <3>2, <4>1, CutsFirst DEF line
    <3>4. Stream' = SubSeq(Stream, Len(line) + 1, Len(Stream))
      <4> DEFINE rest == Tail(rio_buf) \o incoming
      <4>1. rest \in Text /\ copied \in Text /\ Stream = copied \o rest
        BY <1>3, <1>4, <1>8, ConcatTexts
      <4> HIDE DEF rest
      <4>2. SubSeq(Stream, Len(copied) + 1, Len(Stream)) = rest
        BY <4>1 DEF Text
      <4>3. Stream' = rest
        BY <1>1, <1>3, <2>3 DEF Stream, rest, Text
      <4> QED
        BY <2>1, <4>2, <4>3
    <3>5. Len(returned') = k + 1 /\ Lines' = Lines
      BY <2>3, AppendProperties DEF Lines, k, WireInv, WireTypes, Text
    <3>6. n \in Len(returned') .. Len(list')
      BY <3>1, <3>2, <3>3, <3>5
    <3> QED
      BY <3>1, <3>3, <3>4, <3>5, <3>6 DEF Written
  <2>5. copied \in Text \cup Marker /\ Len(returned) + 1 \in 1 .. Len(list)
        /\ copied = Lines[Len(returned) + 1]
    BY <1>4, <1>6, <2>2 DEF line, k
  <2> QED
    BY <1>2, <1>11, <2>3, <2>4, <2>5, ReturnStep
<1>13. CASE byte # Newline /\ Len(copied) # MaxLen - 1
  <2>1. usrbuf' = copied /\ UNCHANGED <<calling, returned>>
    BY <1>1, <1>13
  <2>2. Stream' = Stream /\ Lines' = Lines /\ Failed' = Failed
    <3>1. Stream' = (copied \o Tail(rio_buf)) \o incoming
      BY <1>1, <2>1 DEF Stream
    <3>2. (copied \o Tail(rio_buf)) \o incoming = copied \o (Tail(rio_buf) \o incoming)
      <4>1. copied \in Text /\ Tail(rio_buf) \in Text /\ incoming \in Text
        BY <1>3, <1>4
      <4> QED
        BY <4>1, Regroup, Zenon
    <3>3. Stream' = Stream
      BY <1>8, <3>1, <3>2
    <3> QED
      BY <2>1, <3>3 DEF Lines, Failed
  <2>3. WireTypes'
    BY <1>4, <1>11, <2>1 DEF WireInv, WireTypes
  <2>4. PartOfLine'
    <3>1. \A i \in 1 .. Len(copied) : copied[i] # Newline
      <4> SUFFICES ASSUME NEW i \in 1 .. Len(copied) PROVE copied[i] # Newline
        OBVIOUS
      <4>1. i \in 1 .. Len(usrbuf) \/ i = Len(usrbuf) + 1
        BY <1>4
      <4>2. \A j \in 1 .. Len(usrbuf) : usrbuf[j] # Newline
        BY DEF WireInv, PartOfLine
      <4> QED
        BY <1>4, <1>13, <4>1, <4>2
    <3> QED
      BY <1>1, <2>1, <3>1 DEF PartOfLine
  <2>5. OneAtATime' /\ LinesAreRequests' /\ Decoded'
    BY <2>1, <2>2 DEF WireInv, OneAtATime, LinesAreRequests, Decoded
  <2>6. Written'
    BY <2>1, <2>2 DEF WireInv, Written
  <2> QED
    BY <2>3, <2>4, <2>5, <2>6 DEF WireInv
<1> QED
  BY <1>12, <1>13

\* The invariant holds at the start ...
LEMMA WireStart == WireInit => WireInv
<1> SUFFICES ASSUME WireInit PROVE WireInv
  OBVIOUS
<1>1. /\ incoming = << >> /\ rio_buf = << >> /\ usrbuf = << >> /\ calling = FALSE
      /\ returned = << >> /\ handled = << >> /\ session = "idle"
      /\ client = "start" /\ list \in Programs /\ next = 1
  BY DEF WireInit, Reader!RioInit, Reader!rio_readinitb
<1>2. << >> \in Text /\ Len(<< >>) = 0
  BY DEF Text
<1>3. Len(list) \in Nat \ {0}
  BY <1>1, LinesAreWhole
<1>4. WireTypes
  <2>1. << >> \in Seq(Text \cup Marker) /\ << >> \in Seq(Exchange) /\ 1 \in 1 .. Len(list)
    BY <1>3, EmptySeq
  <2> QED
    BY <1>1, <1>2, <2>1 DEF WireTypes
<1>5. ~Failed /\ Stream = << >>
  BY <1>1, <1>2 DEF Failed, Stream
<1>6. Written
  <2>1. 0 \in Len(returned) .. Len(list) /\ Len(returned) = 0
    BY <1>1, <1>2, <1>3
  <2>2. CutsInto(Stream, Lines, 0, 0)
    BY <1>5, CutsNothing
  <2> QED
    BY <1>1, <2>1, <2>2 DEF Written
<1>7. OneAtATime /\ LinesAreRequests /\ Decoded /\ PartOfLine
  BY <1>1, <1>2, <1>5 DEF OneAtATime, LinesAreRequests, Decoded, PartOfLine
<1> QED
  BY <1>4, <1>6, <1>7 DEF WireInv

\* ... and after every step.
LEMMA WireStep == WireInv /\ [WireNext]_wireVars => WireInv'
<1> SUFFICES ASSUME WireInv, [WireNext]_wireVars PROVE WireInv'
  OBVIOUS
<1>1. ASSUME ReadLine \/ ReadFails PROVE WireInv'
  <2>1. session = "reading" /\ UNCHANGED <<client, clientfd, list, next, session, handled>>
    BY <1>1 DEF ReadLine, ReadFails, clientVars, sessionVars
  <2>2. \/ Len(returned) = Len(handled) /\ Reader!rio_readlineb
        \/ Reader!Refill \/ Reader!RefillEnd \/ Reader!CopyByte \/ Reader!RefillFails
    BY <1>1 DEF ReadLine, ReadFails
  <2> QED
    BY <2>1, <2>2, CallStep, RefillStep, RefillEndStep, CopyByteStep, RefillFailsStep
<1>2. CASE UNCHANGED wireVars
  <2>1. UNCHANGED <<incoming, rio_buf, usrbuf, calling, returned, client, clientfd, list, next,
                    session, handled>>
    BY <1>2 DEF wireVars, rioVars, clientVars, sessionVars
  <2>2. WireTypes'
    BY <2>1 DEF WireInv, WireTypes
  <2>3. OneAtATime' /\ LinesAreRequests' /\ Decoded' /\ PartOfLine' /\ Written'
    BY <2>1, ReaderStays, WrittenStays
  <2> QED
    BY <2>2, <2>3 DEF WireInv
<1> QED
  BY <1>1, <1>2, ConnectStep, WriteRequestStep, ReadReplyStep, OtherServerSteps, HandleStep
     DEF WireNext, ProgramStep, ServerStep

\* WireInv is inductive, so it holds in every reachable state.
LEMMA WireHolds == WireSpec => []WireInv
BY WireStart, WireStep, PTL DEF WireSpec

\* HANDLED AS SENT: for any list of requests that fit the buffers, and however
\* the stream is cut, the session decodes each of them whole, in the order in
\* which they were sent, and nothing else, until the connection ends or fails
\* (csapp.c:811-899, client_connection.cpp:61-77).
THEOREM RequestsAreHandledAsSent == WireSpec => []HandledAsSent
<1>1. WireInv => HandledAsSent
  <2> SUFFICES ASSUME WireInv, NEW i \in 1 .. Len(handled)
               PROVE  \/ i <= Len(list) /\ handled[i].request = decode(Spelled(list[i]))
                      \/ /\ i = Len(handled) /\ handled[i].request = Invalid
                         /\ returned[i] \in Marker
    BY DEF HandledAsSent, Marker
  <2>1. /\ Len(handled) \in Nat /\ Len(returned) \in Nat /\ Len(handled) <= Len(returned)
        /\ list \in Programs
    BY DEF WireInv, WireTypes, OneAtATime
  <2>2. i \in 1 .. Len(returned)
    BY <2>1
  <2>3. CASE returned[i] \in Marker
    <3>1. handled[i].request = Invalid
      BY <2>3 DEF WireInv, Decoded
    <3>2. i = Len(returned)
      <4> SUFFICES ASSUME i <= Len(list), returned[i] = Lines[i] PROVE FALSE
        BY <2>2 DEF WireInv, LinesAreRequests
      <4>1. i \in 1 .. Len(list)
        BY <2>1, LinesAreWhole
      <4>2. Lines[i] \in Text
        BY <2>1, <4>1, LinesAreWhole
      <4> QED
        BY <2>3, <4>2, WireAssumption DEF Marker, Text
    <3> QED
      BY <2>1, <2>3, <3>1, <3>2
  <2>4. CASE returned[i] \notin Marker
    <3>1. i <= Len(list) /\ returned[i] = Lines[i]
      BY <2>2, <2>4 DEF WireInv, LinesAreRequests
    <3>2. Lines[i] = Spelled(list[i])
      BY <2>1, <3>1, LinesAreWhole
    <3> QED
      BY <2>4, <3>1, <3>2 DEF WireInv, Decoded
  <2> QED
    BY <2>3, <2>4
<1> QED
  BY <1>1, WireHolds, PTL

-----------------------------------------------------------------------------
(* The program takes what the session has answered.                        *)

\* The only newline of the text, if it has one, is at its end.
OneLine(text) == \A j \in 1 .. Len(text) : text[j] = Newline => j = Len(text)

\* Nothing in the text can be taken for a DATA.
NoData(text) == \A i \in 1 .. Len(text) : text[i] # "DATA"

ReplyText(reply) == IF reply = Invalid THEN << >> ELSE Spelled(reply)
Pending == answers \o outgoing

\* The first n exchanges were neither refused nor failed, and a value that was
\* asked for is the one given.
Served(n, exchanges, value) ==
  /\ n <= Len(exchanges)
  /\ \A i \in 1 .. n :
       LET reply == exchanges[i].reply
       IN  /\ reply.type \in {"OK", "DATA"}
           /\ reply.type = "DATA" => Words(get_value(reply)) = <<value>>

\* What is on its way to the program: nothing yet, or the reply to the request
\* it is at; after a failed read that ERROR too, which the program may have
\* taken for a part of the reply before.
InTurn ==
  \/ Len(handled) = next - 1 /\ Pending = << >>
  \/ /\ Len(handled) = next /\ Pending = ReplyText(handled[next].reply)
     /\ client = "write" => returned[next] \in Marker
  \/ Len(handled) = next /\ Pending = << >> /\ returned[next] \in Marker
  \/ /\ Len(handled) = next + 1 /\ client = "read" /\ returned[next + 1] \in Marker
     /\ Pending = ReplyText(handled[next].reply) \o Spelled(ERROR)

ReplyTypes ==
  /\ answers \in Text /\ outgoing \in Text
  /\ session # "writing" => outgoing = << >>
  /\ clientfd # 0 => session \in {"idle", "over"}
  /\ client = "start" => answers = << >> /\ outgoing = << >>
  /\ \A i \in 1 .. Len(handled) :
       handled[i].reply.type = "DATA" => handled[i].request.type = "TOP"

RepliesInTurn ==
  /\ client \in {"write", "read"} => Served(next - 1, handled, result)
  /\ client = "exit 0" => Served(Len(list) - 1, handled, result)
  /\ client \in {"write", "read"} /\ next < Len(list) => InTurn
  /\ client \in {"write", "read"} /\ next = Len(list) => NoData(Pending)

\* Texts that are cut at the same place have the same parts.
LEMMA SameParts ==
  ASSUME NEW s \in Text, NEW t \in Text, NEW u \in Text, NEW v \in Text,
         s \o t = u \o v, Len(s) = Len(u)
  PROVE  s = u /\ t = v
<1>1. /\ Len(s) \in Nat /\ Len(t) \in Nat /\ Len(v) \in Nat
      /\ Len(s \o t) = Len(s) + Len(t) /\ Len(u \o v) = Len(u) + Len(v)
      /\ \A i \in 1 .. Len(s) : (s \o t)[i] = s[i]
      /\ \A i \in 1 .. Len(t) : (s \o t)[Len(s) + i] = t[i]
      /\ \A i \in 1 .. Len(u) : (u \o v)[i] = u[i]
      /\ \A i \in 1 .. Len(v) : (u \o v)[Len(u) + i] = v[i]
  BY ConcatTexts
<1>2. Len(t) = Len(v)
  BY <1>1
<1>3. \A i \in 1 .. Len(s) : s[i] = u[i]
  BY <1>1
<1>4. \A i \in 1 .. Len(t) : t[i] = v[i]
  BY <1>1, <1>2
<1> QED
  BY <1>2, <1>3, <1>4, SeqEqual DEF Text

\* Three sequences of two, three and one, put together.
LEMMA SixPieces ==
  ASSUME NEW S, NEW a \in S, NEW b \in S, NEW c \in S, NEW d \in S, NEW e \in S, NEW f \in S
  PROVE  <<a, b>> \o <<c, d, e>> \o <<f>> = <<a, b, c, d, e, f>>
<1> DEFINE s == <<a, b>> \o <<c, d, e>> \o <<f>>
           t == <<a, b, c, d, e, f>>
<1>1. s \in Seq(S) /\ t \in Seq(S) /\ Len(s) = 6 /\ Len(t) = 6
  OBVIOUS
<1>2. s[1] = t[1] /\ s[2] = t[2] /\ s[3] = t[3]
  OBVIOUS
<1>3. s[4] = t[4] /\ s[5] = t[5] /\ s[6] = t[6]
  OBVIOUS
<1> HIDE DEF s, t
<1>4. \A i \in 1 .. 6 : s[i] = t[i]
  BY <1>2, <1>3
<1>5. s = t
  BY <1>1, <1>4
<1> QED
  BY <1>5 DEF s, t

\* What follows a failed read.
LEMMA ErrorText ==
  /\ Spelled(ERROR) = <<"ERROR", Space, "a", Space, "a", Newline>>
  /\ Spelled(ERROR) \in Text /\ Len(Spelled(ERROR)) = 6
  /\ \A i \in 1 .. 6 : /\ Spelled(ERROR)[i] # "DATA"
                       /\ Spelled(ERROR)[i] = Newline => i = 6
<1> DEFINE value == <<"a", Space, "a">>
<1>1. "ERROR" \in TypeName /\ value \in Text
  BY Pieces, WireAssumption DEF TypeName, ResponseType, Text, Piece
<1>2. Spelled(ERROR) = <<"ERROR", Space>> \o value \o <<Newline>>
  BY <1>1, SpelledWithOne DEF ERROR
<1>3. "ERROR" \in Piece /\ Space \in Piece /\ "a" \in Piece /\ Newline \in Piece
  BY Pieces, WireAssumption DEF TypeName, ResponseType, Piece
<1> DEFINE text == <<"ERROR", Space, "a", Space, "a", Newline>>
<1>4. Spelled(ERROR) = text
  <2>1. <<"ERROR", Space>> \o <<"a", Space, "a">> \o <<Newline>> = text
    BY <1>3, SixPieces, SMT
  <2>2. Spelled(ERROR) = <<"ERROR", Space>> \o <<"a", Space, "a">> \o <<Newline>>
    BY <1>2, Zenon
  <2> QED
    BY <2>1, <2>2, Zenon
<1>5. text \in Text /\ Len(text) = 6
  BY <1>3 DEF Text
<1>6. /\ text[1] # "DATA" /\ text[2] # "DATA" /\ text[3] # "DATA"
      /\ text[4] # "DATA" /\ text[5] # "DATA" /\ text[6] # "DATA"
  <2>1. "a" # "DATA" /\ Space # "DATA" /\ Newline # "DATA" /\ "ERROR" # "DATA"
    BY DEF Space, Newline
  <2> QED
    BY <2>1
<1>7. /\ text[1] # Newline /\ text[2] # Newline /\ text[3] # Newline
      /\ text[4] # Newline /\ text[5] # Newline
  <2>1. "a" # Newline /\ Space # Newline /\ "ERROR" # Newline
    BY DEF Space, Newline
  <2> QED
    BY <2>1
<1> HIDE DEF text
<1>8. \A i \in 1 .. 6 : text[i] # "DATA" /\ (text[i] = Newline => i = 6)
  BY <1>6, <1>7
<1> QED
  BY <1>4, <1>5, <1>8 DEF text

\* It is not one word.
LEMMA ErrorIsWords == Len(Words(Spelled(ERROR))) >= 2
<1> DEFINE first == <<"ERROR">>
           rest == <<"a", Space, "a", Newline>>
<1>1. first \in Text /\ rest \in Text /\ Spelled(ERROR) = first \o <<Space>> \o rest
  <2>1. {"ERROR", Space, "a", Newline} \subseteq Piece
    BY Pieces, WireAssumption DEF TypeName, ResponseType, Piece
  <2> QED
    BY <2>1, ErrorText DEF Text
<1>2. ~Blank(first) /\ ~Blank(rest)
  <2>1. first[1] \notin Whitespace /\ rest[1] \notin Whitespace
    BY DEF Whitespace, Space, Tab, Newline
  <2>2. 1 \in 1 .. Len(first) /\ 1 \in 1 .. Len(rest)
    OBVIOUS
  <2> QED
    BY <2>1, <2>2 DEF Blank
<1> HIDE DEF first, rest
<1>3. Words(first) # << >> /\ Words(rest) # << >>
  BY <1>1, <1>2, WordsOfBlank
<1>4. Words(Spelled(ERROR)) = Words(first) \o Words(rest)
  BY <1>1, Pieces, WordsApart
<1>5. Words(first) \in Seq(Text) /\ Words(rest) \in Seq(Text)
  BY <1>1, WordsAreTexts
<1>6. /\ Len(Words(first)) \in Nat \ {0} /\ Len(Words(rest)) \in Nat \ {0}
  BY <1>3, <1>5, EmptySeq
<1> QED
  BY <1>4, <1>5, <1>6

\* Where a text that is taken from a reply and decoded can end: at the newline
\* of the value, of the reply, or of an ERROR that follows it.
LEMMA EndsAtNewline ==
  ASSUME NEW taken \in Text, NEW left \in Text, NEW value \in Text, NEW more \in Text,
         more = << >> \/ more = Spelled(ERROR),
         taken # << >>, taken[Len(taken)] = Newline,
         taken \o left = value \o <<Newline>> \o more,
         OneLine(value)
  PROVE  \/ taken = value /\ value # << >> /\ left = <<Newline>> \o more
         \/ taken = value \o <<Newline>> /\ left = more
         \/ taken = value \o <<Newline>> \o more /\ more = Spelled(ERROR) /\ left = << >>
<1> DEFINE line == value \o <<Newline>>
           all == line \o more
           k == Len(taken)
<1>1. << >> \in Text /\ <<Newline>> \in Text
  BY Pieces DEF Text, Piece
<1>2. line \in Text /\ all \in Text
  BY <1>1, ConcatTexts
<1>3. /\ Len(value) \in Nat /\ Len(line) = Len(value) + 1
      /\ Len(all) = Len(line) + Len(more)
      /\ \A i \in 1 .. Len(line) : all[i] = line[i]
      /\ \A i \in 1 .. Len(more) : all[Len(line) + i] = more[i]
      /\ \A i \in 1 .. Len(value) : line[i] = value[i]
  <2>1. Len(<<Newline>>) = 1
    OBVIOUS
  <2> HIDE DEF all
  <2>2. /\ Len(value) \in Nat /\ Len(line) = Len(value) + 1
        /\ \A i \in 1 .. Len(value) : line[i] = value[i]
    BY <1>1, <2>1, ConcatTexts
  <2> HIDE DEF line
  <2> QED
    BY <1>2, <2>2, ConcatTexts DEF all
<1>4. Len(more) = 0 \/ (Len(more) = 6 /\ more = Spelled(ERROR))
  BY ErrorText, EmptySeq
<1>5. k \in 1 .. Len(all) /\ all[k] = Newline /\ Len(left) \in Nat /\ Len(left) = Len(all) - k
  <2>1. k \in Nat \ {0} /\ Len(left) \in Nat
    BY EmptySeq DEF Text
  <2>2. Len(taken \o left) = k + Len(left) /\ \A i \in 1 .. k : (taken \o left)[i] = taken[i]
    BY ConcatTexts
  <2>3. taken \o left = all
    OBVIOUS
  <2> HIDE DEF all
  <2> QED
    BY <2>1, <2>2, <2>3 DEF k
<1>6. all = taken \o left /\ all = value \o (<<Newline>> \o more) /\ all = line \o more
  <2>1. all = value \o (<<Newline>> \o more)
    BY <1>1, Regroup, ZenonT(40)
  <2> QED
    BY <2>1
<1>7. <<Newline>> \o more \in Text
  BY <1>1, ConcatTexts
<1> HIDE DEF all, line, k
<1>8. CASE k <= Len(value)
  <2>1. k \in 1 .. Len(value)
    BY <1>3, <1>5, <1>8
  <2>2. k \in 1 .. Len(line)
    BY <1>3, <2>1
  <2>3. value[k] = Newline
    BY <1>3, <1>5, <2>1, <2>2
  <2>4. k = Len(value) /\ value # << >>
    BY <2>1, <2>3, EmptySeq DEF OneLine
  <2>5. taken \o left = value \o (<<Newline>> \o more)
    BY <1>6, Zenon
  <2>6. Len(taken) = Len(value)
    BY <2>4 DEF k
  <2>7. taken = value /\ left = <<Newline>> \o more
    <3> DEFINE u == <<Newline>> \o more
    <3>1. taken \in Text /\ left \in Text /\ value \in Text /\ u \in Text
      BY <1>7, Zenon
    <3>2. taken \o left = value \o u
      BY <2>5, Zenon
    <3> HIDE DEF u
    <3>3. taken = value /\ left = u
      BY <3>1, <3>2, <2>6, SameParts, Zenon
    <3> QED
      BY <3>3, Zenon DEF u
  <2> QED
    BY <2>4, <2>7, Zenon
<1>9. CASE k = Len(value) + 1
  <2>1. Len(taken) = Len(line)
    BY <1>3, <1>9 DEF k
  <2>2. taken \o left = line \o more
    BY <1>6, Zenon
  <2>3. taken = line /\ left = more
    BY <1>2, <2>1, <2>2, SameParts, Zenon
  <2> QED
    BY <2>3, Zenon DEF line
<1>10. CASE k > Len(value) + 1
  <2>1. /\ k - Len(line) \in 1 .. Len(more) /\ Len(more) = 6 /\ more = Spelled(ERROR)
        /\ Len(line) + (k - Len(line)) = k
    BY <1>3, <1>4, <1>5, <1>10
  <2>2. more[k - Len(line)] = Newline
    <3>1. all[Len(line) + (k - Len(line))] = more[k - Len(line)]
      BY <1>3, <2>1
    <3> QED
      BY <1>5, <2>1, <3>1
  <2>3. k - Len(line) = 6
    BY <2>1, <2>2, ErrorText
  <2>4. k = Len(all)
    BY <1>3, <2>1, <2>3
  <2>5. Len(left) = 0
    BY <1>5, <2>4
  <2>6. left = << >>
    BY <2>5, EmptySeq
  <2>7. taken \o << >> = taken
    BY DEF Text
  <2>8. taken = all
    BY <1>6, <2>6, <2>7, Zenon
  <2> QED
    BY <2>1, <2>6, <2>8, Zenon DEF all, line
<1>11. k \in Int /\ Len(value) \in Int
  BY <1>3, <1>5
<1>12. k <= Len(value) \/ k = Len(value) + 1 \/ k > Len(value) + 1
  BY <1>11
<1> QED
  BY <1>8, <1>9, <1>10, <1>12, Zenon

\* The type of a text that starts with the name of a type.
LEMMA StartsWithType ==
  ASSUME NEW taken \in Text, taken # << >>, taken[Len(taken)] = Newline,
         NEW name \in TypeName, NEW tail \in Text,
         FirstWord(taken, << >>, <<name>>, tail)
  PROVE  /\ tail[Len(tail)] = Newline /\ Words(taken) # << >> /\ AfterType(taken) = tail
         /\ TypeOf(taken) = name
<1> DEFINE first == <<name>>
           none == << >>
<1>1. none \in Text /\ first \in Text /\ first[1] = name
  BY Pieces DEF Text
<1>2. FirstWord(taken, none, first, tail)
  OBVIOUS
<1> HIDE DEF none
<1>3. first \in {<<type>> : type \in TypeName}
  OBVIOUS
<1> HIDE DEF first
<1>4. /\ tail[Len(tail)] = Newline /\ Words(taken) # << >> /\ AfterType(taken) = tail
      /\ Words(taken) = <<first>> \o Words(tail)
  BY <1>1, <1>2, TypeAndArguments, SMTT(30)
<1>5. Words(taken)[1] = first
  <2>1. Words(tail) \in Seq(Text)
    BY WordsAreTexts
  <2> QED
    BY <1>1, <1>4, <2>1
<1> QED
  BY <1>1, <1>3, <1>4, <1>5 DEF TypeOf

\* The message that was taken starts with the type name, and it ends at a
\* newline of tail, of which left is the rest.
TakenUpTo(taken, name, tail, left) ==
  \E rest \in Text :
    /\ rest # << >> /\ rest[Len(rest)] = Newline /\ rest \o left = tail
    /\ decode(taken) = Message(name, Arguments(rest))
    /\ is_valid(decode(taken))

\* A text that starts with a type and is decoded.
LEMMA DecodedStart ==
  ASSUME NEW name \in TypeName, NEW tail \in Text, tail # << >>, tail[1] \in Whitespace,
         NEW taken \in Text, NEW left \in Text,
         taken \o left = <<name>> \o tail, decode(taken) # Invalid
  PROVE  TakenUpTo(taken, name, tail, left)
<1> DEFINE rest == Tail(taken)
           word == <<name>>
<1>1. taken # << >> /\ taken[Len(taken)] = Newline /\ is_valid(decode(taken))
      /\ decode(taken) = Message(TypeOf(taken),
             IF Words(taken) = << >> THEN << >> ELSE Arguments(AfterType(taken)))
  BY DecodedText
<1>2. word \in Text /\ name \notin Whitespace /\ name # Newline /\ IsWord(word)
  BY Pieces DEF IsWord, Text
<1>3. rest \in Text /\ taken = <<taken[1]>> \o rest /\ <<taken[1]>> \in Text
  BY <1>1 DEF Text
<1>4. taken[1] = name
  <2>1. (taken \o left)[1] = taken[1]
    BY <1>1 DEF Text
  <2>2. (<<name>> \o tail)[1] = name
    BY <1>2 DEF Text
  <2> QED
    BY <2>1, <2>2
<1>5. taken = word \o rest
  BY <1>3, <1>4
<1> HIDE DEF rest, word
<1>6. rest \o left = tail
  <2>1. word \in Text /\ rest \in Text /\ left \in Text
    BY <1>2, <1>3, Zenon
  <2>2. (word \o rest) \o left = word \o (rest \o left)
    BY <2>1, Regroup, ZenonT(40)
  <2>3. taken \o left = word \o tail
    BY Zenon DEF word
  <2>4. word \o (rest \o left) = word \o tail
    BY <1>5, <2>2, <2>3, Zenon
  <2>5. rest \o left \in Text
    BY <1>3, ConcatTexts
  <2> QED
    BY <2>1, <2>4, <2>5, SameParts, Zenon
<1>7. rest # << >>
  <2> SUFFICES ASSUME rest = << >> PROVE FALSE
    OBVIOUS
  <2>1. taken = word
    BY <1>2, <1>5 DEF Text
  <2> QED
    BY <1>1, <1>2, <2>1 DEF word
<1>8. rest[1] \in Whitespace
  <2>1. (rest \o left)[1] = rest[1]
    BY <1>3, <1>7 DEF Text
  <2> QED
    BY <1>6, <2>1
<1>9. FirstWord(taken, << >>, word, rest)
  <2>1. << >> \o word \o rest = taken /\ Blank(<< >>)
    BY <1>2, <1>3, <1>5 DEF Text, Blank
  <2> QED
    BY <1>2, <1>8, <2>1 DEF FirstWord, BreaksOff
<1>10. << >> \in Text
  BY DEF Text
<1>11. /\ rest[Len(rest)] = Newline /\ Words(taken) # << >> /\ AfterType(taken) = rest
       /\ TypeOf(taken) = name
  <2>1. FirstWord(taken, << >>, <<name>>, rest)
    BY <1>9, Zenon DEF word
  <2>2. rest \in Text /\ taken # << >> /\ taken[Len(taken)] = Newline
    BY <1>1, <1>3, Zenon
  <2> QED
    BY <2>1, <2>2, StartsWithType, Zenon
<1> QED
  BY <1>1, <1>3, <1>6, <1>7, <1>11 DEF TakenUpTo

\* A text is what is taken of it and what is left.
LEMMA CutAfter ==
  ASSUME NEW text \in Text, NEW n \in 1 .. Len(text)
  PROVE  /\ SubSeq(text, 1, n) \in Text /\ SubSeq(text, n + 1, Len(text)) \in Text
         /\ text = SubSeq(text, 1, n) \o SubSeq(text, n + 1, Len(text))
<1> DEFINE s == SubSeq(text, 1, n)
           t == SubSeq(text, n + 1, Len(text))
<1>1. /\ s \in Text /\ t \in Text /\ Len(s) = n /\ Len(t) = Len(text) - n /\ Len(text) \in Nat
      /\ \A i \in 1 .. n : s[i] = text[i]
      /\ \A i \in 1 .. Len(text) - n : t[i] = text[n + i]
  BY DEF Text
<1> HIDE DEF s, t
<1>2. /\ s \o t \in Text /\ Len(s \o t) = Len(text)
      /\ \A i \in 1 .. n : (s \o t)[i] = s[i]
      /\ \A i \in 1 .. Len(text) - n : (s \o t)[n + i] = t[i]
  <2>1. s \in Text /\ t \in Text
    BY <1>1
  <2>2. /\ s \o t \in Text /\ Len(s \o t) = Len(s) + Len(t)
        /\ \A i \in 1 .. Len(s) : (s \o t)[i] = s[i]
        /\ \A i \in 1 .. Len(t) : (s \o t)[Len(s) + i] = t[i]
    BY <2>1, ConcatTexts, Zenon
  <2> QED
    BY <1>1, <2>2
<1> DEFINE u == s \o t
<1>3. /\ u \in Text /\ Len(u) = Len(text)
      /\ \A i \in 1 .. n : u[i] = text[i]
      /\ \A i \in 1 .. Len(text) - n : u[n + i] = text[n + i]
  BY <1>1, <1>2, Zenon
<1> HIDE DEF u
<1>4. u = text
  <2>1. ASSUME NEW i \in 1 .. Len(text) PROVE u[i] = text[i]
    <3>1. CASE i <= n
      BY <1>3, <3>1
    <3>2. CASE i > n
      <4>1. i - n \in 1 .. Len(text) - n /\ n + (i - n) = i
        BY <1>1, <3>2
      <4> QED
        BY <1>3, <4>1, Zenon
    <3> QED
      BY <1>1, <3>1, <3>2
  <2> QED
    BY <1>3, <2>1, SeqEqual DEF Text
<1> QED
  BY <1>1, <1>4 DEF s, t, u

\* What a text starts with.
LEMMA StartOfConcat ==
  ASSUME NEW s \in Text, NEW t \in Text, s # << >>
  PROVE  s \o t \in Text /\ s \o t # << >> /\ (s \o t)[1] = s[1]
<1>1. Len(s) \in Nat \ {0} /\ Len(t) \in Nat
  BY EmptySeq DEF Text
<1>2. s \o t \in Text /\ Len(s \o t) = Len(s) + Len(t) /\ (s \o t)[1] = s[1]
  BY <1>1, ConcatTexts
<1> QED
  BY <1>1, <1>2, EmptySeq

\* The text of a message with one argument, after its type.
LEMMA SpelledStarts ==
  ASSUME NEW name \in TypeName, NEW value \in Text, NEW more \in Text
  PROVE  LET tail == ((<<Space>> \o value) \o <<Newline>>) \o more
         IN  /\ tail \in Text /\ tail # << >> /\ tail[1] = Space
             /\ Spelled(Message(name, <<value>>)) \o more = <<name>> \o tail
             /\ Spelled(Message(name, <<value>>)) \in Text
<1> DEFINE head == <<name>>
           blank == <<Space>>
           newline == <<Newline>>
           spaced == blank \o value
           line == spaced \o newline
           tail == line \o more
<1>1. head \in Text /\ blank \in Text /\ newline \in Text
  BY Pieces DEF Text, Piece
<1>2. <<name, Space>> \in Text /\ <<name, Space>> = head \o blank
  <2>1. name \in Piece /\ Space \in Piece
    BY Pieces
  <2>2. head \o blank \in Text /\ <<name, Space>> \in Text
    BY <2>1 DEF Text
  <2>3. /\ Len(head \o blank) = 2 /\ Len(<<name, Space>>) = 2
        /\ (head \o blank)[1] = name /\ (head \o blank)[2] = Space
        /\ <<name, Space>>[1] = name /\ <<name, Space>>[2] = Space
    BY <2>1 DEF Text
  <2>4. \A i \in 1 .. 2 : (head \o blank)[i] = <<name, Space>>[i]
    BY <2>3
  <2> QED
    BY <2>2, <2>3, <2>4
<1>3. Spelled(Message(name, <<value>>)) = (head \o blank) \o value \o newline
  BY <1>2, SpelledWithOne
<1>4. blank[1] = Space /\ blank # << >>
  OBVIOUS
<1> HIDE DEF head, blank, newline
<1>5. spaced \in Text /\ spaced # << >> /\ spaced[1] = Space
  BY <1>1, <1>4, StartOfConcat, Zenon
<1>6. (head \o blank) \o value = head \o spaced
  BY <1>1, Regroup, ZenonT(40)
<1> HIDE DEF spaced
<1>7. (head \o spaced) \o newline = head \o line
  <2>1. head \in Text /\ spaced \in Text /\ newline \in Text
    BY <1>1, <1>5, Zenon
  <2> QED
    BY <2>1, Regroup, ZenonT(40)
<1>8. line \in Text /\ line # << >> /\ line[1] = Space
  BY <1>1, <1>5, StartOfConcat, Zenon
<1> HIDE DEF line
<1>9. (head \o line) \o more = head \o tail /\ head \o line \in Text
  <2>1. head \o line \in Text
    BY <1>1, <1>8, ConcatTexts
  <2>2. (head \o line) \o more = head \o (line \o more)
    BY <1>1, <1>8, Regroup, ZenonT(40)
  <2> QED
    BY <2>1, <2>2
<1>10. tail \in Text /\ tail # << >> /\ tail[1] = Space
  BY <1>8, StartOfConcat, Zenon
<1>11. Spelled(Message(name, <<value>>)) = head \o line
  BY <1>3, <1>6, <1>7, Zenon
<1> QED
  BY <1>9, <1>10, <1>11, Zenon DEF head, line, spaced, blank, newline

\* A refusal is never taken for anything else.
LEMMA TakenRefusal ==
  ASSUME NEW name \in {"FAILED", "ERROR"}, NEW value \in Text,
         NEW taken \in Text, NEW left \in Text, NEW more \in Text, decode(taken) # Invalid,
         taken \o left = Spelled(Message(name, <<value>>)) \o more
  PROVE  decode(taken).type = name
<1> DEFINE tail == ((<<Space>> \o value) \o <<Newline>>) \o more
<1>1. name \in TypeName
  BY DEF TypeName, ResponseType
<1>2. /\ tail \in Text /\ tail # << >> /\ tail[1] = Space
      /\ Spelled(Message(name, <<value>>)) \o more = <<name>> \o tail
  BY <1>1, SpelledStarts, Zenon
<1> HIDE DEF tail
<1>3. tail[1] \in Whitespace /\ taken \o left = <<name>> \o tail
  BY <1>2, Pieces, Zenon
<1>4. \E rest \in Text : decode(taken) = Message(name, Arguments(rest))
  <2>1. TakenUpTo(taken, name, tail, left)
    BY <1>1, <1>2, <1>3, DecodedStart, Zenon
  <2> QED
    BY <2>1 DEF TakenUpTo
<1> QED
  BY <1>4 DEF Message

\* The text of OK.
LEMMA OKText ==
  /\ Spelled(Request("OK")) = <<"OK">> \o <<Newline>> /\ Spelled(Request("OK")) \in Text
  /\ "OK" \in TypeName
<1>1. "OK" \in TypeName /\ << >> \in Seq(Text) /\ Len(<< >>) = 0
  BY EmptySeq DEF TypeName, ResponseType
<1>2. JoinedSoFar("OK", << >>, 0, Joined(Message("OK", << >>)))
  BY <1>1, JoinedMessage
<1>3. Joined(Message("OK", << >>)) = <<"OK">>
  BY <1>2 DEF JoinedSoFar
<1>4. Spelled(Request("OK")) = <<"OK">> \o <<Newline>>
  BY <1>3 DEF Spelled, Request
<1>5. "OK" \in Piece /\ Newline \in Piece
  BY <1>1, Pieces
<1>6. <<"OK">> \in Text /\ <<Newline>> \in Text
  BY <1>5 DEF Text
<1> QED
  BY <1>1, <1>4, <1>6, ConcatTexts

\* What is left when an OK has been taken.
LEMMA TakenOK ==
  ASSUME NEW taken \in Text, NEW left \in Text, NEW more \in Text, decode(taken) # Invalid,
         more = << >> \/ more = Spelled(ERROR),
         taken \o left = Spelled(Request("OK")) \o more
  PROVE  /\ decode(taken).type = "OK"
         /\ left = more \/ (more = Spelled(ERROR) /\ left = << >>)
<1> DEFINE newline == <<Newline>>
           tail == newline \o more
           head == <<"OK">>
           none == << >>
<1>1. newline \in Text /\ newline # << >> /\ newline[1] = Newline /\ head \in Text
      /\ none \in Text /\ Len(newline) = 1
  BY Pieces, OKText DEF Text, Piece
<1>2. Spelled(Request("OK")) = head \o newline
  BY OKText, Zenon
<1>3. OneLine(none)
  BY DEF OneLine
<1>4. none \o newline = newline
  OBVIOUS
<1> HIDE DEF newline, head
<1>5. tail \in Text /\ tail # << >> /\ tail[1] = Newline
  BY <1>1, StartOfConcat, Zenon
<1>6. (head \o newline) \o more = head \o tail
  BY <1>1, Regroup, ZenonT(40)
<1> HIDE DEF tail
<1>7. tail[1] \in Whitespace /\ taken \o left = <<"OK">> \o tail
  BY <1>2, <1>5, <1>6, Pieces, Zenon DEF head
<1>8. PICK rest \in Text :
        /\ rest # << >> /\ rest[Len(rest)] = Newline /\ rest \o left = tail
        /\ decode(taken) = Message("OK", Arguments(rest))
  <2>1. TakenUpTo(taken, "OK", tail, left)
    BY <1>5, <1>7, OKText, DecodedStart, Zenon
  <2> QED
    BY <2>1, Zenon DEF TakenUpTo
<1>9. rest \o left = none \o <<Newline>> \o more
  BY <1>4, <1>8, Zenon DEF tail, newline
<1> HIDE DEF none
<1>10. \/ rest = none /\ none # << >> /\ left = <<Newline>> \o more
       \/ rest = none \o <<Newline>> /\ left = more
       \/ rest = none \o <<Newline>> \o more /\ more = Spelled(ERROR) /\ left = << >>
  BY <1>1, <1>3, <1>8, <1>9, EndsAtNewline, Zenon
<1>11. none = << >> /\ decode(taken).type = "OK"
  BY <1>8 DEF none, Message
<1> QED
  BY <1>10, <1>11, Zenon

\* What follows a space is taken word by word, unless it starts with a quote.
LEMMA WordsAfterSpace ==
  ASSUME NEW text \in Text, ~Quoted(text)
  PROVE  Arguments(<<Space>> \o text) = Words(text)
<1> DEFINE blank == <<Space>>
           spaced == blank \o text
<1>1. blank \in Text /\ blank # << >> /\ blank[1] = Space
  BY Pieces DEF Text
<1> HIDE DEF blank
<1>2. spaced \in Text /\ spaced # << >> /\ spaced[1] = Space
  BY <1>1, StartOfConcat, Zenon
<1> HIDE DEF spaced
<1>3. Rest(spaced) \in Text /\ spaced = <<Space>> \o Rest(spaced)
  BY <1>2, RestOfText
<1>4. Rest(spaced) = text
  <2>1. blank \o Rest(spaced) = blank \o text
    BY <1>3, Zenon DEF spaced, blank
  <2> QED
    BY <1>1, <1>3, <2>1, SameParts, Zenon
<1>5. Arguments(spaced) = Words(text)
  BY <1>2, <1>4, ArgumentsOf
<1> QED
  BY <1>5 DEF spaced, blank

\* What is left of a reply or follows it is no DATA.
LEMMA NoDataIsLeft ==
  ASSUME NEW more \in Text, more = << >> \/ more = Spelled(ERROR)
  PROVE  NoData(<< >>) /\ NoData(more) /\ NoData(<<Newline>> \o more)
<1>1. NoData(<< >>) /\ NoData(more)
  BY ErrorText DEF NoData
<1> DEFINE newline == <<Newline>>
<1>2. newline \in Text /\ Len(newline) = 1 /\ newline[1] # "DATA"
  BY Pieces DEF Text, Piece, Newline
<1> HIDE DEF newline
<1>3. /\ Len(newline \o more) = Len(newline) + Len(more) /\ Len(more) \in Nat
      /\ \A i \in 1 .. Len(newline) : (newline \o more)[i] = newline[i]
      /\ \A i \in 1 .. Len(more) : (newline \o more)[Len(newline) + i] = more[i]
  BY <1>2, ConcatTexts, Zenon
<1> DEFINE all == newline \o more
<1>4. ASSUME NEW i \in 1 .. Len(all) PROVE all[i] # "DATA"
  <2>1. CASE i = 1
    BY <1>2, <1>3, <2>1
  <2>2. CASE i # 1
    <3> HIDE DEF all
    <3>1. i - 1 \in 1 .. Len(more) /\ 1 + (i - 1) = i
      BY <1>2, <1>3, <2>2 DEF all
    <3>2. all[i] = more[i - 1]
      BY <1>2, <1>3, <3>1 DEF all
    <3> QED
      BY <1>1, <3>1, <3>2 DEF NoData
  <2> QED
    BY <2>1, <2>2
<1>5. NoData(all)
  BY <1>4 DEF NoData
<1> QED
  BY <1>1, <1>5 DEF newline

\* A value between the space and the newline of its message.
LEMMA SpacedText ==
  ASSUME NEW sent \in Text, NEW more \in Text
  PROVE  LET blank == <<Space>>
             newline == <<Newline>>
         IN  /\ (blank \o sent) \o newline = blank \o (sent \o newline)
             /\ ((blank \o sent) \o newline) \o more = blank \o ((sent \o newline) \o more)
<1> DEFINE blank == <<Space>>
           newline == <<Newline>>
           line == sent \o newline
<1>1. blank \in Text /\ newline \in Text
  BY Pieces DEF Text, Piece
<1> HIDE DEF blank, newline
<1>2. (blank \o sent) \o newline = blank \o line
  BY <1>1, Regroup, Zenon
<1>3. line \in Text
  BY <1>1, ConcatTexts
<1> HIDE DEF line
<1>4. (blank \o line) \o more = blank \o (line \o more)
  BY <1>1, <1>3, Regroup, ZenonT(40)
<1> QED
  BY <1>2, <1>4, Zenon DEF line, blank, newline

\* A text without quotes.
NoQuote(text) == \A j \in 1 .. Len(text) : text[j] # Quote

\* The value of a DATA that is taken, whether its own newline, that of the
\* message, or the ERROR after it is where the text ends.
LEMMA TakenData ==
  ASSUME NEW sent \in Text, NEW more \in Text,
         NEW taken \in Text, NEW left \in Text, decode(taken) # Invalid,
         more = << >> \/ more = Spelled(ERROR),
         NoQuote(sent), OneLine(sent),
         taken \o left = Spelled(Message("DATA", <<sent>>)) \o more
  PROVE  /\ decode(taken).type = "DATA" /\ Words(sent) = <<get_value(decode(taken))>>
         /\ NoData(left)
<1> DEFINE blank == <<Space>>
           newline == <<Newline>>
           spaced == blank \o sent
           tail == (spaced \o newline) \o more
<1>1. /\ tail \in Text /\ tail # << >> /\ tail[1] = Space /\ "DATA" \in TypeName
      /\ Spelled(Message("DATA", <<sent>>)) \o more = <<"DATA">> \o tail
  <2>1. "DATA" \in TypeName
    BY Pieces
  <2> QED
    BY <2>1, SpelledStarts, Zenon
<1>2. blank \in Text /\ newline \in Text /\ Len(blank) = 1 /\ blank[1] # Newline
      /\ blank # << >> /\ newline # << >> /\ newline[1] # Quote
  <2>1. blank \in Text /\ newline \in Text
    BY Pieces DEF Text, Piece
  <2>2. Space # Newline /\ Newline # Quote
    BY DEF Space, Newline, Quote
  <2> QED
    BY <2>1, <2>2
<1> HIDE DEF blank, newline, tail
<1>3. tail[1] \in Whitespace /\ taken \o left = <<"DATA">> \o tail
  BY <1>1, Pieces, Zenon
<1>4. PICK rest \in Text :
        /\ rest # << >> /\ rest[Len(rest)] = Newline /\ rest \o left = tail
        /\ decode(taken) = Message("DATA", Arguments(rest)) /\ is_valid(decode(taken))
  <2>1. TakenUpTo(taken, "DATA", tail, left)
    BY <1>1, <1>3, DecodedStart, Zenon
  <2> QED
    BY <2>1, Zenon DEF TakenUpTo
<1>5. Arguments(rest) \in Seq(Text) /\ Len(Arguments(rest)) = 1
      /\ get_value(decode(taken)) = Arguments(rest)[1] /\ decode(taken).type = "DATA"
  <2> DEFINE args == Arguments(rest)
  <2>1. args \in Seq(Text)
    BY ArgumentsOf
  <2>2. decode(taken) = Message("DATA", args) /\ is_valid(decode(taken))
    BY <1>4
  <2> HIDE DEF args
  <2>3. Len(args) = 1
    BY <2>2 DEF is_valid, Message
  <2>4. args # << >>
    BY <2>3
  <2>5. get_value(decode(taken)) = args[1] /\ decode(taken).type = "DATA"
    BY <2>2, <2>4 DEF get_value, FirstArg, Message
  <2> QED
    BY <2>1, <2>3, <2>5 DEF args
<1>6. (blank \o sent) \o newline = blank \o (sent \o newline)
  BY SpacedText, Zenon DEF blank, newline
<1>7. ((blank \o sent) \o newline) \o more = blank \o ((sent \o newline) \o more)
  BY SpacedText, Zenon DEF blank, newline
<1>8. Arguments(rest) = <<get_value(decode(taken))>>
  BY <1>5
<1>9. spaced \in Text /\ Len(spaced) \in Nat /\ Len(sent) \in Nat
      /\ OneLine(spaced)
  <2>1. /\ spaced \in Text /\ Len(spaced) = Len(blank) + Len(sent) /\ Len(sent) \in Nat
        /\ \A i \in 1 .. Len(blank) : spaced[i] = blank[i]
        /\ \A i \in 1 .. Len(sent) : spaced[Len(blank) + i] = sent[i]
    BY <1>2, ConcatTexts, Zenon
  <2> HIDE DEF spaced
  <2>2. ASSUME NEW j \in 1 .. Len(spaced), spaced[j] = Newline PROVE j = Len(spaced)
    <3>1. j # 1
      BY <1>2, <2>1, <2>2
    <3>2. j - 1 \in 1 .. Len(sent) /\ 1 + (j - 1) = j
      BY <1>2, <2>1, <3>1
    <3>3. sent[j - 1] = Newline
      BY <1>2, <2>1, <2>2, <3>2
    <3>4. j - 1 = Len(sent)
      BY <3>2, <3>3 DEF OneLine
    <3> QED
      BY <1>2, <2>1, <3>2, <3>4
  <2> QED
    BY <1>2, <2>1, <2>2 DEF OneLine
<1> HIDE DEF spaced
<1>10. \/ rest = spaced /\ left = newline \o more
       \/ rest = spaced \o newline /\ left = more
       \/ rest = (spaced \o newline) \o more /\ more = Spelled(ERROR) /\ left = << >>
  <2>1. rest \o left = spaced \o <<Newline>> \o more
    BY <1>4, Zenon DEF tail, newline
  <2>2. \/ rest = spaced /\ spaced # << >> /\ left = <<Newline>> \o more
        \/ rest = spaced \o <<Newline>> /\ left = more
        \/ rest = spaced \o <<Newline>> \o more /\ more = Spelled(ERROR) /\ left = << >>
    BY <1>4, <1>9, <2>1, EndsAtNewline, Zenon
  <2> QED
    BY <2>2, Zenon DEF newline
<1>11. NoData(left)
  BY <1>10, NoDataIsLeft, Zenon DEF newline
<1>12. sent = << >> \/ (sent # << >> /\ sent[1] # Quote)
  BY EmptySeq DEF Text, NoQuote
<1>13. ASSUME NEW u \in Text, sent # << >> => u # << >> /\ u[1] = sent[1],
              sent = << >> => u = << >> \/ u[1] # Quote,
              rest = blank \o u
       PROVE  Arguments(rest) = Words(u)
  <2>1. ~Quoted(u)
    BY <1>12, <1>13 DEF Quoted
  <2>2. Arguments(<<Space>> \o u) = Words(u)
    BY <2>1, WordsAfterSpace
  <2> QED
    BY <1>13, <2>2 DEF blank
<1>14. CASE rest = spaced
  <2>1. Arguments(rest) = Words(sent)
    BY <1>13, <1>14, Zenon DEF spaced
  <2> QED
    BY <1>5, <1>8, <1>11, <2>1, Zenon
<1>15. sent \o newline \in Text /\ (sent # << >> => (sent \o newline)[1] = sent[1])
       /\ sent \o newline # << >> /\ (sent = << >> => sent \o newline = newline)
       /\ Words(sent \o newline) = Words(sent)
  <2>1. << >> \in Text
    BY DEF Text
  <2>2. sent \o newline \in Text
    BY <1>2, ConcatTexts, Zenon
  <2>3. sent # << >> => (sent \o newline)[1] = sent[1] /\ sent \o newline # << >>
    BY <1>2, StartOfConcat, Zenon
  <2>4. << >> \o newline = newline
    BY <1>2 DEF Text
  <2>5. Words(sent \o <<Newline>> \o << >>) = Words(sent) \o Words(<< >>)
    BY <2>1, Pieces, WordsApart, Zenon
  <2>6. (sent \o newline) \o << >> = sent \o newline
    BY <2>2 DEF Text
  <2>7. Words(sent) \o << >> = Words(sent) /\ Words(<< >>) = << >>
    BY WordsAreTexts, WordsStep
  <2>8. Words(sent \o newline) = Words(sent)
    BY <2>5, <2>6, <2>7, Zenon DEF newline
  <2> QED
    BY <1>2, <2>2, <2>3, <2>4, <2>8, Zenon
<1>16. CASE rest = spaced \o newline
  <2>1. rest = blank \o (sent \o newline)
    BY <1>6, <1>16, Zenon DEF spaced
  <2>2. Arguments(rest) = Words(sent \o newline)
    BY <1>2, <1>13, <1>15, <2>1, Zenon
  <2> QED
    BY <1>5, <1>8, <1>11, <1>15, <2>2, Zenon
<1>17. CASE rest = (spaced \o newline) \o more /\ more = Spelled(ERROR)
  <2> DEFINE line == sent \o newline
  <2>1. rest = blank \o (line \o more)
    BY <1>7, <1>17, Zenon DEF spaced
  <2>2. line \in Text /\ line # << >>
    BY <1>15, Zenon
  <2> HIDE DEF line
  <2>3. line \o more \in Text /\ line \o more # << >> /\ (line \o more)[1] = line[1]
    BY <2>2, StartOfConcat, Zenon
  <2>4. Arguments(rest) = Words(line \o more)
    BY <1>2, <1>13, <1>15, <2>1, <2>3, Zenon DEF line
  <2>5. Words(sent \o <<Newline>> \o more) = Words(sent) \o Words(more)
    BY Pieces, WordsApart, Zenon
  <2>6. Arguments(rest) = Words(sent) \o Words(more)
    BY <2>4, <2>5, Zenon DEF line, newline
  <2>7. Words(sent) \in Seq(Text) /\ Words(more) \in Seq(Text) /\ Len(Words(more)) >= 2
    BY <1>17, WordsAreTexts, ErrorIsWords
  <2>8. Len(Words(sent) \o Words(more)) >= 2
    BY <2>7
  <2> QED
    BY <1>5, <2>6, <2>8
<1> QED
  BY <1>10, <1>14, <1>16, <1>17, Zenon

\* What has no DATA in it does not decode to one.
LEMMA NoDataTaken ==
  ASSUME NEW taken \in Text, NEW left \in Text, NoData(taken \o left)
  PROVE  decode(taken).type # "DATA"
<1> SUFFICES ASSUME decode(taken).type = "DATA" PROVE FALSE
  OBVIOUS
<1>1. decode(taken) # Invalid
  BY DEF Invalid, Message
<1>2. decode(taken) = Message(TypeOf(taken),
         IF Words(taken) = << >> THEN << >> ELSE Arguments(AfterType(taken)))
  BY <1>1, DecodedText
<1>3. TypeOf(taken) = "DATA"
  BY <1>2 DEF Message
<1>4. Words(taken) # << >> /\ Words(taken)[1] = <<"DATA">>
  BY <1>3 DEF TypeOf
<1>5. 1 \in 1 .. Len(Words(taken))
  BY <1>4, WordsAreTexts, EmptySeq
<1>6. 1 \in 1 .. Len(Words(taken)[1]) /\ Words(taken)[1][1] = "DATA"
  BY <1>4
<1>7. PICK k \in 1 .. Len(taken) : Words(taken)[1][1] = taken[k]
  BY <1>5, <1>6, WordsAreWords
<1>8. /\ (taken \o left)[k] = taken[k] /\ Len(taken \o left) = Len(taken) + Len(left)
      /\ Len(taken) \in Nat /\ Len(left) \in Nat
  BY ConcatTexts
<1>9. k \in 1 .. Len(taken \o left)
  BY <1>8
<1> QED
  BY <1>6, <1>7, <1>8, <1>9 DEF NoData

\* Only the request before the last one can be a TOP.
LEMMA TopComesBeforeBye ==
  ASSUME list \in Programs, NEW i \in 1 .. Len(list), decode(Spelled(list[i])).type = "TOP"
  PROVE  i = Len(list) - 1
<1> DEFINE type == list[i].type
           args == list[i].args
           text == Spelled(list[i])
<1>1. list[i] = Message(type, args) /\ type \in TypeName /\ args \in Seq(Text)
  <2>1. list \in Seq([type : RequestType, args : Seq(Seq(Piece))])
    BY WireAssumption
  <2>2. list[i] \in [type : RequestType, args : Seq(Seq(Piece))]
    BY <2>1, ElementOfSeq
  <2> QED
    BY <2>2 DEF Message, TypeName, Text
<1> HIDE DEF type, args
<1>2. text \in Text /\ TypeOf(text) = type
  BY <1>1, SpelledMessage
<1> HIDE DEF text
<1>3. decode(text) # Invalid /\ decode(text).type = "TOP"
  BY DEF text, Invalid, Message
<1>4. decode(text).type = TypeOf(text)
  <2>1. decode(text) = Message(TypeOf(text),
           IF Words(text) = << >> THEN << >> ELSE Arguments(AfterType(text)))
    BY <1>2, <1>3, DecodedText
  <2> QED
    BY <2>1 DEF Message
<1>5. list[i].type = "TOP"
  BY <1>2, <1>3, <1>4 DEF type
<1> QED
  BY <1>5, WireAssumption

\* Steps that leave the replies alone: the reader's, and those of a session
\* that goes on.
LEMMA RepliesStay ==
  ASSUME WireInv, ReplyTypes, RepliesInTurn,
         UNCHANGED <<client, clientfd, list, next, result, answers, outgoing, handled>>,
         \A i \in 1 .. Len(handled) : returned'[i] = returned[i],
         session' = session \/ (outgoing = << >> /\ (clientfd # 0 => session' \in {"idle", "over"}))
  PROVE  ReplyTypes' /\ RepliesInTurn'
<1>1. ReplyTypes'
  BY DEF ReplyTypes
<1>2. Pending' = Pending
  BY DEF Pending
<1>3. \A n : Served(n, handled', result') <=> Served(n, handled, result)
  BY DEF Served
<1>4. ASSUME client \in {"write", "read"}, next < Len(list) PROVE InTurn'
  <2>1. InTurn
    BY <1>4 DEF RepliesInTurn
  <2>2. next \in 1 .. Len(list) /\ Len(handled) \in Nat /\ Len(list) \in Nat
    BY <1>4, LinesAreWhole DEF WireInv, WireTypes
  <2>3. Len(handled) = next \/ Len(handled) = next + 1 => returned'[next] = returned[next]
    BY <2>2
  <2>4. Len(handled) = next + 1 => returned'[next + 1] = returned[next + 1]
    BY <2>2
  <2>5. CASE Len(handled) = next - 1 /\ Pending = << >>
    BY <1>2, <2>5, Zenon DEF InTurn
  <2>6. CASE /\ Len(handled) = next /\ Pending = ReplyText(handled[next].reply)
             /\ client = "write" => returned[next] \in Marker
    BY <1>2, <2>3, <2>6, Zenon DEF InTurn, Marker
  <2>7. CASE Len(handled) = next /\ Pending = << >> /\ returned[next] \in Marker
    BY <1>2, <2>3, <2>7, Zenon DEF InTurn, Marker
  <2>8. CASE /\ Len(handled) = next + 1 /\ client = "read" /\ returned[next + 1] \in Marker
             /\ Pending = ReplyText(handled[next].reply) \o Spelled(ERROR)
    BY <1>2, <2>4, <2>8, Zenon DEF InTurn, Marker
  <2> QED
    BY <2>1, <2>5, <2>6, <2>7, <2>8, Zenon DEF InTurn
<1> QED
  BY <1>1, <1>2, <1>3, <1>4 DEF RepliesInTurn, NoData

\* Nothing is on its way before the program has connected.
LEMMA RepliesStart == WireInit => ReplyTypes /\ RepliesInTurn
<1> SUFFICES ASSUME WireInit PROVE ReplyTypes /\ RepliesInTurn
  OBVIOUS
<1>1. /\ client = "start" /\ answers = << >> /\ outgoing = << >> /\ handled = << >>
      /\ session = "idle"
  BY DEF WireInit
<1>2. << >> \in Text /\ Len(handled) = 0
  BY <1>1 DEF Text
<1>3. ReplyTypes
  BY <1>1, <1>2 DEF ReplyTypes
<1> QED
  BY <1>1, <1>3 DEF RepliesInTurn

\* A program that has connected is at its first request.
LEMMA ConnectReplies ==
  ASSUME WireInv, ReplyTypes, RepliesInTurn, Connect PROVE ReplyTypes' /\ RepliesInTurn'
<1>1. /\ client = "start" /\ UNCHANGED <<list, next, result, answers, outgoing, handled>>
      /\ client' \in {"exit 1", "write"}
      /\ clientfd' # 0 => session' = session
  BY DEF Connect, Exits
<1>2. /\ session \in {"idle", "over"} /\ returned = << >> /\ Len(handled) = 0
  <2>1. session \in {"idle", "over"} /\ returned = << >> /\ Len(handled) <= Len(returned)
    BY <1>1 DEF WireInv, OneAtATime
  <2>2. Len(handled) \in Nat
    BY DEF WireInv, WireTypes
  <2> QED
    BY <2>1, <2>2
<1>3. next = 1
  BY <1>1, <1>2 DEF WireInv, Written, Failed
<1>11. next' = 1 /\ handled' = handled
  BY <1>1, <1>3
<1>12. client' # "exit 0"
  BY <1>1
<1>4. answers = << >> /\ outgoing = << >>
  BY <1>1 DEF ReplyTypes
<1>5. ReplyTypes'
  BY <1>1, <1>2, <1>4 DEF ReplyTypes
<1>6. Pending = << >> /\ Pending' = Pending
  <2>1. << >> \o << >> = << >>
    OBVIOUS
  <2>2. Pending = << >>
    BY <1>4, <2>1, Zenon DEF Pending
  <2>3. Pending' = Pending
    BY <1>1 DEF Pending
  <2> QED
    BY <2>2, <2>3
<1>7. Served(0, handled', result')
  <2>1. handled' = handled /\ 0 <= Len(handled) /\ 1 .. 0 = {}
    BY <1>2, <1>11
  <2> QED
    BY <2>1 DEF Served
<1>8. InTurn'
  <2>1. Len(handled') = next' - 1
    BY <1>2, <1>11
  <2> QED
    BY <1>6, <2>1, Zenon DEF InTurn
<1>9. NoData(Pending')
  <2>1. Len(<< >>) = 0
    OBVIOUS
  <2>2. NoData(<< >>)
    BY <2>1 DEF NoData
  <2> QED
    BY <1>6, <2>2, Zenon
<1>10. next' - 1 = 0
  BY <1>11
<1> QED
  BY <1>5, <1>7, <1>8, <1>9, <1>10, <1>12 DEF RepliesInTurn

\* A request is written: its reply may be there already if it is an ERROR.
LEMMA WriteRequestReplies ==
  ASSUME WireInv, ReplyTypes, RepliesInTurn, WriteRequest PROVE ReplyTypes' /\ RepliesInTurn'
<1>1. /\ client = "write"
      /\ UNCHANGED <<clientfd, list, next, result, answers, outgoing, handled, session>>
      /\ client' \in {"read", "exit 1", "killed"} /\ returned' = returned
  BY DEF WriteRequest, Exits, sessionVars, Reader!Send
<1>2. ReplyTypes'
  BY <1>1 DEF ReplyTypes
<1>3. Pending' = Pending
  BY <1>1 DEF Pending
<1>4. \A n : Served(n, handled', result') <=> Served(n, handled, result)
  BY <1>1 DEF Served
<1>5. ASSUME InTurn PROVE InTurn'
  BY <1>1, <1>3, <1>5, Zenon DEF InTurn, Marker
<1>6. RepliesInTurn'
  BY <1>1, <1>3, <1>4, <1>5 DEF RepliesInTurn, NoData
<1> QED
  BY <1>2, <1>6

\* A part of the reply is written; nothing else is on its way.
LEMMA WriteReplies ==
  ASSUME WireInv, ReplyTypes, RepliesInTurn, rio_writen PROVE ReplyTypes' /\ RepliesInTurn'
<1>1. /\ session = "writing" /\ answers \in Text /\ outgoing \in Text /\ clientfd = 0
      /\ UNCHANGED <<returned, client, clientfd, list, next, result, handled>>
  BY DEF rio_writen, rioVars, clientVars, ReplyTypes
<1>2. \A n : Served(n, handled', result') <=> Served(n, handled, result)
  BY <1>1 DEF Served
<1>3. CASE /\ \E n \in 1 .. Len(outgoing) :
                /\ answers' = answers \o SubSeq(outgoing, 1, n)
                /\ outgoing' = SubSeq(outgoing, n + 1, Len(outgoing))
           /\ UNCHANGED session
  <2>1. PICK n \in 1 .. Len(outgoing) :
          /\ answers' = answers \o SubSeq(outgoing, 1, n)
          /\ outgoing' = SubSeq(outgoing, n + 1, Len(outgoing))
    BY <1>3
  <2> DEFINE now == SubSeq(outgoing, 1, n)
             later == SubSeq(outgoing, n + 1, Len(outgoing))
  <2>2. now \in Text /\ later \in Text /\ outgoing = now \o later
    BY <1>1, CutAfter
  <2>3. answers' = answers \o now /\ outgoing' = later
    BY <2>1
  <2> HIDE DEF now, later
  <2>4. (answers \o now) \o later = answers \o (now \o later)
    BY <1>1, <2>2, Regroup, ZenonT(40)
  <2>5. Pending' = Pending
    BY <2>2, <2>3, <2>4, Zenon DEF Pending
  <2>6. answers' \in Text /\ outgoing' \in Text
    BY <1>1, <2>2, <2>3, ConcatTexts
  <2>7. client # "start"
    BY <1>1 DEF WireInv, OneAtATime
  <2>8. ReplyTypes'
    BY <1>1, <1>3, <2>6, <2>7 DEF ReplyTypes
  <2>9. InTurn => InTurn'
    BY <1>1, <2>5, Zenon DEF InTurn, Marker
  <2>10. RepliesInTurn'
    BY <1>1, <1>2, <2>5, <2>9 DEF RepliesInTurn, NoData
  <2> QED
    BY <2>8, <2>10
<1>4. CASE client \in Ended /\ outgoing' = << >> /\ session' = "over" /\ UNCHANGED answers
  <2>1. << >> \in Text
    BY DEF Text
  <2>2. ReplyTypes'
    BY <1>1, <1>4, <2>1 DEF ReplyTypes
  <2>3. client' \notin {"start", "write", "read"}
    BY <1>1, <1>4, EndedIsNoStage
  <2> QED
    BY <1>1, <1>2, <2>2, <2>3 DEF RepliesInTurn
<1> QED
  BY <1>3, <1>4 DEF rio_writen

\* A line that was read is the request that the program wrote at its place.
LEMMA LineIsRequest ==
  ASSUME WireInv, NEW i \in 1 .. Len(returned), returned[i] \notin Marker
  PROVE  i \in 1 .. Len(list) /\ returned[i] = Spelled(list[i])
<1>1. i <= Len(list) /\ returned[i] = Lines[i]
  BY DEF WireInv, LinesAreRequests
<1>2. Len(list) \in Nat /\ \A j \in 1 .. Len(list) : Lines[j] = Spelled(list[j])
  BY LinesAreWhole DEF WireInv, WireTypes
<1> QED
  BY <1>1, <1>2

\* A TOP that was handled is the request before the last one.
LEMMA TopWasBeforeBye ==
  ASSUME WireInv, NEW i \in 1 .. Len(handled), handled[i].request.type = "TOP"
  PROVE  i = Len(list) - 1
<1>1. /\ i \in 1 .. Len(returned) /\ list \in Programs
      /\ returned[i] \in Marker => handled[i].request = Invalid
      /\ returned[i] \notin Marker => handled[i].request = decode(returned[i])
  <2>1. Len(handled) \in Nat /\ Len(returned) \in Nat /\ Len(handled) <= Len(returned)
    BY DEF WireInv, WireTypes, OneAtATime
  <2> QED
    BY <2>1 DEF WireInv, WireTypes, Decoded
<1>2. returned[i] \notin Marker
  BY <1>1 DEF Invalid, Message
<1>3. i \in 1 .. Len(list) /\ returned[i] = Spelled(list[i])
  BY <1>1, <1>2, LineIsRequest
<1> QED
  BY <1>1, <1>2, <1>3, TopComesBeforeBye

\* A reply on its way is that of the request the program is at, with an ERROR
\* behind it if reading has failed since.
LEMMA OnItsWay ==
  ASSUME WireInv, ReplyTypes, client = "read", next \in 1 .. Len(list), InTurn, Pending # << >>
  PROVE  LET reply == handled[next].reply
         IN  /\ next \in 1 .. Len(handled)
             /\ \/ Len(handled) = next /\ Pending = ReplyText(reply) \o << >>
                \/ /\ Len(handled) = next + 1 /\ returned[next + 1] \in Marker
                   /\ handled[next + 1].reply = ERROR
                   /\ Pending = ReplyText(reply) \o Spelled(ERROR)
<1>1. next \in Nat \ {0} /\ Len(handled) \in Nat
  BY LinesAreWhole DEF WireInv, WireTypes
<1>2. CASE Len(handled) = next /\ Pending = ReplyText(handled[next].reply)
  <2>1. Pending \in Text
    BY ConcatTexts DEF ReplyTypes, Pending
  <2>2. Pending \o << >> = Pending
    BY <2>1 DEF Text
  <2>3. next \in 1 .. Len(handled)
    BY <1>1, <1>2
  <2> QED
    BY <1>2, <2>2, <2>3, Zenon
<1>3. CASE /\ Len(handled) = next + 1 /\ returned[next + 1] \in Marker
           /\ Pending = ReplyText(handled[next].reply) \o Spelled(ERROR)
  <2>1. next \in 1 .. Len(handled) /\ next + 1 \in 1 .. Len(handled)
    BY <1>1, <1>3
  <2>2. handled[next + 1].reply = ERROR
    BY <1>3, <2>1 DEF WireInv, Decoded
  <2> QED
    BY <1>3, <2>1, <2>2, Zenon
<1> QED
  BY <1>2, <1>3, Zenon DEF InTurn

\* A reply that the program takes for a success is an OK or a DATA.
LEMMA TakenReply ==
  ASSUME NEW reply \in {Request("OK"), FAILED, ERROR, Invalid}
                         \cup {Message("DATA", <<v>>) : v \in Values},
         NEW more \in Text, more = << >> \/ more = Spelled(ERROR),
         NEW taken \in Text, NEW left \in Text, decode(taken) # Invalid,
         decode(taken).type \notin {"FAILED", "ERROR"},
         taken \o left = ReplyText(reply) \o more
  PROVE  /\ \/ /\ reply.type = "OK" /\ decode(taken).type = "OK"
               /\ left = more \/ (more = Spelled(ERROR) /\ left = << >>)
            \/ /\ reply.type = "DATA" /\ decode(taken).type = "DATA"
               /\ Words(get_value(reply)) = <<get_value(decode(taken))>>
         /\ NoData(left)
<1> DEFINE words == <<"a", Space, "a">>
<1>1. words \in Text /\ << >> \in Text
  <2>1. "a" \in Piece /\ Space \in Piece
    BY Pieces, WireAssumption DEF Piece
  <2> QED
    BY <2>1 DEF Text
<1>2. FAILED = Message("FAILED", <<words>>) /\ ERROR = Message("ERROR", <<words>>)
  BY DEF FAILED, ERROR
<1> HIDE DEF words
<1>3. Request("OK").type = "OK" /\ Invalid.type = "invalid" /\ FAILED.type = "FAILED"
      /\ ERROR.type = "ERROR"
  BY DEF Request, Invalid, FAILED, ERROR, Message
<1>4. CASE reply = Request("OK")
  <2>1. taken \o left = Spelled(Request("OK")) \o more
    BY <1>3, <1>4 DEF ReplyText
  <2>2. /\ decode(taken).type = "OK"
        /\ left = more \/ (more = Spelled(ERROR) /\ left = << >>)
    BY <2>1, TakenOK
  <2>3. NoData(left)
    BY <2>2, NoDataIsLeft
  <2> QED
    BY <1>3, <1>4, <2>2, <2>3
<1>5. CASE reply \in {FAILED, ERROR}
  <2>1. CASE reply = FAILED
    <3>1. taken \o left = Spelled(Message("FAILED", <<words>>)) \o more
      BY <1>2, <1>3, <2>1 DEF ReplyText
    <3>2. decode(taken).type = "FAILED"
      BY <1>1, <3>1, TakenRefusal
    <3> QED
      BY <3>2
  <2>2. CASE reply = ERROR
    <3>1. taken \o left = Spelled(Message("ERROR", <<words>>)) \o more
      BY <1>2, <1>3, <2>2 DEF ReplyText
    <3>2. decode(taken).type = "ERROR"
      BY <1>1, <3>1, TakenRefusal
    <3> QED
      BY <3>2
  <2> QED
    BY <1>5, <2>1, <2>2
<1>6. CASE reply = Invalid
  <2>1. taken \o left = << >> \o more
    BY <1>6 DEF ReplyText
  <2>2. taken \o left = more
    BY <2>1 DEF Text
  <2>3. Len(more) # 0
    <3>1. Len(taken \o left) = Len(taken) + Len(left) /\ Len(left) \in Nat
      BY ConcatTexts
    <3>2. Len(taken) \in Nat \ {0}
      BY DecodedText, EmptySeq DEF Text
    <3> QED
      BY <2>2, <3>1, <3>2
  <2>4. more = Spelled(Message("ERROR", <<words>>))
    BY <1>2, <2>3
  <2>5. more \o << >> = more
    BY DEF Text
  <2>6. taken \o left = Spelled(Message("ERROR", <<words>>)) \o << >>
    BY <2>2, <2>4, <2>5, Zenon
  <2>7. decode(taken).type = "ERROR"
    BY <1>1, <2>6, TakenRefusal
  <2> QED
    BY <2>7
<1>7. CASE \E v \in Values : reply = Message("DATA", <<v>>)
  <2>1. PICK v \in Values : reply = Message("DATA", <<v>>)
    BY <1>7
  <2>2. v \in Text /\ NoQuote(v) /\ OneLine(v)
    BY WireAssumption DEF Text, NoQuote, OneLine
  <2>3. reply.type = "DATA" /\ get_value(reply) = v /\ reply # Invalid
    BY <2>1 DEF Message, get_value, FirstArg, Invalid
  <2>4. taken \o left = Spelled(Message("DATA", <<v>>)) \o more
    BY <2>1, <2>3 DEF ReplyText
  <2>5. /\ decode(taken).type = "DATA" /\ Words(v) = <<get_value(decode(taken))>>
        /\ NoData(left)
    BY <2>2, <2>4, TakenData
  <2> QED
    BY <2>3, <2>5, Zenon
<1> QED
  BY <1>4, <1>5, <1>6, <1>7

\* One more request has been served, with a reply that is taken for a success.
LEMMA OneMoreServed ==
  ASSUME WireInv, ReplyTypes, next \in Nat \ {0}, next <= Len(handled),
         Served(next - 1, handled, result),
         LET type == handled[next].reply.type
         IN  \/ type = "OK" /\ result' = result
             \/ type = "DATA" /\ Words(get_value(handled[next].reply)) = <<result'>>
  PROVE  Served(next, handled, result')
<1>1. Len(handled) \in Nat
  BY DEF WireInv, WireTypes
<1>2. \A i \in 1 .. next : i = next \/ i \in 1 .. next - 1
  OBVIOUS
<1>3. ASSUME NEW i \in 1 .. next - 1
      PROVE  /\ handled[i].reply.type \in {"OK", "DATA"}
             /\ handled[i].reply.type = "DATA" =>
                  Words(get_value(handled[i].reply)) = <<result>>
  BY DEF Served
<1>4. CASE handled[next].reply.type = "OK" /\ result' = result
  <2>1. ASSUME NEW i \in 1 .. next
        PROVE  /\ handled[i].reply.type \in {"OK", "DATA"}
               /\ handled[i].reply.type = "DATA" =>
                    Words(get_value(handled[i].reply)) = <<result'>>
    BY <1>2, <1>3, <1>4
  <2> QED
    BY <2>1 DEF Served
<1>5. CASE /\ handled[next].reply.type = "DATA"
           /\ Words(get_value(handled[next].reply)) = <<result'>>
  <2>1. ASSUME NEW i \in 1 .. next - 1 PROVE handled[i].reply.type = "OK"
    <3>1. i \in 1 .. Len(handled) /\ next \in 1 .. Len(handled)
      BY <1>1
    <3>2. next = Len(list) - 1
      BY <1>5, <3>1, TopWasBeforeBye DEF ReplyTypes
    <3>3. handled[i].reply.type = "DATA" => i = Len(list) - 1
      BY <3>1, TopWasBeforeBye DEF ReplyTypes
    <3> QED
      BY <1>3, <3>2, <3>3
  <2>2. ASSUME NEW i \in 1 .. next
        PROVE  /\ handled[i].reply.type \in {"OK", "DATA"}
               /\ handled[i].reply.type = "DATA" =>
                    Words(get_value(handled[i].reply)) = <<result'>>
    BY <1>2, <1>5, <2>1
  <2> QED
    BY <2>2 DEF Served
<1> QED
  BY <1>4, <1>5

\* The program takes what has arrived: the reply to the request it is at, and
\* at BYE whatever is there.
LEMMA ReadReplyReplies ==
  ASSUME WireInv, ReplyTypes, RepliesInTurn, ReadReply PROVE ReplyTypes' /\ RepliesInTurn'
<1>1. /\ client = "read" /\ UNCHANGED <<clientfd, list, handled, session, outgoing>>
  BY DEF ReadReply, sessionVars
<1>2. next \in 1 .. Len(list) /\ Len(list) \in Nat /\ Len(handled) \in Nat
  BY <1>1, LinesAreWhole DEF WireInv, WireTypes
<1>3. /\ Served(next - 1, handled, result)
      /\ next < Len(list) => InTurn
      /\ next = Len(list) => NoData(Pending)
  BY <1>1 DEF RepliesInTurn
<1>4. CASE client' \in {"exit 1", "abort"} /\ answers' \in Text
  <2>1. ReplyTypes'
    BY <1>1, <1>4 DEF ReplyTypes
  <2>2. client' \notin {"write", "read", "exit 0"}
    BY <1>4
  <2> QED
    BY <2>1, <2>2 DEF RepliesInTurn
<1>5. CASE /\ session = "over"
           /\ \/ answers = << >> /\ Exits("abort")
              \/ Exits("exit 1")
           /\ UNCHANGED <<next, result, answers>>
  <2>1. client' \in {"exit 1", "abort"} /\ answers' = answers
    BY <1>5 DEF Exits
  <2> QED
    BY <1>4, <2>1 DEF ReplyTypes
<1>6. CASE \E n \in 1 .. Len(answers) :
             /\ Takes(SubSeq(answers, 1, n))
             /\ answers' = SubSeq(answers, n + 1, Len(answers))
  <2>1. PICK n \in 1 .. Len(answers) :
          /\ Takes(SubSeq(answers, 1, n))
          /\ answers' = SubSeq(answers, n + 1, Len(answers))
    BY <1>6
  <2> DEFINE taken == SubSeq(answers, 1, n)
             later == SubSeq(answers, n + 1, Len(answers))
             left == later \o outgoing
             m == decode(taken)
  <2>2. answers \in Text /\ outgoing \in Text
    BY DEF ReplyTypes
  <2>3. taken \in Text /\ later \in Text /\ answers = taken \o later
    BY <2>2, CutAfter
  <2>4. Takes(taken) /\ answers' = later
    BY <2>1
  <2> HIDE DEF taken, later
  <2>5. left \in Text
    BY <2>2, <2>3, ConcatTexts
  <2>6. Pending = taken \o left /\ Pending' = left
    <3>1. (taken \o later) \o outgoing = taken \o (later \o outgoing)
      BY <2>2, <2>3, Regroup, ZenonT(40)
    <3>2. outgoing' = outgoing
      BY <1>1
    <3> QED
      BY <2>3, <2>4, <3>1, <3>2, Zenon DEF Pending
  <2> HIDE DEF left, m
  <2>7. CASE m = Invalid \/ m.type \in {"FAILED", "ERROR"}
    <3>1. client' \in {"exit 1", "abort"}
      BY <2>4, <2>7 DEF Takes, Exits, m
    <3> QED
      BY <1>4, <2>3, <2>4, <3>1
  <2>8. CASE m # Invalid /\ m.type \notin {"FAILED", "ERROR"}
    <3>1. /\ result' = IF m.type = "DATA" THEN get_value(m) ELSE result
          /\ m.type # "invalid" => next' = next + 1
          /\ next = Len(list) => client' = "exit 0"
          /\ next # Len(list) => client' = "write"
      BY <2>4, <2>8 DEF Takes, Exits, m
    <3>2. ReplyTypes'
      BY <1>1, <2>2, <2>3, <2>4, <3>1 DEF ReplyTypes
    <3>3. CASE next = Len(list)
      <4>1. m.type # "DATA"
        BY <1>3, <2>3, <2>5, <2>6, <3>3, NoDataTaken DEF m
      <4>2. result' = result /\ client' = "exit 0" /\ list' = list /\ handled' = handled
        BY <1>1, <3>1, <3>3, <4>1
      <4>3. Served(Len(list) - 1, handled, result)
        BY <1>3, <3>3
      <4>4. Served(Len(list') - 1, handled', result')
        BY <4>2, <4>3
      <4> QED
        BY <3>2, <4>2, <4>4 DEF RepliesInTurn
    <3>4. CASE next # Len(list)
      <4> DEFINE reply == handled[next].reply
      <4>1. InTurn
        BY <1>2, <1>3, <3>4
      <4>2. Pending # << >>
        <5>1. Len(taken \o left) = Len(taken) + Len(left) /\ Len(left) \in Nat
          BY <2>3, <2>5, ConcatTexts
        <5>2. Len(taken) \in Nat \ {0}
          BY <2>3, <2>8, DecodedText, EmptySeq DEF Text, m
        <5>3. Len(Pending) # 0
          BY <2>6, <5>1, <5>2
        <5> QED
          BY <5>3
      <4>3. /\ next \in 1 .. Len(handled)
            /\ \/ Len(handled) = next /\ Pending = ReplyText(reply) \o << >>
               \/ /\ Len(handled) = next + 1 /\ returned[next + 1] \in Marker
                  /\ handled[next + 1].reply = ERROR
                  /\ Pending = ReplyText(reply) \o Spelled(ERROR)
        BY <1>1, <1>2, <4>1, <4>2, OnItsWay
      <4>4. PICK more \in {<< >>, Spelled(ERROR)} :
              /\ Pending = ReplyText(reply) \o more
              /\ \/ more = << >> /\ Len(handled) = next
                 \/ /\ more = Spelled(ERROR) /\ Len(handled) = next + 1
                    /\ returned[next + 1] \in Marker /\ handled[next + 1].reply = ERROR
        BY <4>3, Zenon
      <4>5. more \in Text /\ (more = << >> \/ more = Spelled(ERROR))
        <5>1. << >> \in Text /\ Spelled(ERROR) \in Text
          BY ErrorText DEF Text
        <5> QED
          BY <5>1, Zenon
      <4>6. reply \in {Request("OK"), FAILED, ERROR, Invalid}
                        \cup {Message("DATA", <<v>>) : v \in Values}
        <5>1. handled[next] \in Exchange
          BY <4>3, ElementOfSeq DEF WireInv, WireTypes
        <5> QED
          BY <5>1 DEF Exchange
      <4> HIDE DEF reply
      <4>7. taken \o left = ReplyText(reply) \o more
        BY <2>6, <4>4, Zenon
      <4>8. /\ \/ /\ reply.type = "OK" /\ m.type = "OK"
                  /\ left = more \/ (more = Spelled(ERROR) /\ left = << >>)
               \/ /\ reply.type = "DATA" /\ m.type = "DATA"
                  /\ Words(get_value(reply)) = <<get_value(m)>>
            /\ NoData(left)
        BY <2>3, <2>5, <2>8, <4>5, <4>6, <4>7, TakenReply DEF m
      <4>9. next' = next + 1 /\ client' = "write" /\ list' = list /\ handled' = handled
        BY <1>1, <3>1, <3>4, <4>8
      <4>10. Served(next, handled, result')
        <5>1. next \in Nat \ {0} /\ next <= Len(handled)
          BY <1>2, <4>3
        <5>2. \/ reply.type = "OK" /\ result' = result
              \/ reply.type = "DATA" /\ Words(get_value(reply)) = <<result'>>
          BY <3>1, <4>8
        <5> QED
          BY <1>3, <4>9, <5>1, <5>2, OneMoreServed DEF reply
      <4>11. Served(next' - 1, handled', result')
        <5>1. next' - 1 = next
          BY <1>2, <4>9
        <5> QED
          BY <4>9, <4>10, <5>1
      <4>12. ASSUME next' < Len(list') PROVE InTurn'
        <5>1. reply.type # "DATA"
          <6>1. reply.type = "DATA" => next = Len(list) - 1
            BY <4>3, TopWasBeforeBye DEF ReplyTypes, reply
          <6> QED
            BY <1>2, <4>9, <4>12, <6>1
        <5>2. left = more \/ (more = Spelled(ERROR) /\ left = << >>)
          BY <4>8, <5>1
        <5>3. CASE more = << >> /\ Len(handled) = next
          <6>1. Len(handled') = next' - 1
            BY <1>2, <4>9, <5>3
          <6>2. Pending' = << >>
            BY <2>6, <5>2, <5>3, Zenon
          <6> QED
            BY <6>1, <6>2, Zenon DEF InTurn
        <5>4. CASE /\ more = Spelled(ERROR) /\ Len(handled) = next + 1
                   /\ returned[next + 1] \in Marker /\ handled[next + 1].reply = ERROR
          <6>1. Len(handled') = next' /\ returned' = returned
            <7>1. returned' = returned
              BY <2>4, <2>8, <3>4 DEF Takes, m, rioVars
            <7> QED
              BY <4>9, <5>4, <7>1
          <6>2. returned'[next'] \in Marker /\ handled'[next'].reply = ERROR
            BY <4>9, <5>4, <6>1
          <6>3. ReplyText(ERROR) = Spelled(ERROR)
            BY DEF ReplyText, ERROR, Invalid, Message
          <6>4. CASE left = << >>
            <7>1. Pending' = << >>
              BY <2>6, <6>4, Zenon
            <7> QED
              BY <6>1, <6>2, <7>1, Zenon DEF InTurn, Marker
          <6>5. CASE left = Spelled(ERROR)
            <7>1. Pending' = ReplyText(handled'[next'].reply)
              BY <2>6, <6>2, <6>3, <6>5, Zenon
            <7> QED
              BY <6>1, <6>2, <7>1, Zenon DEF InTurn, Marker
          <6> QED
            BY <5>2, <5>4, <6>4, <6>5
        <5> QED
          BY <4>4, <5>3, <5>4
      <4>13. NoData(Pending')
        BY <2>6, <4>8, Zenon
      <4> QED
        BY <3>2, <4>9, <4>11, <4>12, <4>13 DEF RepliesInTurn, NoData
    <3> QED
      BY <3>3, <3>4
  <2> QED
    BY <2>7, <2>8
<1> QED
  BY <1>5, <1>6 DEF ReadReply

\* Texts without a DATA have none when they are put together.
LEMMA NoDataTogether ==
  ASSUME NEW s \in Text, NEW t \in Text, NoData(s), NoData(t)
  PROVE  s \o t \in Text /\ NoData(s \o t)
<1> DEFINE both == s \o t
<1>1. /\ both \in Text /\ Len(both) = Len(s) + Len(t) /\ Len(s) \in Nat /\ Len(t) \in Nat
      /\ \A i \in 1 .. Len(s) : both[i] = s[i]
      /\ \A i \in 1 .. Len(t) : both[Len(s) + i] = t[i]
  BY ConcatTexts
<1> HIDE DEF both
<1>2. ASSUME NEW i \in 1 .. Len(both) PROVE both[i] # "DATA"
  <2>1. CASE i <= Len(s)
    BY <1>1, <2>1 DEF NoData
  <2>2. CASE i > Len(s)
    <3>1. i - Len(s) \in 1 .. Len(t) /\ Len(s) + (i - Len(s)) = i
      BY <1>1, <2>2
    <3>2. both[i] = t[i - Len(s)]
      BY <1>1, <3>1
    <3> QED
      BY <3>1, <3>2 DEF NoData
  <2> QED
    BY <1>1, <2>1, <2>2
<1> QED
  BY <1>1, <1>2 DEF NoData, both

\* What the sessions write are texts, and only a DATA has a DATA in it.
LEMMA ReplyIsText ==
  ASSUME NEW reply \in {Request("OK"), FAILED, ERROR, Invalid}
                         \cup {Message("DATA", <<v>>) : v \in Values}
  PROVE  /\ ReplyText(reply) \in Text
         /\ reply.type # "DATA" => NoData(ReplyText(reply))
<1> DEFINE words == <<"a", Space, "a">>
           newline == <<Newline>>
<1>1. words \in Text /\ newline \in Text /\ << >> \in Text
  <2>1. "a" \in Piece /\ Space \in Piece /\ Newline \in Piece
    BY Pieces, WireAssumption DEF Piece
  <2> QED
    BY <2>1 DEF Text
<1>2. NoData(words) /\ NoData(newline) /\ NoData(<< >>)
  <2>1. "a" # "DATA" /\ Space # "DATA" /\ Newline # "DATA"
    BY DEF Space, Newline
  <2>2. /\ words[1] # "DATA" /\ words[2] # "DATA" /\ words[3] # "DATA"
        /\ newline[1] # "DATA" /\ Len(words) = 3 /\ Len(newline) = 1 /\ Len(<< >>) = 0
    BY <2>1
  <2> HIDE DEF words, newline
  <2> QED
    BY <2>2 DEF NoData
<1>3. FAILED = Message("FAILED", <<words>>) /\ ERROR = Message("ERROR", <<words>>)
  BY DEF FAILED, ERROR
<1>4. CASE reply = Request("OK")
  <2>1. ReplyText(reply) = <<"OK">> \o newline
    BY <1>4, OKText DEF ReplyText, Request, Invalid, Message
  <2>2. <<"OK">> \in Text /\ NoData(<<"OK">>)
    BY OKText, Pieces DEF Text, NoData
  <2> QED
    BY <1>1, <1>2, <2>1, <2>2, NoDataTogether
<1>5. ASSUME NEW name \in {"FAILED", "ERROR"}, reply = Message(name, <<words>>)
      PROVE  ReplyText(reply) \in Text /\ NoData(ReplyText(reply))
  <2> DEFINE head == <<name, Space>>
  <2>1. name \in TypeName /\ name # "DATA" /\ Space # "DATA"
    BY DEF TypeName, ResponseType, Space
  <2>2. ReplyText(reply) = head \o words \o newline
    <3>1. ReplyText(reply) = Spelled(Message(name, <<words>>))
      BY <1>5 DEF ReplyText, Invalid, Message
    <3> HIDE DEF words
    <3>2. Spelled(Message(name, <<words>>)) = <<name, Space>> \o words \o <<Newline>>
      BY <1>1, <2>1, SpelledWithOne
    <3> QED
      BY <3>1, <3>2, Zenon
  <2>3. head \in Text /\ NoData(head)
    <3>1. Len(head) = 2 /\ head[1] # "DATA" /\ head[2] # "DATA"
      BY <2>1
    <3>2. name \in Piece /\ Space \in Piece
      BY <2>1, Pieces
    <3>3. head \in Text
      BY <3>2 DEF Text
    <3> HIDE DEF head
    <3> QED
      BY <3>1, <3>3 DEF NoData
  <2> HIDE DEF head, words, newline
  <2>4. head \o words \in Text /\ NoData(head \o words)
    BY <1>1, <1>2, <2>3, NoDataTogether
  <2> QED
    BY <1>1, <1>2, <2>2, <2>4, NoDataTogether
<1>6. CASE reply = Invalid
  BY <1>1, <1>2, <1>6 DEF ReplyText
<1>7. CASE \E v \in Values : reply = Message("DATA", <<v>>)
  <2>1. PICK v \in Values : reply = Message("DATA", <<v>>)
    BY <1>7
  <2>2. v \in Text /\ "DATA" \in TypeName
    BY WireAssumption, Pieces DEF Text
  <2>3. Spelled(Message("DATA", <<v>>)) \in Text
    BY <1>1, <2>2, SpelledStarts
  <2>4. ReplyText(reply) = Spelled(Message("DATA", <<v>>)) /\ reply.type = "DATA"
    BY <2>1 DEF ReplyText, Invalid, Message
  <2> QED
    BY <2>3, <2>4
<1> HIDE DEF words
<1> QED
  BY <1>3, <1>4, <1>5, <1>6, <1>7

\* The session answers a request that the program has written, and after the
\* last one only a failed read.
LEMMA AnsweredLine ==
  ASSUME WireInv, client \in {"write", "read"}, clientfd = 0,
         NEW k \in Nat, Len(returned) = k + 1
  PROVE  /\ \A i \in 1 .. k : returned[i] \notin Marker
         /\ returned[k + 1] \notin Marker =>
              k + 1 <= next /\ (client = "write" => k + 1 <= next - 1)
<1>1. ASSUME NEW i \in 1 .. k, returned[i] \in Marker PROVE FALSE
  <2>1. i \in 1 .. Len(returned) /\ i # Len(returned)
    OBVIOUS
  <2>2. i <= Len(list) /\ returned[i] = Lines[i]
    BY <2>1 DEF WireInv, LinesAreRequests
  <2>3. i \in 1 .. Len(list)
    BY <2>2, LinesAreWhole DEF WireInv, WireTypes
  <2>4. Lines[i] \in Text
    BY <2>3, LinesAreWhole DEF WireInv, WireTypes
  <2> QED
    BY <1>1, <2>2, <2>4, WireAssumption DEF Marker, Text
<1>2. ASSUME returned[k + 1] \notin Marker
      PROVE  k + 1 <= next /\ (client = "write" => k + 1 <= next - 1)
  <2>1. ~Failed
    BY <1>2 DEF Failed
  <2>2. PICK n \in Len(returned) .. Len(list) :
          /\ client = "write" /\ clientfd = 0 => n = next - 1
          /\ client = "read" => n = next
    BY <2>1 DEF WireInv, Written
  <2>3. next \in Nat /\ Len(list) \in Nat
    BY LinesAreWhole DEF WireInv, WireTypes
  <2> QED
    BY <2>2, <2>3
<1> QED
  BY <1>1, <1>2

\* A request is answered once what was answered before has been written.
LEMMA HandleReplies ==
  ASSUME WireInv, ReplyTypes, RepliesInTurn, Handle PROVE ReplyTypes' /\ RepliesInTurn'
<1> DEFINE k == Len(handled)
           line == Last(returned)
           m == IF line \in Marker THEN Invalid ELSE decode(line)
<1>1. PICK r \in IF Rejected(m) THEN {ERROR} ELSE Replies(m) :
        /\ handled' = Append(handled, [request |-> m, reply |-> r])
        /\ outgoing' = ReplyText(r)
        /\ session' = IF r = Invalid THEN "over" ELSE "writing"
        /\ session = "reading" /\ Len(returned) > k
        /\ UNCHANGED <<returned, client, clientfd, list, next, result, answers>>
  BY DEF Handle, rioVars, clientVars, Marker, ReplyText
<1>2. /\ k \in Nat /\ Len(returned) = k + 1 /\ line = returned[k + 1] /\ client # "start"
  <2>1. k \in Nat /\ Len(returned) \in Nat
    BY DEF WireInv, WireTypes
  <2> QED
    BY <1>1, <2>1 DEF WireInv, OneAtATime, Last
<1>3. answers \in Text /\ outgoing = << >> /\ clientfd = 0
  BY <1>1 DEF ReplyTypes
<1>4. line \in Marker => m = Invalid /\ r = ERROR
  <2>1. ASSUME line \in Marker PROVE m = Invalid /\ Rejected(m)
    <3>1. m = Invalid
      BY <2>1
    <3>2. m.type \notin RequestType
      BY <3>1 DEF Invalid, Message, RequestType
    <3> QED
      BY <3>1, <3>2 DEF Rejected
  <2> QED
    BY <1>1, <2>1
<1>5. line \notin Marker => m = decode(line)
  OBVIOUS
<1> HIDE DEF m, line
<1>6. /\ r \in {Request("OK"), FAILED, ERROR, Invalid}
                  \cup {Message("DATA", <<v>>) : v \in Values}
      /\ r.type = "DATA" => m.type = "TOP"
  <2>1. /\ Request("OK").type # "DATA" /\ FAILED.type # "DATA" /\ ERROR.type # "DATA"
        /\ Invalid.type # "DATA"
    BY DEF Request, FAILED, ERROR, Invalid, Message
  <2>2. CASE Rejected(m)
    BY <1>1, <2>1, <2>2
  <2>3. CASE ~Rejected(m)
    <3>1. m.type \in RequestType /\ r \in Replies(m)
      BY <1>1, <2>3 DEF Rejected
    <3> QED
      BY <2>1, <3>1 DEF Replies, RequestType
  <2> QED
    BY <2>2, <2>3
<1>7. /\ Len(handled') = k + 1 /\ \A i \in 1 .. k : handled'[i] = handled[i]
      /\ handled'[k + 1].request = m /\ handled'[k + 1].reply = r
  <2> DEFINE exchange == [request |-> m, reply |-> r]
  <2>1. exchange.request = m /\ exchange.reply = r
    OBVIOUS
  <2> HIDE DEF exchange
  <2>2. /\ handled \in Seq({handled[i] : i \in 1 .. k} \cup {exchange})
        /\ handled' = Append(handled, exchange)
    BY <1>1, SMTT(30) DEF WireInv, WireTypes, exchange
  <2> QED
    BY <2>1, <2>2, AppendProperties
<1> HIDE DEF k
<1>8. ReplyText(r) \in Text /\ (r.type # "DATA" => NoData(ReplyText(r)))
  BY <1>6, ReplyIsText
<1>9. ReplyTypes'
  <2>1. ASSUME NEW i \in 1 .. Len(handled'), handled'[i].reply.type = "DATA"
        PROVE  handled'[i].request.type = "TOP"
    <3>1. CASE i = k + 1
      BY <1>6, <1>7, <2>1, <3>1
    <3>2. CASE i # k + 1
      <4>1. i \in 1 .. k
        BY <1>2, <1>7, <3>2
      <4> QED
        BY <1>7, <2>1, <4>1 DEF ReplyTypes, k
    <3> QED
      BY <3>1, <3>2
  <2>2. session' # "writing" => outgoing' = << >>
    BY <1>1 DEF ReplyText
  <2> QED
    BY <1>1, <1>2, <1>3, <1>8, <2>1, <2>2 DEF ReplyTypes
<1>10. Pending = answers /\ Pending' = Pending \o ReplyText(r)
  <2>1. answers \o << >> = answers
    BY <1>3 DEF Text
  <2>2. Pending = answers
    BY <1>3, <2>1, Zenon DEF Pending
  <2> QED
    BY <1>1, <2>2, Zenon DEF Pending
<1>11. ASSUME NEW n \in Int, Served(n, handled, result) PROVE Served(n, handled', result')
  <2>1. n <= k /\ \A i \in 1 .. n : i \in 1 .. k
    BY <1>2, <1>11 DEF Served, k
  <2>2. result' = result /\ n <= Len(handled')
    BY <1>1, <1>2, <1>7, <2>1
  <2> QED
    BY <1>7, <1>11, <2>1, <2>2 DEF Served
<1>12. Len(list) \in Nat /\ (client \in {"write", "read"} => next \in 1 .. Len(list))
  BY LinesAreWhole DEF WireInv, WireTypes
<1>13. Len(list) - 1 \in Int
  BY <1>12
<1>14. CASE client \in {"write", "read"}
  <2>1. /\ \A i \in 1 .. k : returned[i] \notin Marker
        /\ line \notin Marker => k + 1 <= next /\ (client = "write" => k + 1 <= next - 1)
    BY <1>2, <1>3, <1>14, AnsweredLine
  <2>2. Served(next - 1, handled', result') /\ next - 1 <= k
    <3>1. Served(next - 1, handled, result)
      BY <1>14 DEF RepliesInTurn
    <3>2. next - 1 \in Int
      BY <1>12, <1>14
    <3>3. next - 1 <= k
      BY <3>1 DEF Served, k
    <3> QED
      BY <1>11, <3>1, <3>2, <3>3, Zenon
  <2>3. ASSUME next < Len(list) PROVE InTurn'
    <3>1. InTurn
      BY <1>14, <2>3 DEF RepliesInTurn
    <3>2. CASE k = next - 1 /\ Pending = << >>
      <4>1. Len(handled') = next' /\ next' = k + 1 /\ returned' = returned /\ client' = client
        BY <1>1, <1>2, <1>7, <1>12, <1>14, <3>2
      <4>2. << >> \o ReplyText(r) = ReplyText(r)
        BY <1>8 DEF Text
      <4>3. Pending' = ReplyText(handled'[next'].reply)
        BY <1>7, <1>10, <3>2, <4>1, <4>2, Zenon
      <4>4. client = "write" => line \in Marker
        BY <1>2, <1>12, <1>14, <2>1, <3>2
      <4>5. client' = "write" => returned'[next'] \in Marker
        BY <1>2, <4>1, <4>4
      <4> QED
        BY <4>1, <4>3, <4>5, Zenon DEF InTurn, Marker
    <3>3. CASE /\ k = next /\ Pending = ReplyText(handled[next].reply)
               /\ client = "write" => returned[next] \in Marker
      <4>1. line \in Marker /\ client = "read" /\ next \in 1 .. k
        BY <1>2, <1>12, <1>14, <2>1, <3>3
      <4>2. /\ Len(handled') = next' + 1 /\ client' = "read" /\ returned'[next' + 1] \in Marker
            /\ handled'[next'].reply = handled[next].reply
        BY <1>1, <1>2, <1>7, <3>3, <4>1
      <4>3. ReplyText(r) = Spelled(ERROR)
        BY <1>4, <4>1 DEF ReplyText, ERROR, Invalid, Message
      <4>4. Pending' = ReplyText(handled'[next'].reply) \o Spelled(ERROR)
        BY <1>10, <3>3, <4>2, <4>3, Zenon
      <4> QED
        BY <4>2, <4>4, Zenon DEF InTurn, Marker
    <3>4. CASE k = next /\ Pending = << >> /\ returned[next] \in Marker
      BY <1>2, <1>12, <1>14, <2>1, <3>4
    <3>5. CASE /\ k = next + 1 /\ client = "read" /\ returned[next + 1] \in Marker
               /\ Pending = ReplyText(handled[next].reply) \o Spelled(ERROR)
      BY <1>2, <1>12, <1>14, <2>1, <3>5
    <3> QED
      BY <3>1, <3>2, <3>3, <3>4, <3>5, Zenon DEF InTurn, k
  <2>4. ASSUME next = Len(list) PROVE NoData(Pending')
    <3>1. NoData(Pending)
      BY <1>14, <2>4 DEF RepliesInTurn
    <3>2. ASSUME r.type = "DATA" PROVE FALSE
      <4>1. m.type = "TOP" /\ line \notin Marker
        BY <1>4, <1>6, <3>2 DEF Invalid, Message
      <4>2. k + 1 \in 1 .. Len(returned)
        BY <1>2
      <4>3. k + 1 \in 1 .. Len(list) /\ line = Spelled(list[k + 1])
        BY <1>2, <4>1, <4>2, LineIsRequest
      <4>4. decode(Spelled(list[k + 1])).type = "TOP" /\ list \in Programs
        BY <1>5, <4>1, <4>3 DEF WireInv, WireTypes
      <4>5. k + 1 = Len(list) - 1
        BY <4>3, <4>4, TopComesBeforeBye
      <4> QED
        BY <1>2, <1>12, <2>2, <2>4, <4>5
    <3>3. NoData(ReplyText(r)) /\ Pending \in Text
      BY <1>3, <1>8, <1>10, <3>2
    <3>4. NoData(Pending \o ReplyText(r))
      BY <1>8, <3>1, <3>3, NoDataTogether
    <3> QED
      BY <1>10, <3>4, Zenon
  <2>5. client' = client /\ next' = next /\ list' = list
    BY <1>1
  <2> QED
    BY <1>9, <1>14, <2>2, <2>3, <2>4, <2>5 DEF RepliesInTurn, NoData
<1>15. CASE client \notin {"write", "read"}
  <2>1. client' = client /\ list' = list
    BY <1>1
  <2>2. client = "exit 0" => Served(Len(list) - 1, handled', result')
    <3> SUFFICES ASSUME client = "exit 0" PROVE Served(Len(list) - 1, handled', result')
      OBVIOUS
    <3>1. Served(Len(list) - 1, handled, result)
      BY DEF RepliesInTurn
    <3> QED
      BY <1>11, <1>13, <3>1, Zenon
  <2> QED
    BY <1>9, <1>15, <2>1, <2>2 DEF RepliesInTurn
<1> QED
  BY <1>14, <1>15

\* What is on its way is in turn after every step.
LEMMA RepliesStep ==
  ASSUME WireInv, ReplyTypes, RepliesInTurn, [WireNext]_wireVars
  PROVE  ReplyTypes' /\ RepliesInTurn'
<1>1. CASE ReadLine \/ ReadFails
  <2>1. UNCHANGED <<client, clientfd, list, next, result, answers, outgoing, handled, session>>
    BY <1>1 DEF ReadLine, ReadFails, clientVars, sessionVars
  <2>2. \/ Len(returned) = Len(handled) /\ Reader!rio_readlineb
        \/ Reader!Refill \/ Reader!RefillEnd \/ Reader!CopyByte \/ Reader!RefillFails
    BY <1>1 DEF ReadLine, ReadFails
  <2>3. returned' = returned \/ \E text : returned' = Append(returned, text)
    BY <2>2 DEF Reader!rio_readlineb, Reader!Refill, Reader!RefillEnd, Reader!CopyByte,
                Reader!RefillFails, Reader!Return
  <2>4. ASSUME NEW i \in 1 .. Len(handled) PROVE returned'[i] = returned[i]
    <3>1. /\ returned \in Seq(Text \cup Marker) /\ Len(returned) \in Nat
          /\ Len(handled) \in Nat /\ Len(handled) <= Len(returned)
      BY DEF WireInv, WireTypes, OneAtATime
    <3>2. i \in 1 .. Len(returned)
      BY <3>1
    <3>3. ASSUME NEW text, returned' = Append(returned, text) PROVE returned'[i] = returned[i]
      <4>1. returned \in Seq(Text \cup Marker \cup {text})
        BY <3>1
      <4> QED
        BY <3>2, <3>3, <4>1, AppendProperties
    <3> QED
      BY <2>3, <3>3
  <2> QED
    BY <2>1, <2>4, RepliesStay
<1>2. CASE UNCHANGED wireVars
  <2>1. /\ UNCHANGED <<client, clientfd, list, next, result, answers, outgoing, handled>>
        /\ returned' = returned /\ session' = session
    BY <1>2 DEF wireVars, rioVars, clientVars, sessionVars
  <2> QED
    BY <2>1, RepliesStay
<1>3. CASE Listen \/ Replied
  <2>1. /\ UNCHANGED <<client, clientfd, list, next, result, answers, outgoing, handled>>
        /\ returned' = returned
    BY <1>3 DEF Listen, Replied, rioVars, clientVars
  <2>2. outgoing = << >> /\ (clientfd # 0 => session' \in {"idle", "over"})
    BY <1>3 DEF Listen, Replied, ReplyTypes
  <2> QED
    BY <2>1, <2>2, RepliesStay
<1> QED
  BY <1>1, <1>2, <1>3, ConnectReplies, WriteRequestReplies, ReadReplyReplies, HandleReplies,
     WriteReplies DEF WireNext, ProgramStep, ServerStep

\* So the replies are in turn in every reachable state.
LEMMA RepliesHold == WireSpec => [](ReplyTypes /\ RepliesInTurn)
<1>1. /\ WireInv /\ ReplyTypes /\ RepliesInTurn /\ [WireNext]_wireVars
         => (ReplyTypes /\ RepliesInTurn)'
  BY RepliesStep
<1> QED
  BY <1>1, WireHolds, RepliesStart, PTL DEF WireSpec

\* What a program that is served in every request before BYE sent, is what the
\* server handled.
LEMMA ServedAsSent ==
  ASSUME WireInv, Served(Len(list) - 1, handled, result)
  PROVE  /\ Len(list) - 1 <= Len(handled)
         /\ \A i \in 1 .. Len(list) - 1 :
              /\ handled[i].request = decode(Spelled(list[i]))
              /\ handled[i].reply.type \in {"OK", "DATA"}
              /\ handled[i].reply.type = "DATA" => Words(get_value(handled[i].reply)) = <<result>>
<1>1. /\ Len(list) - 1 \in Int /\ Len(handled) \in Nat /\ Len(returned) \in Nat
      /\ Len(handled) <= Len(returned)
  <2>1. list \in Programs
    BY DEF WireInv, WireTypes
  <2>2. Len(list) \in Nat
    BY <2>1, WireAssumption
  <2> QED
    BY <2>2 DEF WireInv, WireTypes, OneAtATime
<1>2. Len(list) - 1 <= Len(handled)
  BY DEF Served
<1>3. ASSUME NEW i \in 1 .. Len(list) - 1 PROVE handled[i].request = decode(Spelled(list[i]))
  <2>1. i \in 1 .. Len(handled) /\ i \in 1 .. Len(returned)
    BY <1>1, <1>2
  <2>2. handled[i].reply.type \in {"OK", "DATA"}
    BY DEF Served
  <2>3. returned[i] \notin Marker
    BY <2>1, <2>2 DEF WireInv, Decoded, ERROR, Message
  <2>4. returned[i] = Spelled(list[i])
    BY <2>1, <2>3, LineIsRequest
  <2> QED
    BY <2>1, <2>3, <2>4 DEF WireInv, Decoded
<1> QED
  BY <1>2, <1>3 DEF Served

\* EXIT ZERO MEANS SERVED: for any list of requests with at most one TOP, any
\* values without quotes, and however the replies are cut into reads, a program
\* that reports success was served in every request before BYE, and what
\* get_value prints is the value that TOP found (set_value.cpp:26-58,
\* get_value.cpp:29-77, incr_value.cpp:26-59).
THEOREM ExitZeroIsServed == WireSpec => []ExitZeroMeansServed
<1>1. WireInv /\ RepliesInTurn => ExitZeroMeansServed
  <2> SUFFICES ASSUME WireInv, RepliesInTurn, client = "exit 0"
               PROVE  /\ Len(list) - 1 <= Len(handled)
                      /\ \A i \in 1 .. Len(list) - 1 :
                           /\ handled[i].request = decode(Spelled(list[i]))
                           /\ handled[i].reply.type \in {"OK", "DATA"}
                           /\ handled[i].reply.type = "DATA" =>
                                Words(get_value(handled[i].reply)) = <<result>>
    BY DEF ExitZeroMeansServed
  <2>1. Served(Len(list) - 1, handled, result)
    BY DEF RepliesInTurn
  <2> QED
    BY <2>1, ServedAsSent, Zenon
<1> QED
  BY <1>1, WireHolds, RepliesHold, PTL

=============================================================================
