------------------------------ MODULE RioProofs -----------------------------
(***************************************************************************)
(* Proofs about the buffered reader, for every size of the two buffers,    *)
(* every stream of bytes and every way read(2) has of cutting it up: its   *)
(* calls return the stream line by line.                                   *)
(***************************************************************************)
EXTENDS Rio, SequenceTheorems, TLAPS

\* What rio_readlineb can return.
Result == Seq(Char) \cup {EndOfFile, ReadError}

\* The bytes that no call has returned, in the order in which they were sent.
Unread == usrbuf \o rio_buf \o incoming

-----------------------------------------------------------------------------
(* Sequences.                                                              *)

\* Where the parentheses are makes no difference.
LEMMA Regroup ==
  ASSUME NEW s \in Seq(Char), NEW t \in Seq(Char), NEW u \in Seq(Char)
  PROVE  (s \o t) \o u = s \o (t \o u)
BY ConcatAssociative

\* What is put together can be taken apart.
LEMMA Split ==
  ASSUME NEW S, NEW s \in Seq(S), NEW t \in Seq(S)
  PROVE  /\ SubSeq(s \o t, 1, Len(s)) = s
         /\ SubSeq(s \o t, Len(s) + 1, Len(s \o t)) = t
<1> DEFINE st == s \o t
           front == SubSeq(st, 1, Len(s))
           back == SubSeq(st, Len(s) + 1, Len(st))
<1>1. /\ st \in Seq(S) /\ Len(st) = Len(s) + Len(t)
      /\ Len(s) \in Nat /\ Len(t) \in Nat
      /\ \A i \in 1 .. Len(s) : st[i] = s[i]
      /\ \A i \in 1 .. Len(t) : st[Len(s) + i] = t[i]
  BY ConcatProperties, LenProperties
<1>2. \A i \in 1 .. Len(st) : st[i] \in S
  BY <1>1, ElementOfSeq
<1> HIDE DEF st
<1>3. front = s
  <2>1. /\ front \in Seq(S) /\ Len(front) = Len(s)
        /\ \A i \in 1 .. Len(s) : front[i] = st[i]
    BY <1>1, <1>2, SubSeqProperties
  <2> HIDE DEF front
  <2> QED
    BY <1>1, <2>1, SeqEqual
<1>4. back = t
  <2>1. /\ back \in Seq(S) /\ Len(back) = Len(t)
        /\ \A i \in 1 .. Len(t) : back[i] = st[Len(s) + i]
    BY <1>1, <1>2, SubSeqProperties
  <2> HIDE DEF back
  <2> QED
    BY <1>1, <2>1, SeqEqual
<1> QED
  BY <1>3, <1>4 DEF st

\* A sequence is its first n elements and the others.
LEMMA Cut ==
  ASSUME NEW S, NEW s \in Seq(S), NEW n \in 1 .. Len(s)
  PROVE  /\ SubSeq(s, 1, n) \in Seq(S) /\ SubSeq(s, n + 1, Len(s)) \in Seq(S)
         /\ SubSeq(s, 1, n) \o SubSeq(s, n + 1, Len(s)) = s
<1>1. Len(s) \in Nat /\ \A i \in 1 .. Len(s) : s[i] \in S
  BY LenProperties, ElementOfSeq
<1>2. SubSeq(s, 1, n) \in Seq(S) /\ SubSeq(s, n + 1, Len(s)) \in Seq(S)
  BY <1>1, SubSeqProperties
<1>3. SubSeq(s, 1, n) \o SubSeq(s, n + 1, Len(s)) = SubSeq(s, 1, Len(s))
  BY <1>1, ConcatAdjacentSubSeq
<1> QED
  BY <1>2, <1>3, SubSeqFull

\* To move the first element of t to the end of s leaves s \o t what it is.
LEMMA Shift ==
  ASSUME NEW S, NEW s \in Seq(S), NEW t \in Seq(S), t # << >>
  PROVE  /\ Head(t) \in S /\ Tail(t) \in Seq(S) /\ Append(s, Head(t)) \in Seq(S)
         /\ Append(s, Head(t)) \o Tail(t) = s \o t
<1>1. /\ Head(t) \in S /\ Tail(t) \in Seq(S) /\ Append(s, Head(t)) \in Seq(S)
      /\ Append(s, Head(t)) = s \o << Head(t) >>
  BY HeadTailProperties, AppendProperties, AppendIsConcat
<1>2. << Head(t) >> \o Tail(t) = t
  <2>1. /\ Len(t) \in Nat \ {0} /\ Len(Tail(t)) = Len(t) - 1 /\ Head(t) = t[1]
        /\ \A i \in 1 .. Len(Tail(t)) : Tail(t)[i] = t[i + 1]
    BY EmptySeq, LenProperties, HeadTailProperties
  <2>2. << Head(t) >> \in Seq(S) /\ Len(<< Head(t) >>) = 1 /\ << Head(t) >>[1] = Head(t)
    BY <1>1
  <2>3. /\ << Head(t) >> \o Tail(t) \in Seq(S)
        /\ Len(<< Head(t) >> \o Tail(t)) = 1 + Len(Tail(t))
        /\ \A i \in 1 .. 1 + Len(Tail(t)) :
             (<< Head(t) >> \o Tail(t))[i] =
               IF i <= 1 THEN << Head(t) >>[i] ELSE Tail(t)[i - 1]
    BY <1>1, <2>2, ConcatProperties
  <2>4. \A i \in 1 .. Len(t) : (<< Head(t) >> \o Tail(t))[i] = t[i]
    BY <2>1, <2>2, <2>3
  <2> QED
    BY <2>1, <2>3, <2>4, SeqEqual
<1>3. (s \o << Head(t) >>) \o Tail(t) = s \o (<< Head(t) >> \o Tail(t))
  BY <1>1, ConcatAssociative
<1> QED
  BY <1>1, <1>2, <1>3

-----------------------------------------------------------------------------
(* Types, and the line in progress.                                        *)

RioInv == RioTypeOK /\ LineInProgress

\* The initial state.
LEMMA RioInitInv == RioInit => RioInv
<1> SUFFICES ASSUME RioInit PROVE RioInv
  OBVIOUS
<1>1. << >> \in Seq(Char) /\ << >> \in Seq(Result) /\ Len(<< >>) = 0
  BY EmptySeq
<1>2. RioTypeOK
  BY <1>1 DEF RioInit, rio_readinitb, RioTypeOK, Result
<1>3. usrbuf = << >> /\ Len(usrbuf) = 0
  BY <1>1 DEF RioInit, rio_readinitb
<1> QED
  BY <1>2, <1>3, RioAssumption DEF RioInv, LineInProgress

\* A call that returns leaves the caller's buffer empty.
LEMMA ReturnInv ==
  ASSUME RioInv, NEW result \in Result, Return(result)
  PROVE  /\ usrbuf' = << >> /\ usrbuf' \in Seq(Char) /\ calling' \in BOOLEAN
         /\ returned' \in Seq(Result) /\ LineInProgress'
<1>1. << >> \in Seq(Char) /\ Len(<< >>) = 0
  BY EmptySeq
<1>2. returned' \in Seq(Result)
  BY AppendProperties DEF Return, RioInv, RioTypeOK, Result
<1>3. usrbuf' = << >> /\ Len(usrbuf') = 0 /\ calling' = FALSE
  BY <1>1 DEF Return
<1>4. LineInProgress'
  BY <1>3, RioAssumption DEF LineInProgress
<1> QED
  BY <1>1, <1>2, <1>3, <1>4

\* Every step.
LEMMA RioNextInv == RioInv /\ [RioNext]_rioVars => RioInv'
<1> SUFFICES ASSUME RioInv, [RioNext]_rioVars PROVE RioInv'
  OBVIOUS
<1> USE DEF RioInv, RioTypeOK
<1>1. ASSUME NEW byte \in Char, Send(<<byte>>) PROVE RioInv'
  <2>1. <<byte>> \in Seq(Char)
    OBVIOUS
  <2>2. incoming' \in Seq(Char)
    BY <1>1, <2>1, ConcatProperties DEF Send
  <2> QED
    BY <1>1, <2>2 DEF Send, LineInProgress
<1>2. CASE HangUp \/ rio_readlineb
  BY <1>2, RioAssumption DEF HangUp, rio_readlineb, LineInProgress
<1>3. CASE Refill
  BY <1>3, Cut DEF Refill, LineInProgress
<1>4. CASE RefillEnd
  BY <1>4, ReturnInv DEF RefillEnd, Result
<1>5. CASE RefillFails
  BY <1>5, ReturnInv DEF RefillFails, Result
<1>6. CASE CopyByte
  <2>1. /\ Append(usrbuf, Head(rio_buf)) \in Seq(Char) /\ Tail(rio_buf) \in Seq(Char)
        /\ Head(rio_buf) \in Char
    BY <1>6, Shift DEF CopyByte
  <2>2. CASE Return(Append(usrbuf, Head(rio_buf)))
    BY <1>6, <2>1, <2>2, ReturnInv DEF CopyByte, Result
  <2>3. CASE /\ Head(rio_buf) # EndOfLine /\ Len(usrbuf') # MaxLen - 1
             /\ usrbuf' = Append(usrbuf, Head(rio_buf)) /\ UNCHANGED <<calling, returned>>
    <3>1. /\ Len(usrbuf') = Len(usrbuf) + 1 /\ Len(usrbuf) \in Nat
          /\ \A i \in 1 .. Len(usrbuf) : usrbuf'[i] = usrbuf[i]
          /\ usrbuf'[Len(usrbuf) + 1] = Head(rio_buf)
      BY <2>1, <2>3, AppendProperties, LenProperties
    <3>2. Len(usrbuf') <= MaxLen - 2
      BY <2>3, <3>1, RioAssumption DEF LineInProgress
    <3>3. \A i \in 1 .. Len(usrbuf') : usrbuf'[i] # EndOfLine
      BY <2>3, <3>1 DEF LineInProgress
    <3> QED
      BY <1>6, <2>1, <2>3, <3>2, <3>3 DEF CopyByte, LineInProgress
  <2> QED
    BY <1>6, <2>2, <2>3 DEF CopyByte
<1>7. CASE UNCHANGED rioVars
  BY <1>7 DEF rioVars, LineInProgress
<1> QED
  BY <1>1, <1>2, <1>3, <1>4, <1>5, <1>6, <1>7 DEF RioNext, rio_read

\* A CALL IN PROGRESS has room for a byte and the terminator, and has copied
\* no newline yet, whatever the sizes of the buffers.
THEOREM LineStaysInProgress == RioSpec => []LineInProgress
<1>1. RioInv => LineInProgress
  BY DEF RioInv
<1> QED
  BY <1>1, RioInitInv, RioNextInv, PTL DEF RioSpec

\* TYPES.  The buffers hold bytes and the calls return lines, the end or an error.
THEOREM RioTypes == RioSpec => []RioTypeOK
<1>1. RioInv => RioTypeOK
  BY DEF RioInv
<1> QED
  BY <1>1, RioInitInv, RioNextInv, PTL DEF RioSpec

-----------------------------------------------------------------------------
(* The refinement.  Each step is one of the abstract stream's, or moves    *)
(* bytes from one place to the next.                                       *)

\* What is unread is what is in the caller's buffer and what is not.
LEMMA UnreadParts ==
  ASSUME RioTypeOK
  PROVE  /\ rio_buf \o incoming \in Seq(Char) /\ Unread \in Seq(Char)
         /\ Unread = usrbuf \o (rio_buf \o incoming)
BY ConcatProperties, ConcatAssociative, SMTT(30) DEF RioTypeOK, Unread

\* A byte is sent.
LEMMA SendStep ==
  ASSUME RioTypeOK, NEW byte \in Char, Send(<<byte>>) PROVE Lines!Arrive
<1>1. <<byte>> \in Seq(Char)
  OBVIOUS
<1>2. Unread' = Append(Unread, byte)
  BY <1>1, ConcatProperties, ConcatAssociative, AppendIsConcat, SMTT(30) DEF Send, RioTypeOK, Unread
<1> QED
  BY <1>2 DEF Send, Unread, Lines!Arrive

\* The buffer is filled: the same bytes, in the same order.
LEMMA RefillStep ==
  ASSUME RioTypeOK, Refill PROVE Unread' = Unread
<1>1. PICK n \in 1 .. Len(incoming) : /\ rio_buf' = SubSeq(incoming, 1, n)
                                     /\ incoming' = SubSeq(incoming, n + 1, Len(incoming))
  BY DEF Refill
<1>2. /\ rio_buf' \in Seq(Char) /\ incoming' \in Seq(Char)
      /\ rio_buf' \o incoming' = incoming
  BY <1>1, Cut DEF RioTypeOK
<1>3. Unread' = usrbuf \o (rio_buf' \o incoming')
  <2>1. usrbuf' = usrbuf /\ usrbuf \in Seq(Char)
    BY DEF Refill, RioTypeOK
  <2>2. (usrbuf \o rio_buf') \o incoming' = usrbuf \o (rio_buf' \o incoming')
    <3>1. rio_buf' \in Seq(Char) /\ incoming' \in Seq(Char)
      BY <1>2
    <3> QED
      BY <2>1, <3>1, Regroup
  <2> QED
    BY <2>1, <2>2 DEF Unread
<1>4. Unread = usrbuf \o incoming
  BY ConcatEmptySeq DEF Refill, RioTypeOK, Unread
<1> QED
  BY <1>2, <1>3, <1>4

\* A line is returned that is the beginning of what is unread.
LEMMA LineStep ==
  ASSUME RioTypeOK, NEW line \in Seq(Char), NEW rest \in Seq(Char), line # << >>,
         Unread = line \o rest, Unread' = rest,
         Len(line) <= MaxLen - 1,
         \A i \in 1 .. Len(line) - 1 : line[i] # EndOfLine,
         \/ line[Len(line)] = EndOfLine \/ Len(line) = MaxLen - 1
         \/ hungup /\ rest = << >>,
         returned' = Append(returned, line), hungup' = hungup
  PROVE  Lines!ReadLine
<1> DEFINE n == Len(line)
<1>1. /\ Len(Unread) = n + Len(rest) /\ n \in Nat \ {0} /\ Len(rest) \in Nat
      /\ \A i \in 1 .. n : Unread[i] = line[i]
      /\ rest = << >> => Len(rest) = 0
  BY ConcatProperties, LenProperties, EmptySeq
<1>2. SubSeq(Unread, 1, n) = line /\ SubSeq(Unread, n + 1, Len(Unread)) = rest
  BY Split
<1> HIDE DEF n
<1>3. n \in 1 .. Len(Unread)
  BY <1>1
<1>4. n <= MaxLen - 1 /\ \A i \in 1 .. n - 1 : Unread[i] # EndOfLine
  BY <1>1 DEF n
<1>5. Unread[n] = EndOfLine \/ n = MaxLen - 1 \/ (hungup /\ n = Len(Unread))
  BY <1>1 DEF n
<1>6. Lines!IsLine(n)
  BY <1>4, <1>5 DEF Lines!IsLine, Unread
<1> QED
  BY <1>2, <1>3, <1>6 DEF Lines!ReadLine, Lines!Rest, Unread

\* The end of the stream: its last line, or the end.
LEMMA RefillEndStep ==
  ASSUME RioInv, RefillEnd PROVE Lines!ReadLine \/ Lines!ReadEnd
<1> USE DEF RioInv
<1>1. << >> \in Seq(Char)
  BY EmptySeq
<1>2. Unread = usrbuf \o << >> /\ Unread = usrbuf /\ Unread' = << >>
  BY <1>1, ConcatEmptySeq DEF RefillEnd, Return, RioTypeOK, Unread
<1>3. CASE usrbuf = << >>
  BY <1>2, <1>3 DEF RefillEnd, Return, Lines!ReadEnd, Unread
<1>4. CASE usrbuf # << >>
  <2>1. Len(usrbuf) <= MaxLen - 1 /\ \A i \in 1 .. Len(usrbuf) - 1 : usrbuf[i] # EndOfLine
    BY LenProperties, RioAssumption DEF RioTypeOK, LineInProgress
  <2> QED
    BY <1>1, <1>2, <1>4, <2>1, LineStep DEF RefillEnd, Return, RioTypeOK
<1> QED
  BY <1>3, <1>4

\* A read that fails loses what the call had copied.
LEMMA RefillFailsStep ==
  ASSUME RioInv, RefillFails PROVE Lines!ReadFails
<1> USE DEF RioInv
<1> DEFINE n == Len(usrbuf)
           rest == rio_buf \o incoming
<1>1. rest \in Seq(Char) /\ Unread = usrbuf \o rest /\ usrbuf \in Seq(Char)
  BY UnreadParts DEF RioTypeOK
<1>2. Unread' = rest
  BY <1>1, ConcatEmptySeq DEF RefillFails, Return, RioTypeOK, Unread
<1>3. /\ Len(Unread) = n + Len(rest) /\ n \in Nat /\ Len(rest) \in Nat
      /\ \A i \in 1 .. n : Unread[i] = usrbuf[i]
  BY <1>1, ConcatProperties, LenProperties
<1>4. SubSeq(Unread, n + 1, Len(Unread)) = rest
  BY <1>1, Split
<1>5. n \in 0 .. Len(Unread) /\ n < MaxLen - 1 /\ \A i \in 1 .. n : Unread[i] # EndOfLine
  BY <1>3, RioAssumption DEF LineInProgress
<1> HIDE DEF n, rest
<1> QED
  BY <1>2, <1>4, <1>5 DEF RefillFails, Return, Lines!ReadFails, Lines!Rest, Unread

\* A byte is copied: it ends the line, or moves on.
LEMMA CopyByteStep ==
  ASSUME RioInv, CopyByte
  PROVE  Lines!ReadLine \/ (Unread' = Unread /\ UNCHANGED <<hungup, returned>>)
<1> USE DEF RioInv
<1> DEFINE line == Append(usrbuf, Head(rio_buf))
           rest == Tail(rio_buf) \o incoming
<1>1. /\ usrbuf \in Seq(Char) /\ rio_buf \in Seq(Char) /\ incoming \in Seq(Char)
      /\ rio_buf # << >> /\ rio_buf' = Tail(rio_buf) /\ UNCHANGED <<incoming, hungup>>
  BY DEF CopyByte, RioTypeOK
<1>2. /\ line \in Seq(Char) /\ Tail(rio_buf) \in Seq(Char) /\ Head(rio_buf) \in Char
      /\ line \o Tail(rio_buf) = usrbuf \o rio_buf
  BY <1>1, Shift
<1>3. rest \in Seq(Char) /\ Unread = line \o rest /\ Unread = line \o Tail(rio_buf) \o incoming
  <2>1. rest \in Seq(Char)
    BY <1>1, <1>2, ConcatProperties
  <2>2. (line \o Tail(rio_buf)) \o incoming = line \o rest
    <3>1. line \in Seq(Char) /\ Tail(rio_buf) \in Seq(Char) /\ incoming \in Seq(Char)
      BY <1>1, <1>2
    <3> HIDE DEF line
    <3> QED
      BY <3>1, Regroup
  <2> HIDE DEF line, rest
  <2> QED
    BY <1>2, <2>1, <2>2 DEF Unread
<1>4. CASE (Head(rio_buf) = EndOfLine \/ Len(line) = MaxLen - 1) /\ Return(line)
  <2>1. Unread' = rest
    BY <1>1, <1>2, <1>4, ConcatEmptySeq DEF Return, Unread
  <2>2. /\ Len(line) = Len(usrbuf) + 1 /\ Len(usrbuf) \in Nat /\ line # << >>
        /\ \A i \in 1 .. Len(usrbuf) : line[i] = usrbuf[i]
        /\ line[Len(usrbuf) + 1] = Head(rio_buf)
    BY <1>1, <1>2, AppendProperties, LenProperties
  <2> HIDE DEF line, rest
  <2>3. /\ Len(line) <= MaxLen - 1 /\ \A i \in 1 .. Len(line) - 1 : line[i] # EndOfLine
        /\ line[Len(line)] = EndOfLine \/ Len(line) = MaxLen - 1
    BY <1>4, <2>2, RioAssumption DEF LineInProgress
  <2>4. returned' = Append(returned, line)
    BY <1>4 DEF Return
  <2> QED
    BY <1>1, <1>2, <1>3, <2>1, <2>2, <2>3, <2>4, LineStep DEF line
<1>5. CASE usrbuf' = line /\ UNCHANGED <<calling, returned>>
  BY <1>1, <1>3, <1>5 DEF Unread
<1> QED
  BY <1>4, <1>5 DEF CopyByte

\* Every step of the reader is one of the stream, or none.
LEMMA RioStep ==
  ASSUME RioInv, [RioNext]_rioVars
  PROVE  [Lines!StreamNext]_(Lines!StreamVars)
<1> USE DEF Lines!StreamNext, Lines!StreamVars
<1>1. CASE \E byte \in Char : Send(<<byte>>)
  BY <1>1, SendStep DEF RioInv
<1>2. CASE HangUp
  BY <1>2 DEF HangUp, Lines!End
<1>3. CASE rio_readlineb
  BY <1>3 DEF rio_readlineb, RioInv, LineInProgress
<1>4. CASE Refill
  BY <1>4, RefillStep DEF RioInv, Refill, Unread
<1>5. CASE RefillEnd
  BY <1>5, RefillEndStep
<1>6. CASE RefillFails
  BY <1>6, RefillFailsStep
<1>7. CASE CopyByte
  BY <1>7, CopyByteStep DEF Unread
<1>8. CASE UNCHANGED rioVars
  BY <1>8 DEF rioVars
<1> QED
  BY <1>1, <1>2, <1>3, <1>4, <1>5, <1>6, <1>7, <1>8 DEF RioNext, rio_read

\* The initial state is that of an empty stream.
LEMMA RioStart == RioInit => Lines!StreamInit
<1>1. << >> \o << >> \o << >> = << >>
  BY EmptySeq, ConcatEmptySeq
<1> QED
  BY <1>1 DEF RioInit, rio_readinitb, Lines!StreamInit

\* THE READER READS THE STREAM.  With buffers of any size, and however the
\* kernel cuts up what is sent, the calls return the stream line by line: no
\* byte is lost, repeated or moved unless a read fails, and then none that
\* belongs to another line.
THEOREM ReaderReadsStream == RioSpec => ReadsTheStream
<1>1. RioInv /\ [RioNext]_rioVars => [Lines!StreamNext]_(Lines!StreamVars)
  BY RioStep
<1> QED
  BY <1>1, RioStart, RioInitInv, RioNextInv, PTL
  DEF RioSpec, ReadsTheStream, Lines!StreamSpec
=============================================================================
