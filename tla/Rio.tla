-------------------------------- MODULE Rio ---------------------------------
(***************************************************************************)
(* The buffered reader of csapp.c through which a session reads its        *)
(* requests.  The bytes of one connection are in three places: on their    *)
(* way, in the read buffer, and in the caller's buffer while               *)
(* rio_readlineb is copying a line.  read(2) hands over whatever part of   *)
(* what has arrived the kernel likes; an interrupted one is repeated and   *)
(* changes nothing.                                                        *)
(***************************************************************************)
EXTENDS Integers, Sequences

CONSTANTS
  Char,       \* the bytes
  EndOfLine,  \* the one that ends a line
  EndOfFile,  \* rio_readlineb returning 0
  ReadError,  \* rio_readlineb returning -1
  MaxLen,     \* its argument maxlen, the size of the caller's buffer
  RioBufSize, \* RIO_BUFSIZE
  MaxOnTheWay,\* BOUND: bytes sent and not yet read, against any peer
  MaxCalls    \* BOUND: calls of rio_readlineb, against any peer

ASSUME RioAssumption ==
  /\ EndOfLine \in Char
  /\ EndOfFile \notin Seq(Char) /\ ReadError \notin Seq(Char)
  /\ MaxLen \in Nat /\ MaxLen >= 2
  /\ RioBufSize \in Nat \ {0}

VARIABLES
  incoming,  \* bytes that were sent and not yet read from the descriptor
  hungup,    \* the peer sends no more
  rio_buf,   \* bytes in the read buffer that were not given out
  usrbuf,    \* bytes that the call in progress has copied
  calling,   \* is a call of rio_readlineb in progress?
  returned   \* history: what the calls have returned

rioVars == <<incoming, hungup, rio_buf, usrbuf, calling, returned>>

-----------------------------------------------------------------------------
(* The peer.                                                               *)

Send(bytes) ==
  /\ ~hungup
  /\ incoming' = incoming \o bytes
  /\ UNCHANGED <<hungup, rio_buf, usrbuf, calling, returned>>

HangUp ==
  /\ ~hungup
  /\ hungup' = TRUE
  /\ UNCHANGED <<incoming, rio_buf, usrbuf, calling, returned>>

-----------------------------------------------------------------------------
(* The reader.                                                             *)

rio_readinitb == rio_buf = << >> /\ usrbuf = << >> /\ calling = FALSE /\ returned = << >>

\* rio_readlineb is called.
rio_readlineb ==
  /\ ~calling
  /\ calling' = TRUE
  /\ usrbuf' = << >>
  /\ UNCHANGED <<incoming, hungup, rio_buf, returned>>

Return(result) ==
  /\ calling' = FALSE
  /\ usrbuf' = << >>
  /\ returned' = Append(returned, result)

\* The loop of rio_read finds the buffer empty and read(2) fills it.
Refill ==
  /\ calling /\ rio_buf = << >>
  /\ \E n \in 1 .. Len(incoming) :
       /\ n <= RioBufSize
       /\ rio_buf' = SubSeq(incoming, 1, n)
       /\ incoming' = SubSeq(incoming, n + 1, Len(incoming))
  /\ UNCHANGED <<hungup, usrbuf, calling, returned>>

\* MUTANT: what is left at the end of the file is dropped.
RefillEnd_drops ==
  /\ calling /\ rio_buf = << >> /\ incoming = << >> /\ hungup
  /\ Return(EndOfFile)
  /\ UNCHANGED <<incoming, hungup, rio_buf>>

\* ... it finds the end of the file: what was copied is the last line.
RefillEnd ==
  /\ calling /\ rio_buf = << >> /\ incoming = << >> /\ hungup
  /\ Return(IF usrbuf = << >> THEN EndOfFile ELSE usrbuf)
  /\ UNCHANGED <<incoming, hungup, rio_buf>>

\* ... it fails for good: what was copied is lost to the caller.
RefillFails ==
  /\ calling /\ rio_buf = << >>
  /\ Return(ReadError)
  /\ UNCHANGED <<incoming, hungup, rio_buf>>

\* MUTANT: a line that fills the caller's buffer loses its last byte.
CopyByte_overruns ==
  /\ calling /\ rio_buf # << >>
  /\ IF Head(rio_buf) = EndOfLine
     THEN Return(Append(usrbuf, Head(rio_buf)))
     ELSE IF Len(usrbuf) = MaxLen - 1
     THEN Return(usrbuf)
     ELSE usrbuf' = Append(usrbuf, Head(rio_buf)) /\ UNCHANGED <<calling, returned>>
  /\ rio_buf' = Tail(rio_buf)
  /\ UNCHANGED <<incoming, hungup>>

\* rio_read hands out one byte; it ends the line, fills the caller's buffer
\* up to the place of its terminator, or neither.
CopyByte ==
  LET line == Append(usrbuf, Head(rio_buf))
  IN  /\ calling /\ rio_buf # << >>
      /\ \/ /\ Head(rio_buf) = EndOfLine \/ Len(line) = MaxLen - 1
            /\ Return(line)
         \/ /\ Head(rio_buf) # EndOfLine /\ Len(line) # MaxLen - 1
            /\ usrbuf' = line
            /\ UNCHANGED <<calling, returned>>
      /\ rio_buf' = Tail(rio_buf)
      /\ UNCHANGED <<incoming, hungup>>

rio_read == Refill \/ RefillEnd \/ RefillFails \/ CopyByte

-----------------------------------------------------------------------------
(* The reader against a peer that sends anything.                          *)

RioInit == incoming = << >> /\ hungup = FALSE /\ rio_readinitb

RioNext ==
  \/ Len(incoming) < MaxOnTheWay /\ \E byte \in Char : Send(<<byte>>)
  \/ HangUp
  \/ Len(returned) < MaxCalls /\ rio_readlineb
  \/ rio_read

RioSpec == RioInit /\ [][RioNext]_rioVars

-----------------------------------------------------------------------------

RioTypeOK ==
  /\ incoming \in Seq(Char) /\ rio_buf \in Seq(Char) /\ usrbuf \in Seq(Char)
  /\ hungup \in BOOLEAN /\ calling \in BOOLEAN
  /\ returned \in Seq(Seq(Char) \cup {EndOfFile, ReadError})

\* The call in progress has room for one more byte and its terminator, and
\* what it has copied is the beginning of a line.
LineInProgress ==
  /\ Len(usrbuf) <= MaxLen - 2
  /\ \A i \in 1 .. Len(usrbuf) : usrbuf[i] # EndOfLine
  /\ ~calling => usrbuf = << >>

Lines == INSTANCE LineStream WITH
  input <- usrbuf \o rio_buf \o incoming, ended <- hungup, results <- returned,
  Byte <- Char, Newline <- EndOfLine, Limit <- MaxLen - 1

\* REFINEMENT.  However read(2) cuts up what arrives, the calls return the
\* stream line by line: no byte is lost, repeated or moved, a line ends at its
\* newline, at the size of the caller's buffer or with the stream, and only a
\* failed read drops the part of a line that it had (csapp.c:811-899).
ReadsTheStream == Lines!StreamSpec
=============================================================================
