--------------------------- MODULE CodecProperties --------------------------
(***************************************************************************)
(* The way of a value: a line reaches a session, which decodes it; if it   *)
(* is a PUSH, the value is taken off the stack again by TOP and sent back  *)
(* as DATA; a client program decodes that.  Every line is tried.           *)
(***************************************************************************)
EXTENDS MessageCodec

CONSTANT RequestLines  \* the lines that may reach the session

ASSUME LinesAssumption == RequestLines \subseteq Seq(Piece)

VARIABLES
  stage,    \* how far the value has come
  line,     \* the line that was read
  message,  \* what decode makes of it
  reply,    \* the text of the DATA reply, << >> if encode refuses it
  got       \* what the client makes of that

codecVars == <<stage, line, message, reply, got>>

CodecInit ==
  /\ stage = "idle"
  /\ line = << >> /\ message = Invalid /\ reply = << >> /\ got = Invalid

\* read_message, once the line is there.
ReadLine ==
  /\ stage = "idle" /\ stage' = "read"
  /\ line' \in RequestLines
  /\ message' = decode(line')
  /\ UNCHANGED <<reply, got>>

\* handle_push_request, which refuses an empty text, and handle_top_request.
PushAndTop ==
  /\ stage = "read" /\ stage' = "answered"
  /\ message.type = "PUSH" /\ get_value(message) # << >>
  /\ reply' = encode(Message("DATA", <<get_value(message)>>))
  /\ UNCHANGED <<line, message, got>>

\* send_and_receive in get_value.cpp.
ReadReply ==
  /\ stage = "answered" /\ stage' = "over"
  /\ got' = decode(reply)
  /\ UNCHANGED <<line, message, reply>>

CodecNext == ReadLine \/ PushAndTop \/ ReadReply

-----------------------------------------------------------------------------

\* A word that operator >> gives back, and that is not taken for a quote.
Plain(arg) == arg # << >> /\ \A i \in 1 .. Len(arg) : arg[i] \notin Whitespace
OpensQuote(arg) == arg # << >> /\ arg[1] = Quote

\* A message that was decoded, in whatever layout, is sent on as it is exactly
\* if its arguments are words and the first opens no quote: encode puts no
\* quotes back, so a quoted text, which FAILED and ERROR carry, comes out in
\* pieces (message_serialization.cpp:120-138, 164-179).
MessagesRoundTrip ==
  message # Invalid /\ Length(Spelled(message)) <= MaxEncodedLen =>
    LET args == message.args
        faithful == /\ \A i \in 1 .. Len(args) : Plain(args[i])
                    /\ args # << >> => ~OpensQuote(args[1])
    IN  decode(encode(message)) = message <=> faithful

\* A client that pushes a value by its text gets the same value back exactly
\* if it is a word that opens no quote, whatever blanks, quotes and further
\* words the other values consist of (set_value.cpp:86, get_value.cpp:107,71).
ValuesSurvive ==
  LET value == SubSeq(line, 3, Len(line) - 1)
      pushed == Len(line) >= 3 /\ line = Spelled(Message("PUSH", <<value>>))
  IN  /\ pushed /\ stage = "over" => (got.args = <<value>> <=> Plain(value) /\ ~OpensQuote(value))
      /\ pushed /\ stage = "read" /\ Plain(value) /\ ~OpensQuote(value)
         /\ Length(line) <= MaxEncodedLen => message = Message("PUSH", <<value>>)

\* The reply to TOP is never longer than a message may be, though the value
\* came in quotes, took the newline in for want of one, or fills its line: so
\* encode does not throw in handle_top_request, where only GET of a missing
\* key can make it (client_connection.cpp:145, 297-308).
DataFits == stage = "answered" => reply # << >>
=============================================================================
