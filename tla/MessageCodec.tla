---------------------------- MODULE MessageCodec ----------------------------
(***************************************************************************)
(* Messages and their text (message.cpp, message_serialization.cpp).  A    *)
(* text is a sequence of pieces: the name of a message type, or one        *)
(* character.  Both are strings, and the length of a text is the sum of    *)
(* their lengths.  Only what the code tells apart is told apart: letters,  *)
(* marks (digits and underscores), white space, quotes, and the rest.      *)
(***************************************************************************)
EXTENDS Integers, SequencesExt

CONSTANTS
  Letter, Mark, Other,  \* characters, by class
  MaxEncodedLen         \* Message::MAX_ENCODED_LEN

Space   == " "
Tab     == "\t"
Newline == "\n"
Quote   == "\""

RequestType ==
  {"LOGIN", "CREATE", "PUSH", "POP", "TOP", "SET", "GET", "ADD", "SUB", "MUL", "DIV",
   "BEGIN", "COMMIT", "BYE"}
ResponseType == {"OK", "FAILED", "ERROR", "DATA"}
TypeName == RequestType \cup ResponseType \cup {"NONE"}

Whitespace == {Space, Tab, Newline}
Piece == TypeName \cup Letter \cup Mark \cup Other \cup Whitespace \cup {Quote}

ASSUME CodecAssumption ==
  /\ MaxEncodedLen \in Nat
  /\ (Letter \cup Mark \cup Other) \cap (TypeName \cup Whitespace \cup {Quote}) = {}
  /\ \A piece \in Piece : Len(piece) \in Nat \ {0}
  /\ \A piece \in Piece \ TypeName : Len(piece) = 1
  /\ Len("PUSH") = 4 /\ Len("DATA") = 4

Length(text) ==
  LET upTo[n \in 0 .. Len(text)] == IF n = 0 THEN 0 ELSE upTo[n - 1] + Len(text[n])
  IN  upTo[Len(text)]

\* A Message; Invalid stands for the exception InvalidMessage.
Message(type, args) == [type |-> type, args |-> args]
Invalid == Message("invalid", << >>)

\* The regular expression of is_valid, and is_valid_username.
IsIdentifier(word) ==
  /\ word # << >>
  /\ word[1] \in Letter \cup TypeName
  /\ \A i \in 2 .. Len(word) : word[i] \in Letter \cup Mark \cup TypeName

is_valid(m) ==
  CASE m.type \in {"LOGIN", "PUSH"} -> Len(m.args) = 1
    [] m.type = "CREATE" -> Len(m.args) = 1 /\ IsIdentifier(m.args[1])
    [] m.type \in {"SET", "GET"} ->
         Len(m.args) = 2 /\ IsIdentifier(m.args[1]) /\ m.args[2] # << >>
    [] m.type = "DATA" -> Len(m.args) = 1 /\ m.args[1] # << >>
    [] m.type \in {"FAILED", "ERROR"} -> m.args # << >> /\ m.args[1] # << >>
    [] OTHER -> TRUE

-----------------------------------------------------------------------------
(* encode and decode.                                                      *)

\* The type and the arguments, each after a space.
Joined(m) ==
  LET upTo[n \in 0 .. Len(m.args)] ==
        IF n = 0 THEN <<m.type>> ELSE upTo[n - 1] \o <<Space>> \o m.args[n]
  IN  upTo[Len(m.args)]

Spelled(m) == Joined(m) \o <<Newline>>

\* MUTANT: the longest message is refused.
encode_tight(m) == IF Length(Spelled(m)) >= MaxEncodedLen THEN << >> ELSE Spelled(m)

\* A message that is too long has no text: InvalidMessage is thrown.
encode(m) == IF Length(Spelled(m)) > MaxEncodedLen THEN << >> ELSE Spelled(m)

\* What operator >> extracts from a text, one word after the other.
Words(text) ==
  LET upTo[n \in 0 .. Len(text)] ==
        IF n = 0 THEN << >>
        ELSE IF text[n] \in Whitespace THEN upTo[n - 1]
        ELSE IF n = 1 \/ text[n - 1] \in Whitespace THEN Append(upTo[n - 1], <<text[n]>>)
        ELSE [upTo[n - 1] EXCEPT ![Len(upTo[n - 1])] = Append(@, text[n])]
  IN  upTo[Len(text)]

\* MUTANT: the opening quote is not looked for.
Arguments_unquoted(text) == Words(text)

\* The arguments in what follows the type.  One space is skipped; after a
\* quote everything up to the next one is a single argument, up to the end of
\* the text if there is none, and what follows the second quote is ignored.
Arguments(text) ==
  LET rest  == IF text # << >> /\ text[1] = Space THEN Tail(text) ELSE text
      quoted == Tail(rest)
      close == SelectInSeq(quoted, LAMBDA piece : piece = Quote)
  IN  IF rest # << >> /\ rest[1] = Quote
      THEN <<IF close = 0 THEN quoted ELSE SubSeq(quoted, 1, close - 1)>>
      ELSE Words(rest)

\* The text after its first word, whole if it has none.
AfterType(text) ==
  LET start == SelectInSeq(text, LAMBDA piece : piece \notin Whitespace)
      end   == SelectInSubSeq(text, start, Len(text), LAMBDA piece : piece \in Whitespace)
  IN  SubSeq(text, end, Len(text))

\* A first word that is not the name of a type makes the type NONE.
TypeOf(text) ==
  LET words == Words(text)
  IN  IF words # << >> /\ words[1] \in {<<type>> : type \in TypeName}
      THEN words[1][1] ELSE "NONE"

decode(text) ==
  LET m == Message(TypeOf(text),
                   IF Words(text) = << >> THEN << >> ELSE Arguments(AfterType(text)))
  IN  IF /\ text # << >> /\ Last(text) = Newline
         /\ Length(text) <= MaxEncodedLen
         /\ is_valid(m)
      THEN m ELSE Invalid

-----------------------------------------------------------------------------
(* What the sessions and the client programs take from a message.          *)

FirstArg(m, types) == IF m.type \in types /\ m.args # << >> THEN m.args[1] ELSE << >>

get_username(m)    == FirstArg(m, {"LOGIN"})
get_table(m)       == FirstArg(m, {"CREATE", "SET", "GET"})
get_key(m)         == IF m.type \in {"SET", "GET"} /\ Len(m.args) >= 2 THEN m.args[2] ELSE << >>
get_value(m)       == FirstArg(m, {"DATA", "PUSH"})
get_quoted_text(m) == FirstArg(m, {"FAILED", "ERROR"})
=============================================================================
