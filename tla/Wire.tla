-------------------------------- MODULE Wire --------------------------------
(***************************************************************************)
(* One run of a client program against the server, over the two byte       *)
(* streams of its connection (set_value.cpp, incr_value.cpp and            *)
(* get_value.cpp; Server::listen; read_message and send_message).  The     *)
(* program writes one request, takes whatever one read(2) returns for the  *)
(* whole reply, and goes on; the session reads through Rio, which waits    *)
(* for a line, and writes through rio_writen, which repeats write(2).      *)
(*                                                                         *)
(* What a session answers is any reply that its handlers can give to the   *)
(* request; ClientConnection says which of them when, and what becomes of  *)
(* a session whose in_transaction is not "zero" when a request throws.     *)
(***************************************************************************)
EXTENDS MessageCodec

CONSTANTS
  Programs,    \* the lists of requests a program may have to make
  Values,      \* the texts that TOP may find on the stack
  MaxLen, RioBufSize, EndOfFile, ReadError

\* Requests fit the buffers that the programs copy them into, which are as long
\* as the server's, and their arguments contain no newline.  Only what is asked
\* before BYE is answered with DATA.  A value has no quotes, and no newline but
\* that of its line.
ASSUME WireAssumption ==
  /\ Programs \subseteq Seq([type : RequestType, args : Seq(Seq(Piece))])
  /\ << >> \notin Programs
  /\ \A requests \in Programs : \A i \in 1 .. Len(requests) :
       LET text == Spelled(requests[i])
       IN  /\ Len(text) < MaxLen /\ \A j \in 1 .. Len(text) - 1 : text[j] # Newline
           /\ requests[i].type = "TOP" => i = Len(requests) - 1
  /\ Values \subseteq Seq(Piece)
  /\ \A value \in Values : \A j \in 1 .. Len(value) :
       value[j] # Quote /\ (value[j] = Newline => j = Len(value))
  /\ "a" \in Letter
  /\ EndOfFile \notin Seq(Piece) /\ ReadError \notin Seq(Piece)
  /\ MaxLen \in Nat

VARIABLES
  incoming, hungup, rio_buf, usrbuf, calling, returned,  \* see Rio
  listening,  \* the server accepts connections
  client,     \* where the program is
  clientfd,   \* what open_clientfd has returned, 0 for any descriptor
  list,       \* the requests it has to make
  next,       \* the one it is at
  result,     \* what get_value prints
  answers,    \* bytes on their way to the program
  session,    \* where the thread of the connection is
  outgoing,   \* bytes of the reply that rio_writen has to write
  handled     \* history: the requests that were read, with the replies

Reader == INSTANCE Rio WITH
  Char <- Piece, EndOfLine <- Newline, MaxOnTheWay <- 0, MaxCalls <- 0

rioVars     == <<incoming, hungup, rio_buf, usrbuf, calling, returned>>
clientVars  == <<client, clientfd, list, next, result>>
sessionVars == <<session, outgoing, handled>>
wireVars == <<rioVars, listening, clientVars, answers, sessionVars>>

LOGIN == Message("LOGIN", << <<"a">> >>)
BYE   == Message("BYE", << >>)
FAILED == Message("FAILED", << <<"a", Space, "a">> >>)
ERROR  == Message("ERROR", << <<"a", Space, "a">> >>)
Request(type) == Message(type, << >>)

set_value(t, k, v) == <<LOGIN, Message("PUSH", <<v>>), Message("SET", <<t, k>>), BYE>>
get_value_of(t, k) == <<LOGIN, Message("GET", <<t, k>>), Request("TOP"), BYE>>
incr_value(use_transaction, t, k) ==
  LET only(request) == IF use_transaction THEN <<request>> ELSE << >>
  IN  <<LOGIN>> \o only(Request("BEGIN"))
      \o <<Message("GET", <<t, k>>), Message("PUSH", << <<"1">> >>), Request("ADD"),
           Message("SET", <<t, k>>)>>
      \o only(Request("COMMIT")) \o <<BYE>>

Ended == {"exit 0", "exit 1", "abort", "killed"}

-----------------------------------------------------------------------------
(* The program.                                                            *)

\* The process ends, and with it its end of the connection.
Exits(how) ==
  /\ client' = how
  /\ hungup' = TRUE
  /\ UNCHANGED <<incoming, rio_buf, usrbuf, calling, returned>>

\* open_clientfd: a name that cannot be resolved is -2, anything else -1, and
\* only the latter is taken for a failure.
Connect ==
  /\ client = "start"
  /\ \/ listening /\ clientfd' = 0 /\ session' = "reading"
     \/ clientfd' \in {-1, -2} /\ UNCHANGED session
  /\ IF clientfd' = -1 THEN Exits("exit 1") ELSE client' = "write" /\ UNCHANGED rioVars
  /\ UNCHANGED <<listening, list, next, result, answers, outgoing, handled>>

\* MUTANT: the newline of a request is not written.
WriteRequest_open ==
  /\ client = "write"
  /\ \/ /\ clientfd = 0
        /\ Reader!Send(Front(Spelled(list[next])))
        /\ client' = "read"
     \/ (clientfd # 0 \/ session = "over") /\ Exits("exit 1")
  /\ UNCHANGED <<listening, clientfd, list, next, result, answers, sessionVars>>

\* write(2) of a whole request, which fails without a connection.  If the
\* session has closed it, the write may be the end of the program.
WriteRequest ==
  /\ client = "write"
  /\ \/ /\ clientfd = 0
        /\ Reader!Send(Spelled(list[next]))
        /\ client' = "read"
     \/ clientfd # 0 /\ Exits("exit 1")
     \/ session = "over" /\ \E how \in {"exit 1", "killed"} : Exits(how)
  /\ UNCHANGED <<listening, clientfd, list, next, result, answers, sessionVars>>

\* MUTANT: a reply that does not decode is taken for a success.
Takes_anything(text) ==
  /\ result' = result
  /\ next' = next + 1
  /\ IF next = Len(list) THEN Exits("exit 0") ELSE client' = "write" /\ UNCHANGED rioVars

\* The program has received text.  InvalidMessage is caught nowhere.
Takes(text) ==
  LET m == decode(text)
  IN  /\ result' = IF m.type = "DATA" THEN get_value(m) ELSE result
      /\ next' = IF m.type \in {"invalid", "FAILED", "ERROR"} THEN next ELSE next + 1
      /\ CASE m = Invalid -> Exits("abort")
           [] m.type \in {"FAILED", "ERROR"} -> Exits("exit 1")
           [] OTHER -> IF next = Len(list) THEN Exits("exit 0")
                       ELSE client' = "write" /\ UNCHANGED rioVars

\* One read(2): a part of what has arrived, the end of the stream, where there
\* is nothing that decodes, or an error.
ReadReply ==
  /\ client = "read"
  /\ \/ \E n \in 1 .. Len(answers) :
          /\ Takes(SubSeq(answers, 1, n))
          /\ answers' = SubSeq(answers, n + 1, Len(answers))
     \/ /\ session = "over"
        /\ \/ answers = << >> /\ Exits("abort")
           \/ Exits("exit 1")
        /\ UNCHANGED <<next, result, answers>>
  /\ UNCHANGED <<listening, clientfd, list, sessionVars>>

-----------------------------------------------------------------------------
(* The server.                                                             *)

\* Server::listen with open_listenfd; without a socket the process exits.
Listen ==
  /\ ~listening /\ session = "idle"
  /\ \/ listening' = TRUE /\ UNCHANGED session
     \/ session' = "over" /\ UNCHANGED listening
  /\ UNCHANGED <<rioVars, clientVars, answers, outgoing, handled>>

\* MUTANT: what one read(2) returns is taken for a line.
ReadLine_once ==
  /\ session = "reading" /\ Len(returned) = Len(handled)
  /\ \E n \in 1 .. Len(incoming) :
       /\ returned' = Append(returned, SubSeq(incoming, 1, n))
       /\ incoming' = SubSeq(incoming, n + 1, Len(incoming))
  /\ UNCHANGED <<hungup, rio_buf, usrbuf, calling>>
  /\ UNCHANGED <<listening, clientVars, answers, sessionVars>>

\* read_message: a line is read, unless read(2) fails ...
ReadLine ==
  /\ session = "reading"
  /\ \/ Len(returned) = Len(handled) /\ Reader!rio_readlineb
     \/ Reader!Refill \/ Reader!RefillEnd \/ Reader!CopyByte
  /\ UNCHANGED <<listening, clientVars, answers, sessionVars>>

ReadFails ==
  /\ session = "reading"
  /\ Reader!RefillFails
  /\ UNCHANGED <<listening, clientVars, answers, sessionVars>>

\* The replies that the handler of m can give; none if it closes in silence.
\* The key of a GET can be too long for the reply that does not find it.
Replies(m) ==
  CASE m.type = "LOGIN" -> {Request("OK")}
    [] m.type = "PUSH" -> IF get_value(m) = << >> THEN {ERROR} ELSE {Request("OK")}
    [] m.type = "TOP" -> {Message("DATA", <<v>>) : v \in Values} \cup {FAILED}
    [] m.type = "GET" -> {Request("OK"), FAILED, ERROR}
    [] m.type = "SET" /\ ~IsIdentifier(get_key(m)) -> {FAILED, ERROR}
    [] m.type \in {"CREATE", "SET", "POP", "BEGIN", "COMMIT"} -> {Request("OK"), FAILED}
    [] m.type \in {"ADD", "SUB", "MUL", "DIV"} -> {Request("OK"), FAILED, Invalid}
    [] m.type = "BYE" -> {Request("OK")}

\* A request that ends the session with an ERROR: what does not decode, does
\* not come first or does not exist, and a user name that is no identifier.
Rejected(m) ==
  \/ m.type \notin RequestType
  \/ m.type = "LOGIN" /\ ~IsIdentifier(get_username(m))
  \/ handled = << >> /\ m.type # "LOGIN"

\* ... decoded and handled, which leaves a reply to write, unless stoi throws
\* what chat_with_client closes on.  Nothing to read is an ERROR as well.
Handle ==
  LET line == Last(returned)
      m == IF line \in {EndOfFile, ReadError} THEN Invalid ELSE decode(line)
  IN  /\ session = "reading" /\ Len(returned) > Len(handled)
      /\ \E r \in IF Rejected(m) THEN {ERROR} ELSE Replies(m) :
           /\ handled' = Append(handled, [request |-> m, reply |-> r])
           /\ outgoing' = IF r = Invalid THEN << >> ELSE Spelled(r)
           /\ session' = IF r = Invalid THEN "over" ELSE "writing"
      /\ UNCHANGED <<rioVars, listening, clientVars, answers>>

\* rio_writen: one write(2), of any part of what is left.
rio_writen ==
  /\ session = "writing" /\ outgoing # << >>
  /\ \/ \E n \in 1 .. Len(outgoing) :
          /\ answers' = answers \o SubSeq(outgoing, 1, n)
          /\ outgoing' = SubSeq(outgoing, n + 1, Len(outgoing))
          /\ UNCHANGED session
     \/ /\ client \in Ended
        /\ outgoing' = << >> /\ session' = "over"
        /\ UNCHANGED answers
  /\ UNCHANGED <<rioVars, listening, clientVars, handled>>

\* The reply is written: the session closes after BYE and after an ERROR that
\* is not the answer to PUSH, and reads on otherwise.
Replied ==
  LET exchange == Last(handled)
  IN  /\ session = "writing" /\ outgoing = << >>
      /\ session' = IF \/ exchange.request.type = "BYE"
                       \/ exchange.reply = ERROR /\ exchange.request.type # "PUSH"
                    THEN "over" ELSE "reading"
      /\ UNCHANGED <<rioVars, listening, clientVars, answers, outgoing, handled>>

-----------------------------------------------------------------------------

ProgramStep == Connect \/ WriteRequest \/ ReadReply
ServerStep  == Listen \/ ReadLine \/ Handle \/ rio_writen \/ Replied

Over == client \in Ended /\ (session = "over" \/ clientfd # 0)

WireInit ==
  /\ Reader!RioInit
  /\ listening = FALSE /\ session = "idle" /\ outgoing = << >> /\ handled = << >>
  /\ client = "start" /\ clientfd = -1 /\ list \in Programs /\ next = 1
  /\ result = << >> /\ answers = << >>

WireNext == ProgramStep \/ ServerStep \/ ReadFails \/ (Over /\ UNCHANGED wireVars)

\* The two processes run, and what is written arrives.  Nothing makes a read
\* fail: one that finds nothing waits.
WireSpec ==
  /\ WireInit /\ [][WireNext]_wireVars
  /\ WF_wireVars(ProgramStep) /\ WF_wireVars(ServerStep)

-----------------------------------------------------------------------------

\* The session handles what the program has written, request by request and in
\* order, wherever write(2) and read(2) cut the stream: each line is decoded
\* whole, and only a connection that failed or ended is taken for a bad one
\* (csapp.c:811-899, client_connection.cpp:61-77).
HandledAsSent ==
  \A i \in 1 .. Len(handled) :
    \/ i <= Len(list) /\ handled[i].request = decode(Spelled(list[i]))
    \/ /\ i = Len(handled) /\ handled[i].request = Invalid
       /\ returned[i] \in {EndOfFile, ReadError}

\* A program that reports success has been served: every request before BYE
\* was handled and neither refused nor failed, and what get_value prints is
\* the value that TOP found, without the newline of an unclosed quote.  The
\* programs read a reply with one read(2), do not look whether it is all of
\* it, and take -2 of open_clientfd for a descriptor (set_value.cpp:26-58,
\* 92, get_value.cpp:29-77, incr_value.cpp:26-59).
ExitZeroMeansServed ==
  client = "exit 0" =>
    /\ Len(handled) >= Len(list) - 1
    /\ \A i \in 1 .. Len(list) - 1 :
         /\ handled[i].request = decode(Spelled(list[i]))
         /\ handled[i].reply.type \in {"OK", "DATA"}
         /\ handled[i].reply.type = "DATA" => Words(get_value(handled[i].reply)) = <<result>>

\* A program and its session do not wait for each other for ever: the program
\* ends, and so does the thread that was started for it, after every reply,
\* an ERROR that leaves the session open (client_connection.cpp:281) and a
\* connection that was never made included.
BothEnd == <>[](client \in Ended /\ (clientfd = 0 => session = "over"))
=============================================================================
