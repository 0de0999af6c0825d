------------------------------ MODULE Clients -------------------------------
(***************************************************************************)
(* The clients of the repository against the server: each connection is    *)
(* one run of a client program, which sends the requests of its list one   *)
(* by one, waits for the reply to each, and gives up at the first reply    *)
(* that is FAILED or ERROR (get_value.cpp, set_value.cpp, incr_value.cpp,  *)
(* and scripts/ref_client.rb -e).  How far a run has come in its list is   *)
(* the number of requests that the server has read from it.                *)
(*                                                                         *)
(* LOGIN and BYE, the first and the last request of every list, are left   *)
(* out of the lists: they are the actions Login and handle_bye_request.    *)
(***************************************************************************)
EXTENDS SessionProperties, FiniteSets

CONSTANTS
  Programs,  \* what the runs can be: for each, its list of requests
  Earlier    \* the runs that are over before a run connects

VARIABLE list  \* the list of requests of each run

Request ==
  [op : AllRequests, table : TableName \cup {Absent}, key : Key \cup {Absent},
   value : Value \cup {Absent}]

ASSUME ClientsAssumption ==
  /\ \A lists \in Programs : \A c \in Conn : lists[c] \in Seq(Request)
  /\ Earlier \in [Conn -> SUBSET Conn]

Req(op) == [op |-> op, table |-> Absent, key |-> Absent, value |-> Absent]
PUSH(v) == [Req("PUSH") EXCEPT !.value = v]
CREATE(t) == [Req("CREATE") EXCEPT !.table = t]
GET(t, k) == [Req("GET") EXCEPT !.table = t, !.key = k]
SET(t, k) == [Req("SET") EXCEPT !.table = t, !.key = k]

get_value(t, k) == <<GET(t, k), Req("TOP")>>

set_value(t, k, v) == <<PUSH(v), SET(t, k)>>

incr_value(t, k) == <<GET(t, k), PUSH(1), Req("ADD"), SET(t, k)>>

incr_value_transaction(t, k) ==
  <<Req("BEGIN")>> \o incr_value(t, k) \o <<Req("COMMIT")>>

-----------------------------------------------------------------------------

\* The client has its last answer and exits.
Exited(c) == reply[c] \in {"FAILED", "ERROR"} \/ pc[c] = "done"

Connect(c) == Accept(c) /\ \A d \in Earlier[c] : Exited(d)

Arrives(c, r) ==
  /\ table_name'[c] = r.table
  /\ key_name'[c] = r.key

\* The server reads the next request of the list of c.
NextRequest(c) ==
  LET r == list[c][served[c] + 1]
  IN  /\ pc[c] = "ready" /\ served[c] < Len(list[c])
      /\ \/ Receive(c) /\ pc'[c] = r.op /\ Arrives(c, r)
         \/ r.op = "PUSH" /\ handle_push_request(c) /\ stack'[c] = Push(stack[c], r.value)
         \/ r.op = "TOP" /\ handle_top_request(c)
         \/ r.op \in ArithOps /\ arithmetic(c, r.op)

SendNext(c) ==
  /\ reply[c] \notin {"FAILED", "ERROR"}
  /\ \/ NextRequest(c)
     \/ served[c] = Len(list[c]) /\ handle_bye_request(c)

\* The client has closed its socket: the server reads the end of the stream.
GiveUp(c) == Exited(c) /\ BadInput(c)

ClientsNext ==
  /\ \/ up /\ \E c \in Conn :
          Connect(c) \/ Login(c) \/ SendNext(c) \/ GiveUp(c) \/ Handle(c)
     \/ up /\ Segfault
     \/ Terminating
  /\ UNCHANGED list

ClientsSpec == Init /\ list \in Programs /\ [][ClientsNext]_<<vars, list>>

-----------------------------------------------------------------------------

\* The runs of incr_value on an entry, and the runs that exit with 0.
Increments(t, k) == {c \in Conn : list[c] \in {incr_value(t, k), incr_value_transaction(t, k)}}
Succeeded  == {c \in Conn : pc[c] = "done" /\ reply[c] = "OK"}

AllOver == up /\ \A c \in Conn : pc[c] = "done"

\* A list in which the entry is set.
Sets(requests, t, k) ==
  \E i \in 1 .. Len(requests) :
    requests[i].op = "SET" /\ requests[i].table = t /\ requests[i].key = k

\* The run s of set_value, with or without CREATE, is the one that sets it.
OnlySetter(s, t, k, v) ==
  /\ list[s] \in {set_value(t, k, v), <<CREATE(t)>> \o set_value(t, k, v)}
  /\ \A c \in Conn \ {s} : ~Sets(list[c], t, k)

\* What the whole program is for: a get_value that starts when the set_value
\* of the same entry is over finds the entry and prints that value, whatever
\* is set, created and refused at the same time on other entries of the table
\* (get_value.cpp:104-109, set_value.cpp:84-89), while no two threads have
\* raced.
GetsWhatWasSet ==
  ~raced => \A g \in Conn : \A s \in Earlier[g] \cap Succeeded :
    \A t \in TableName, k \in Key, v \in PushTexts :
      list[g] = get_value(t, k) /\ OnlySetter(s, t, k, v)
      => /\ reply[g] # "FAILED"
         /\ g \in Succeeded => stack[g] = <<v>>

\* An entry that starts at 0 and is set by runs of incr_value only, and those
\* of them that have sent their SET.
OnlyIncremented(t, k) ==
  /\ t \in InitialTables /\ InitialData[t][k] = 0
  /\ \A c \in Conn \ Increments(t, k) : ~Sets(list[c], t, k)
Attempted(t, k) ==
  {c \in Increments(t, k) : \E i \in 1 .. served[c] : list[c][i].op = "SET"}

\* However the increments of an entry overwrite each other, at every moment,
\* with or without transactions and whoever fails: the entry never counts more
\* of them than there have been attempts, and from the first success on it is
\* never back at 0 (incr_value.cpp:92-105), while no two threads have raced.
CountIsEarned ==
  ~raced => \A t \in TableName, k \in Key : OnlyIncremented(t, k) =>
    /\ Visible(t)[k] <= Cardinality(Attempted(t, k))
    /\ Increments(t, k) \cap Succeeded # {} => Visible(t)[k] >= 1

\* scripts/incr_value_concurrent.sh:63, of increments without transactions:
\* "final count should be at least 1/2 of attempted increments".
CountLooksReasonable ==
  AllOver /\ ~raced =>
    \A t \in tables : \A k \in Key :
      Cardinality(Increments(t, k)) <= 2 * Visible(t)[k]

\* scripts/incr_value_concurrent.sh:74-75, with transactions: "the final count
\* should be exactly equal to the number of transactions that were successful".
CountMatchesSuccesses ==
  AllOver /\ ~raced =>
    \A t \in tables : \A k \in Key :
      Increments(t, k) # {} =>
        Visible(t)[k] = Cardinality(Increments(t, k) \cap Succeeded)
=============================================================================
