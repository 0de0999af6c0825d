-------------------------- MODULE ClientConnection --------------------------
(***************************************************************************)
(* The sessions of the table server (client_connection.cpp): one thread    *)
(* per accepted connection, which reads a request, handles it and answers  *)
(* it, over the tables and the transaction state that all threads share.   *)
(*                                                                         *)
(* A step is what a thread does between two points where another thread    *)
(* can interfere: the Guards of the server's member functions, the mutexes *)
(* of the tables, and each access to the maps of a table, because several  *)
(* accesses happen without the table's mutex.  What touches only the       *)
(* session itself (its stack, its reply) is part of the step before it.    *)
(*                                                                         *)
(* Clients are the environment.  They answer nothing, wait for each reply  *)
(* unless they pipeline, and may do what Requests and Faults allow.        *)
(***************************************************************************)
EXTENDS Server

CONSTANTS
  HeapBytes,   \* what ClientConnection::in_transaction can be born as
  Requests,    \* the requests the clients make
  PushTexts,   \* the texts they push
  Identifier,  \* the keys that satisfy is_valid_username
  LongKey,     \* those whose "Cannot find key" is longer than a message may be
  Faults,      \* what else can happen, see below
  MaxRequests  \* BOUND: requests handled per connection, BYE apart

AllRequests ==
  ArithOps \cup {"LOGIN", "CREATE", "PUSH", "PUSH_EMPTY", "POP", "TOP", "SET",
                 "GET", "BEGIN", "COMMIT", "BYE", "UNSUPPORTED"}

(***************************************************************************)
(*   eof        a client closes its connection without saying BYE          *)
(*   malformed  a line arrives that does not decode into a valid message   *)
(*   pipelined  a client does not wait for replies, so the read buffer of  *)
(*              its session can hold requests that outlive the descriptor  *)
(*   reset      a write fails because the client is gone                   *)
(*   pipe       the same, reported as SIGPIPE, which nothing ignores       *)
(*   nothread   pthread_create fails                                       *)
(***************************************************************************)
AllFaults == {"eof", "malformed", "pipelined", "reset", "pipe", "nothread"}

ASSUME ClientConnectionAssumption ==
  /\ HeapBytes \subseteq {"zero", "one", "junk"}
  /\ Requests \subseteq AllRequests
  /\ PushTexts \subseteq Value
  /\ Identifier \subseteq Key
  /\ LongKey \subseteq Key
  /\ Faults \subseteq AllFaults
  /\ MaxRequests \in Nat

VARIABLES
  pc,           \* where the thread of each connection is
  m_client_fd,  \* the descriptor, NoFd once closed; also the client id
  rio_fd,       \* the descriptor the read buffer was made for, never reset
  flag,         \* ClientConnection::in_transaction
  stack,        \* the operand stack
  table_name,   \* the table of the request, or of the pass of commit's loop;
  key_name,     \* the key of the request; both Absent between requests
  unvisited,    \* the tables the loop of commit_transaction has not visited
  served,       \* how many requests have been read
  reply,        \* the answer to the last request, "none" if it was lost
  up,           \* the server process is alive
  raced         \* history: two threads accessed a map of a table at once

tableVars == <<m_data, m_temporary_changes, m_mutex>>
fdVars    == <<m_client_fd, rio_fd, flag>>
argVars   == <<table_name, key_name, unvisited>>
vars == <<tableVars, serverVars, pc, fdVars, stack, argVars, served, reply,
          up, raced>>

(***************************************************************************)
(* The constructor of ClientConnection leaves in_transaction as it finds   *)
(* it on the heap, and nothing assigns it before it is read.  A byte that  *)
(* is neither 0 nor 1 makes the code g++ emits take `if (in_transaction)'  *)
(* as well as `if (!in_transaction)', which flips the low bit and tests    *)
(* the byte for zero.                                                      *)
(***************************************************************************)
ReadsTrue(c)  == flag[c] # "zero"
ReadsFalse(c) == flag[c] # "one"

OpenFds == {m_client_fd[c] : c \in Conn} \ {NoFd}

id(c) == m_client_fd[c]

InTransaction(c) == is_transaction_active(id(c))

-----------------------------------------------------------------------------
(* Data races on the maps of a table.                                      *)

Writes(c, t) ==
  \/ pc[c] \in {"set_store", "set_commit"} /\ table_name[c] = t
  \/ pc[c] = "commit" /\ t \in unvisited[c]

Reads(c, t) == pc[c] = "get_read" /\ table_name[c] = t

\* Two threads are each about to access the maps of t, and one writes.
Race(t) ==
  \E c, d \in Conn : c # d /\ Writes(c, t) /\ (Writes(d, t) \/ Reads(d, t))

\* An access of t is made.  Once two have collided, raced stays TRUE.
Access(t) == raced' = (raced \/ Race(t))

-----------------------------------------------------------------------------
(* Replies and descriptors.                                                *)

Goto(c, label) == pc' = [pc EXCEPT ![c] = label]

close_connection(c) == m_client_fd' = [m_client_fd EXCEPT ![c] = NoFd]

\* rio_writen: the reply is written, lost, or the death of the process.
Written(c, r) ==
  /\ id(c) # NoFd
  /\ reply' = [reply EXCEPT ![c] = r]
  /\ UNCHANGED up
Lost(c) ==
  /\ id(c) = NoFd \/ "reset" \in Faults
  /\ reply' = [reply EXCEPT ![c] = "none"]
  /\ UNCHANGED up
Killed(c) ==
  /\ id(c) # NoFd /\ "pipe" \in Faults
  /\ up' = FALSE
  /\ UNCHANGED reply

send_message(c, r) ==
  /\ \/ (Written(c, r) \/ Killed(c)) /\ UNCHANGED m_client_fd
     \/ Lost(c) /\ close_connection(c)
  /\ UNCHANGED <<rio_fd, flag>>

\* The end of the process closes the descriptor as well.
send_and_close(c, r) ==
  /\ Written(c, r) \/ Lost(c) \/ Killed(c)
  /\ close_connection(c)
  /\ UNCHANGED <<rio_fd, flag>>

\* The session is over: client_worker returns, or server_loop has no thread for
\* it, and the destructor closes what the session has left open.
delete_connection(c) == close_connection(c) /\ Goto(c, "done")

\* No reply is sent in this step.
Silent == UNCHANGED <<fdVars, reply, up>>

-----------------------------------------------------------------------------
(* Opening and ending a session: server_loop, chat_with_client.            *)

\* accept() returns the lowest descriptor that is not open.
accepts(fd) ==
  /\ fd \in Fd \ OpenFds
  /\ \A other \in Fd \ OpenFds : fd <= other

Accept(c) ==
  /\ pc[c] = "unborn"
  /\ \E fd \in Fd, byte \in HeapBytes :
       /\ accepts(fd)
       /\ m_client_fd' = [m_client_fd EXCEPT ![c] = fd]
       /\ rio_fd' = [rio_fd EXCEPT ![c] = fd]
       /\ flag' = [flag EXCEPT ![c] = byte]
  /\ Goto(c, "login")
  /\ UNCHANGED <<tableVars, serverVars, stack, argVars, served, reply, up, raced>>

\* Without a thread the connection is deleted, which closes it, and
\* pthread_detach is called on an uninitialised thread id.
ThreadRefused(c) ==
  /\ "nothread" \in Faults
  /\ pc[c] = "unborn"
  /\ delete_connection(c)
  /\ up' \in BOOLEAN
  /\ UNCHANGED <<tableVars, serverVars, rio_fd, flag, stack, argVars, served, reply,
                 raced>>

Login(c) ==
  /\ pc[c] = "login"
  /\ send_message(c, "OK")
  /\ Goto(c, "ready")
  /\ UNCHANGED <<tableVars, serverVars, stack, argVars, served, raced>>

\* A first request that is valid and is not LOGIN.
NotLogin(c) ==
  /\ pc[c] = "login" /\ "UNSUPPORTED" \in Requests
  /\ send_and_close(c, "ERROR")
  /\ delete_connection(c)
  /\ UNCHANGED <<tableVars, serverVars, stack, argVars, served, raced>>

\* read_message throws: nothing to read, or nothing that decodes.  A read on
\* a descriptor that the session has closed fails, unless it is open again.
BadInput(c) ==
  /\ pc[c] \in {"login", "ready"}
  /\ Faults \cap {"eof", "malformed"} # {} \/ rio_fd[c] \notin OpenFds
  /\ Goto(c, "except")
  /\ Silent
  /\ UNCHANGED <<tableVars, serverVars, stack, argVars, served, raced>>

\* handle_exception, in a session that believes it has no transaction.
CloseOnException(c) ==
  /\ pc[c] = "except" /\ ~ReadsTrue(c)
  /\ send_and_close(c, "ERROR")
  /\ delete_connection(c)
  /\ UNCHANGED <<tableVars, serverVars, stack, argVars, served, raced>>

\* handle_exception, in one that believes it has: rollback_transaction takes
\* the server's mutex and calls is_transaction_active, which takes it again.
\* The thread stays there, so the rest of the function is never reached.
rollback_transaction(c) ==
  /\ pc[c] = "except" /\ ReadsTrue(c)
  /\ Guard
  /\ mutex' = c
  /\ Goto(c, "rollback_self")
  /\ Silent
  /\ UNCHANGED <<tableVars, tables, in_transaction, transaction_locks, stack,
                 argVars, served, raced>>

-----------------------------------------------------------------------------
(* Requests that work on the session alone.                                *)

\* There can be a request to read: from the descriptor, which need not be the
\* session's any more, or in the read buffer.
Readable(c) == rio_fd[c] \in OpenFds \/ "pipelined" \in Faults

\* The next request is read and is r.
read_message(c, r) ==
  /\ pc[c] = "ready" /\ r \in Requests
  /\ Readable(c)
  /\ served[c] < MaxRequests
  /\ served' = [served EXCEPT ![c] = @ + 1]

LocalStep == UNCHANGED <<tableVars, serverVars, argVars, raced>>

LoginAgain(c) ==
  /\ read_message(c, "LOGIN")
  /\ send_message(c, "OK")
  /\ LocalStep /\ UNCHANGED <<pc, stack>>

handle_push_request(c) ==
  /\ \/ /\ read_message(c, "PUSH")
        /\ \E v \in PushTexts : stack' = [stack EXCEPT ![c] = Push(@, v)]
        /\ send_message(c, "OK")
     \/ /\ read_message(c, "PUSH_EMPTY")
        /\ send_message(c, "ERROR")
        /\ UNCHANGED stack
  /\ LocalStep /\ UNCHANGED pc

handle_pop_request(c) ==
  /\ read_message(c, "POP")
  /\ IF IsEmpty(stack[c])
     THEN send_message(c, "FAILED") /\ UNCHANGED stack
     ELSE send_message(c, "OK") /\ stack' = [stack EXCEPT ![c] = Pop(@)]
  /\ LocalStep /\ UNCHANGED pc

handle_top_request(c) ==
  /\ read_message(c, "TOP")
  /\ send_message(c, IF IsEmpty(stack[c]) THEN "FAILED" ELSE "DATA")
  /\ LocalStep /\ UNCHANGED <<pc, stack>>

arithmetic(c, op) ==
  LET result == ArithResult(op, stack[c])
  IN  /\ read_message(c, op)
      /\ stack' = [stack EXCEPT ![c] = result.stack]
      /\ \/ /\ result.outcome \in {"OK", "FAILED"}
            /\ send_message(c, result.outcome)
            /\ UNCHANGED pc
         \/ \* std::out_of_range: chat_with_client closes without a reply
            /\ result.outcome = "ESCAPES"
            /\ delete_connection(c)
            /\ UNCHANGED <<rio_fd, flag, reply, up>>
         \/ /\ result.outcome = "SIGFPE"
            /\ up' = FALSE
            /\ UNCHANGED <<pc, fdVars, reply>>
      /\ LocalStep

handle_arithmetic_request(c) == \E op \in ArithOps : arithmetic(c, op)

\* Any InvalidMessage inside handle_request: the descriptor is closed, and
\* the loop of chat_with_client goes on to read the next request.
reject(c) ==
  /\ read_message(c, "UNSUPPORTED")
  /\ send_and_close(c, "ERROR")
  /\ LocalStep /\ UNCHANGED <<pc, stack>>

handle_bye_request(c) ==
  /\ pc[c] = "ready" /\ "BYE" \in Requests
  /\ Readable(c)
  /\ send_and_close(c, "OK")
  /\ delete_connection(c)
  /\ LocalStep /\ UNCHANGED <<stack, served>>

-----------------------------------------------------------------------------
(* Requests that work on the server: CREATE, BEGIN, COMMIT.                *)

\* A request that names a table and a key is read; its handler starts.
Receive(c) ==
  /\ pc[c] = "ready"
  /\ \E r \in {"CREATE", "GET", "SET", "BEGIN", "COMMIT"} :
       /\ read_message(c, r)
       /\ Goto(c, r)
       /\ IF r \in {"CREATE", "GET", "SET"}
          THEN \E t \in TableName : table_name' = [table_name EXCEPT ![c] = t]
          ELSE UNCHANGED table_name
       /\ IF r \in {"GET", "SET"}
          THEN \E k \in Key : key_name' = [key_name EXCEPT ![c] = k]
          ELSE UNCHANGED key_name
  /\ Silent
  /\ UNCHANGED <<tableVars, serverVars, stack, unvisited, raced>>

\* A handler leaves for label, and the arguments of its request are gone.
Leave(c, label) ==
  /\ Goto(c, label)
  /\ table_name' = [table_name EXCEPT ![c] = Absent]
  /\ key_name' = [key_name EXCEPT ![c] = Absent]
  /\ UNCHANGED <<unvisited, served>>

\* A handler returns to the loop of chat_with_client, or throws out of it.
Back(c) == Leave(c, "ready")
Fail(c) == Leave(c, "except")

\* ... returns with the reply r.
Finish(c, r) ==
  /\ send_message(c, r)
  /\ Back(c)
  /\ UNCHANGED stack

handle_create_request(c) ==
  /\ pc[c] = "CREATE" /\ Guard
  /\ IF table_name[c] \in tables
     THEN Finish(c, "FAILED") /\ UNCHANGED serverVars
     ELSE Finish(c, "OK") /\ create_table(table_name[c])
  /\ UNCHANGED <<tableVars, raced>>

handle_begin_request(c) ==
  /\ pc[c] = "BEGIN" /\ Guard
  /\ IF InTransaction(c)
     THEN Finish(c, "FAILED") /\ UNCHANGED serverVars
     ELSE Finish(c, "OK") /\ begin_transaction(id(c))
  /\ UNCHANGED <<tableVars, raced>>

commit_begins(c) ==
  /\ pc[c] = "COMMIT" /\ Guard
  /\ \/ /\ ~InTransaction(c)
        /\ Finish(c, "FAILED")
        /\ UNCHANGED serverVars
     \/ /\ InTransaction(c)
        /\ mutex' = c
        /\ unvisited' = [unvisited EXCEPT ![c] = transaction_locks[id(c)]]
        /\ Goto(c, "commit")
        /\ Silent
        /\ UNCHANGED <<tables, in_transaction, transaction_locks, stack,
                       table_name, key_name, served>>
  /\ UNCHANGED <<tableVars, raced>>

\* The loop of commit_transaction, one table at a time.
commit_table(c) ==
  /\ pc[c] = "commit"
  /\ \E t \in unvisited[c] \cap tables :
       /\ commit_changes(t) \/ (Race(t) /\ UNCHANGED <<m_data, m_temporary_changes>>)
       /\ Access(t)
       /\ table_name' = [table_name EXCEPT ![c] = t]
       /\ unvisited' = [unvisited EXCEPT ![c] = @ \ {t}]
  /\ Goto(c, "commit_unlock")
  /\ Silent
  /\ UNCHANGED <<m_mutex, serverVars, stack, key_name, served>>

commit_unlock(c) ==
  /\ pc[c] = "commit_unlock"
  /\ unlock(table_name[c])
  /\ Goto(c, "commit")
  /\ Silent
  /\ UNCHANGED <<m_data, m_temporary_changes, serverVars, stack, argVars,
                 served, raced>>

commit_ends(c) ==
  /\ pc[c] = "commit" /\ unvisited[c] = {}
  /\ end_transaction(id(c))
  /\ Finish(c, "OK")
  /\ UNCHANGED <<tableVars, raced>>

-----------------------------------------------------------------------------
(* SET.  The table is locked, given the value, and unlocked: at once if    *)
(* the session reads its flag as false, and AGAIN at the end if the server *)
(* knows of no transaction.                                                *)

\* The steps of a handler that change neither the session's descriptors nor
\* its arguments and send nothing.
Within(c, label) ==
  /\ Goto(c, label)
  /\ Silent
  /\ UNCHANGED <<argVars, served>>

\* MUTANT: neither the table nor the stack is checked.
set_checks_missing(c) ==
  /\ pc[c] = "SET" /\ Guard
  /\ Within(c, "set_lock")
  /\ UNCHANGED <<tableVars, serverVars, stack, raced>>

set_checks(c) ==
  /\ pc[c] = "SET" /\ Guard
  /\ \/ /\ table_name[c] \notin tables
        /\ Finish(c, "FAILED")
     \/ /\ table_name[c] \in tables /\ key_name[c] \notin Identifier
        /\ send_and_close(c, "ERROR")
        /\ Back(c)
        /\ UNCHANGED stack
     \/ /\ table_name[c] \in tables /\ key_name[c] \in Identifier
        /\ IF IsEmpty(stack[c])
           THEN Finish(c, "FAILED")
           ELSE Within(c, "set_lock") /\ UNCHANGED stack
  /\ UNCHANGED <<tableVars, serverVars, raced>>

\* lock_table: the trylock succeeds and is recorded, or it fails.
set_trylock(c) ==
  LET t == table_name[c]
  IN  /\ pc[c] = "set_lock" /\ Guard
      /\ IF m_mutex[t] = Free
         THEN lock(t, c) /\ record_lock(t, id(c)) /\ Within(c, "set_find")
         ELSE Within(c, "set_wait") /\ UNCHANGED <<m_mutex, serverVars>>
      /\ UNCHANGED <<m_data, m_temporary_changes, stack, raced>>

\* table->lock(), after lock_table returned false.
set_wait(c) ==
  /\ pc[c] = "set_wait"
  /\ lock(table_name[c], c)
  /\ Within(c, "set_find")
  /\ UNCHANGED <<m_data, m_temporary_changes, serverVars, stack, raced>>

\* The second find_table, which waits for the server's mutex.
set_find(c) ==
  /\ pc[c] = "set_find" /\ Guard
  /\ Within(c, "set_store")
  /\ UNCHANGED <<tableVars, serverVars, stack, raced>>

set_store(c) ==
  LET t == table_name[c]
  IN  /\ pc[c] = "set_store"
      /\ \/ set(t, key_name[c], Top(stack[c]))
         \/ Race(t) /\ UNCHANGED <<m_data, m_temporary_changes>>
      /\ stack' = [stack EXCEPT ![c] = Pop(@)]
      /\ Access(t)
      /\ \/ /\ ReadsFalse(c)
            /\ Goto(c, "set_commit")
            /\ Silent
         \/ /\ ~ReadsFalse(c)
            /\ Goto(c, "set_end")
            /\ send_message(c, "OK")
      /\ UNCHANGED <<m_mutex, serverVars, argVars, served>>

set_commit(c) ==
  LET t == table_name[c]
  IN  /\ pc[c] = "set_commit"
      /\ commit_changes(t) \/ (Race(t) /\ UNCHANGED <<m_data, m_temporary_changes>>)
      /\ Access(t)
      /\ Within(c, "set_unlock")
      /\ UNCHANGED <<m_mutex, serverVars, stack>>

set_unlock(c) ==
  /\ pc[c] = "set_unlock"
  /\ unlock(table_name[c])
  /\ Goto(c, "set_end")
  /\ send_message(c, "OK")
  /\ UNCHANGED <<m_data, m_temporary_changes, serverVars, stack, argVars,
                 served, raced>>

\* MUTANT: the table is unlocked with or without a transaction.
set_end_always(c) ==
  /\ pc[c] = "set_end" /\ Guard
  /\ Within(c, "set_unlock_again")
  /\ UNCHANGED <<tableVars, serverVars, stack, raced>>

set_end(c) ==
  /\ pc[c] = "set_end" /\ Guard
  /\ IF InTransaction(c) THEN Back(c) /\ Silent ELSE Within(c, "set_unlock_again")
  /\ UNCHANGED <<tableVars, serverVars, stack, raced>>

set_unlock_again(c) ==
  /\ pc[c] = "set_unlock_again"
  /\ unlock(table_name[c])
  /\ Back(c) /\ Silent
  /\ UNCHANGED <<m_data, m_temporary_changes, serverVars, stack, raced>>

-----------------------------------------------------------------------------
(* GET.  The table is locked only when no transaction is active.           *)

\* MUTANT: the condition on is_transaction_active is inverted.
get_checks_inverted(c) ==
  /\ pc[c] = "GET" /\ Guard
  /\ IF table_name[c] \notin tables
     THEN Finish(c, "FAILED")
     ELSE /\ Within(c, IF InTransaction(c) THEN "get_wait" ELSE "get_find")
          /\ UNCHANGED stack
  /\ UNCHANGED <<tableVars, serverVars, raced>>

get_checks(c) ==
  /\ pc[c] = "GET" /\ Guard
  /\ IF table_name[c] \notin tables
     THEN Finish(c, "FAILED")
     ELSE /\ Within(c, IF InTransaction(c) THEN "get_find" ELSE "get_wait")
          /\ UNCHANGED stack
  /\ UNCHANGED <<tableVars, serverVars, raced>>

get_wait(c) ==
  /\ pc[c] = "get_wait"
  /\ lock(table_name[c], c)
  /\ Within(c, "get_find")
  /\ UNCHANGED <<m_data, m_temporary_changes, serverVars, stack, raced>>

get_find(c) ==
  /\ pc[c] = "get_find" /\ Guard
  /\ Within(c, "get_read")
  /\ UNCHANGED <<tableVars, serverVars, stack, raced>>

\* A read that collides with a write may miss an entry that is there.
get_read(c) ==
  LET t == table_name[c]
      entry == Visible(t)[key_name[c]]
  IN  /\ pc[c] = "get_read"
      /\ Access(t)
      /\ \/ /\ entry # Absent
            /\ stack' = [stack EXCEPT ![c] = Push(@, entry)]
            /\ send_message(c, "OK")
            /\ Goto(c, "get_end")
         \/ /\ entry = Absent \/ Race(t)
            /\ Goto(c, "get_miss")
            /\ Silent
            /\ UNCHANGED stack
      /\ UNCHANGED <<tableVars, serverVars, argVars, served>>

\* MUTANT: a successful GET returns without unlocking.
get_end_locked(c) ==
  /\ pc[c] = "get_end" /\ Guard
  /\ Back(c) /\ Silent
  /\ UNCHANGED <<tableVars, serverVars, stack, raced>>

get_end(c) ==
  /\ pc[c] = "get_end" /\ Guard
  /\ IF InTransaction(c) THEN Back(c) /\ Silent ELSE Within(c, "get_unlock")
  /\ UNCHANGED <<tableVars, serverVars, stack, raced>>

get_unlock(c) ==
  /\ pc[c] = "get_unlock"
  /\ unlock(table_name[c])
  /\ Back(c) /\ Silent
  /\ UNCHANGED <<m_data, m_temporary_changes, serverVars, stack, raced>>

\* MUTANT: a GET that finds nothing fails without unlocking.
get_miss_locked(c) ==
  /\ pc[c] = "get_miss" /\ Guard
  /\ Within(c, "get_miss_flag")
  /\ UNCHANGED <<tableVars, serverVars, stack, raced>>

\* The handler of the exception that get() throws when there is no entry.
get_miss(c) ==
  /\ pc[c] = "get_miss" /\ Guard
  /\ Within(c, IF InTransaction(c) THEN "get_miss_flag" ELSE "get_miss_unlock")
  /\ UNCHANGED <<tableVars, serverVars, stack, raced>>

get_miss_unlock(c) ==
  /\ pc[c] = "get_miss_unlock"
  /\ unlock(table_name[c])
  /\ Within(c, "get_miss_flag")
  /\ UNCHANGED <<m_data, m_temporary_changes, serverVars, stack, raced>>

\* A reply that is too long makes encode throw inside the handler of the
\* exception, and the session ends with that one.
get_miss_flag(c) ==
  /\ pc[c] = "get_miss_flag"
  /\ IF ReadsFalse(c)
     THEN Guard /\ unlock_table(table_name[c], id(c))
     ELSE UNCHANGED <<m_mutex, serverVars>>
  /\ \/ key_name[c] \notin LongKey /\ Finish(c, "FAILED")
     \/ key_name[c] \in LongKey /\ Fail(c) /\ Silent /\ UNCHANGED stack
  /\ UNCHANGED <<m_data, m_temporary_changes, raced>>

-----------------------------------------------------------------------------
(* The whole server.                                                       *)

\* What the thread of c does on its own, once a request has been read.
Handle(c) ==
  \/ CloseOnException(c) \/ rollback_transaction(c)
  \/ handle_create_request(c) \/ handle_begin_request(c)
  \/ commit_begins(c) \/ commit_table(c) \/ commit_unlock(c) \/ commit_ends(c)
  \/ set_checks(c) \/ set_trylock(c) \/ set_wait(c) \/ set_find(c)
  \/ set_store(c) \/ set_commit(c) \/ set_unlock(c)
  \/ set_end(c) \/ set_unlock_again(c)
  \/ get_checks(c) \/ get_wait(c) \/ get_find(c) \/ get_read(c)
  \/ get_end(c) \/ get_unlock(c)
  \/ get_miss(c) \/ get_miss_unlock(c) \/ get_miss_flag(c)

\* What waits for the client of c.
Serve(c) ==
  \/ Accept(c) \/ ThreadRefused(c) \/ Login(c) \/ NotLogin(c) \/ BadInput(c)
  \/ Receive(c) \/ LoginAgain(c) \/ reject(c) \/ handle_bye_request(c)
  \/ handle_push_request(c) \/ handle_pop_request(c) \/ handle_top_request(c)
  \/ handle_arithmetic_request(c)

\* Threads that rebalance one tree at once may also end the process.
Segfault ==
  /\ \E t \in TableName : Race(t)
  /\ up' = FALSE /\ raced' = TRUE
  /\ UNCHANGED <<tableVars, serverVars, pc, fdVars, stack, argVars, served, reply>>

Over == ~up \/ \A c \in Conn : pc[c] = "done"

Terminating == Over /\ UNCHANGED vars

Init ==
  /\ TableInit /\ ServerInit
  /\ pc = [c \in Conn |-> "unborn"]
  /\ m_client_fd = [c \in Conn |-> NoFd]
  /\ rio_fd = [c \in Conn |-> NoFd]
  /\ flag = [c \in Conn |-> "zero"]
  /\ stack = [c \in Conn |-> << >>]
  /\ table_name = [c \in Conn |-> Absent]
  /\ key_name = [c \in Conn |-> Absent]
  /\ unvisited = [c \in Conn |-> {}]
  /\ served = [c \in Conn |-> 0]
  /\ reply = [c \in Conn |-> "none"]
  /\ up = TRUE /\ raced = FALSE

Next ==
  \/ up /\ \E c \in Conn : Serve(c) \/ Handle(c)
  \/ up /\ Segfault
  \/ Terminating

Spec == Init /\ [][Next]_vars

\* Each thread that is not waiting for its client is scheduled.
FairSpec == Spec /\ \A c \in Conn : WF_vars(up /\ Handle(c))
=============================================================================
