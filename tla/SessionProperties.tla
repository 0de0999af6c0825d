-------------------------- MODULE SessionProperties -------------------------
(***************************************************************************)
(* What the sessions of ClientConnection promise, and what the repository  *)
(* says they promise.  Some of it holds whatever the heap hands to the     *)
(* constructor of a session; some only for sessions whose uninitialised    *)
(* in_transaction is "zero" (fresh memory, the usual case), and some only  *)
(* for "one".  Each property says which, and the runs choose HeapBytes.    *)
(***************************************************************************)
EXTENDS ClientConnection

\* Labels of a thread inside the handler of one request.
SetLocked == {"set_find", "set_store", "set_commit", "set_unlock"}
SetLabels == {"SET", "set_lock", "set_wait", "set_end", "set_unlock_again"} \cup SetLocked
GetLocked == {"get_find", "get_read", "get_end", "get_unlock", "get_miss",
              "get_miss_unlock"}
GetLabels == {"GET", "get_wait", "get_miss_flag"} \cup GetLocked
CommitLoop == {"commit", "commit_unlock"}
HandlerLabels ==
  {"CREATE", "BEGIN", "COMMIT"} \cup SetLabels \cup GetLabels \cup CommitLoop

Label == {"unborn", "login", "ready", "except", "rollback_self", "done"}
         \cup HandlerLabels

LinkTypeOK ==
  /\ m_client_fd \in [Conn -> ClientId]
  /\ rio_fd \in [Conn -> ClientId]
  /\ flag \in [Conn -> {"zero", "one", "junk"}]
  /\ stack \in [Conn -> Seq(Value)]
  /\ reply \in [Conn -> {"none", "OK", "FAILED", "ERROR", "DATA"}]
  /\ up \in BOOLEAN
  /\ raced \in BOOLEAN

\* A handler works on a table and a key that its request named, SET has a
\* value to store when it reaches the store, and only inside the loop of a
\* commit are there tables left to visit.
HandlersHaveArguments ==
  \A c \in Conn :
    /\ pc[c] \in SetLabels \cup GetLabels =>
         table_name[c] \in TableName /\ key_name[c] \in Key
    /\ pc[c] \in {"CREATE", "commit_unlock"} => table_name[c] \in TableName
    /\ pc[c] \in {"set_lock", "set_wait", "set_find", "set_store"} => stack[c] # << >>
    /\ pc[c] \notin CommitLoop => unvisited[c] = {}

PlaceTypeOK ==
  /\ pc \in [Conn -> Label]
  /\ table_name \in [Conn -> TableName \cup {Absent}]
  /\ key_name \in [Conn -> Key \cup {Absent}]
  /\ unvisited \in [Conn -> SUBSET TableName]
  /\ served \in [Conn -> 0 .. MaxRequests]
  /\ HandlersHaveArguments

\* TYPE INVARIANT.  Every variable has its type, the operands and the results
\* of arithmetic included, and get_top, pop and the lookups of a handler are
\* never reached without what they need.
TypeOK == TableTypeOK /\ ServerTypeOK /\ LinkTypeOK /\ PlaceTypeOK

-----------------------------------------------------------------------------
(* Whatever the heap, whatever the faults.                                 *)

\* The loop of commit_transaction looks a recorded name up and dereferences
\* the iterator without a test at server.cpp:141.  Every name it can meet,
\* those inherited from an earlier session included, is that of a table; so
\* is that of every table that a handler works on after find_table.
CommitFindsTables ==
  /\ \A client \in ClientId : transaction_locks[client] \subseteq tables
  /\ \A c \in Conn :
       /\ unvisited[c] \subseteq tables
       /\ pc[c] \in (SetLabels \ {"SET"}) \cup (GetLabels \ {"GET"}) =>
            table_name[c] \in tables

\* The server's mutex is held over more than one step only by the loop of a
\* commit and by a rollback that waits for it, and these do hold it: a commit
\* is atomic for every other operation that takes the mutex.
MutexHeldByCommitOrRollback ==
  \A c \in Conn : (mutex = c) <=> (pc[c] \in CommitLoop \cup {"rollback_self"})

\* The write of a SET that has passed its checks and has not stored it yet.
NoWrite == [name |-> Absent]
Asked(c) ==
  IF pc[c] \in {"set_lock", "set_wait", "set_find", "set_store"}
  THEN [name |-> table_name[c], key |-> key_name[c], value |-> Top(stack[c])]
  ELSE NoWrite

\* The sessions implement the abstract store: what GET finds in a table is
\* what it maps to there.
Abstract == INSTANCE VisibleStore WITH
  Name <- TableName, StoreKey <- Key, StoreValue <- Value, NoEntry <- Absent,
  InitialNames <- InitialTables, InitialStore <- InitialData, Writer <- Conn,
  known <- tables, store <- [t \in TableName |-> Visible(t)],
  asked <- [c \in Conn |-> Asked(c)], sound <- ~raced

\* REFINEMENT.  A SET that has passed its checks stores its value exactly
\* once, whoever it had to wait for, and the value a client can read under a
\* key is the one last SET: begin, commit, failures, closed connections and
\* unlocked mutexes change no visible entry, whether an entry is in m_data or
\* still in m_temporary_changes (client_connection.cpp:212-228,
\* table.cpp:45-88, server.cpp:133-148).
ImplementsVisibleStore == Abstract!StoreSpec

-----------------------------------------------------------------------------
(* Sessions whose flag is "zero".                                          *)

\* No table's mutex outlives the request that locked it: it is held by a
\* thread inside the locked part of a SET or a GET of that very table.  So a
\* BEGIN, an abandoned transaction and a client that goes away leave no table
\* locked (client_connection.cpp:228-243, 249-274), for clients whose
\* requests are supported and whose replies can be written.
LocksEndWithRequest ==
  \A t \in TableName : \A c \in Conn :
    m_mutex[t] = c => pc[c] \in SetLocked \cup GetLocked /\ table_name[c] = t

\* The thread of c cannot go on before d has released a mutex: the server's,
\* which c needs for its next lookup, or that of the table it works on.
WaitsFor(c, d) ==
  \/ /\ mutex = d
     /\ \/ pc[c] \in {"CREATE", "BEGIN", "COMMIT", "SET", "set_lock", "set_find", "set_end",
                      "GET", "get_find", "get_end", "get_miss"}
        \/ pc[c] = "get_miss_flag" /\ ReadsFalse(c)
  \/ pc[c] \in {"set_wait", "get_wait"} /\ m_mutex[table_name[c]] = d

Moves(c) == pc[c] \in HandlerLabels /\ \A d \in Conn : ~WaitsFor(c, d)

\* No deadlock, and no wait for a thread that has gone home with the mutex:
\* a request that waits does so for a thread in the middle of a request, which
\* can go on, or waits itself for one that can.  No chain of waiting threads is
\* longer, and none is closed, in whatever order the transactions use their
\* tables (client_connection.cpp:219-220, 251; server.cpp:114, 134).
WaitsAreShort ==
  \A c, d \in Conn : WaitsFor(c, d) =>
    \/ Moves(d)
    \/ \E e \in Conn : pc[d] \in HandlerLabels /\ WaitsFor(d, e) /\ Moves(e)

\* Entries that are not committed exist only between the set() and the
\* commit_changes() of a SET in progress on that table: nothing a transaction
\* does is ever pending, there would be nothing to roll back.  Claimed until
\* two threads have raced on a table's maps.
NothingLeftUncommitted ==
  raced \/ \A t \in TableName :
    m_temporary_changes[t] # NoEntries =>
      \E c \in Conn : pc[c] = "set_commit" /\ table_name[c] = t

\* Every request that a thread has begun to handle ends, unless the process
\* dies or two threads have raced: no deadlock over the server's mutex and
\* those of the tables, in whatever order transactions use the tables.
RequestCompletes ==
  \A c \in Conn :
    pc[c] \in HandlerLabels ~> (pc[c] \in {"ready", "done"} \/ raced \/ ~up)

-----------------------------------------------------------------------------
(* Sessions whose flag is "zero" or "junk".                                *)

\* A session whose descriptor is closed in the middle of a request, because its
\* reply could not be written, goes on with -1 for its client id, which it
\* shares with all that were closed and that can have a transaction of its own:
\* such a session may leave a table locked for good.  No other does, not even
\* when its mutex is unlocked by one, or it inherits the transaction of an
\* earlier session (client_connection.cpp:91, 228-243, 249-274).
OnlyClosedSessionsKeepLocks ==
  \A t \in TableName : \A c \in Conn :
    m_mutex[t] = c =>
      \/ pc[c] \in SetLocked \cup GetLocked /\ table_name[c] = t
      \/ pc[c] # "unborn" /\ m_client_fd[c] = NoFd

-----------------------------------------------------------------------------
(* Sessions whose flag is "one".                                           *)

\* Two threads are never about to write the maps of one table together.
WritersExclude ==
  \A t \in TableName : \A c, d \in Conn : Writes(c, t) /\ Writes(d, t) => c = d

\* The one access that can race is the unlocked GET of a transaction.
OnlyTransactionalReadsRace ==
  \A t \in TableName : \A c \in Conn :
    Reads(c, t) /\ (\E d \in Conn \ {c} : Writes(d, t)) => InTransaction(c)

\* The tables that commit_transaction will unlock are locked: a record made
\* while no transaction was active has been dropped by begin_transaction, and
\* no other session's unlock has freed them.
RecordedLocksAreHeld ==
  \A client \in ClientId : \A t \in transaction_locks[client] :
    in_transaction[client] =>
      \/ m_mutex[t] # Free
      \/ \E c \in Conn : pc[c] \in CommitLoop /\ m_client_fd[c] = client

\* A GET outside a transaction reads no table that the transaction of another
\* client has locked: not while the transaction goes on, nor between the steps
\* of a COMMIT, which unlocks one table after the other, nor when a client has
\* gone without one.  So it sees nothing of a transaction that is half done
\* (client_connection.cpp:249-257, server.cpp:133-148).
TransactionsStayHidden ==
  \A t \in TableName : \A c \in Conn : Reads(c, t) /\ ~InTransaction(c) =>
    \A client \in ClientId \ {id(c)} :
      in_transaction[client] => t \notin transaction_locks[client]

-----------------------------------------------------------------------------
(* What the repository says, and the code does not do.                     *)

\* server.cpp:153, "If no transaction is active, there's nothing to roll back",
\* and client_connection.cpp:386: a session that ends with an exception rolls
\* back what it has to and is over.
ExceptionEndsSession ==
  \A c \in Conn : pc[c] = "except" ~> (pc[c] = "done" \/ raced \/ ~up)

\* client_connection.cpp:143, "ERROR should close the session": once its
\* descriptor is closed, a session takes no request any more.
ClosedSessionsAreOver ==
  [][\A c \in Conn : m_client_fd[c] = NoFd => served'[c] = served[c]]_vars
=============================================================================
