------------------------------ MODULE FlagProofs -----------------------------
(***************************************************************************)
(* Proofs about sessions whose in_transaction is born "zero", which is     *)
(* what fresh memory gives: they lock a table for one request only, wait   *)
(* for each other in no circle, and leave nothing uncommitted; about those *)
(* for which it is born "zero" or "junk": who keeps a lock; and about      *)
(* those for which it is born "one": whose table is locked for whom.       *)
(***************************************************************************)
EXTENDS SessionProofs

\* What the theorems suppose: the flag is zero; and for the locks, requests
\* that are supported, names that are identifiers, and replies that can be
\* written, without which a session goes on with a closed descriptor.
FreshSessions == HeapBytes = {"zero"}
FalseSessions == HeapBytes \subseteq {"zero", "junk"}
PoliteClients ==
  /\ "UNSUPPORTED" \notin Requests /\ Identifier = Key
  /\ "reset" \notin Faults

\* The labels at which a thread can hold the mutex of the table it works on.
Locked == SetLocked \cup GetLocked

FlagsAreZero == \A c \in Conn : flag[c] = "zero"

FlagsReadFalse == \A c \in Conn : ReadsFalse(c)

\* A session has its descriptor until it is over.
SessionsHaveDescriptors ==
  \A c \in Conn : pc[c] \notin {"unborn", "done"} => m_client_fd[c] # NoFd

\* No session believes it has something to roll back.
NobodyRollsBack == \A c \in Conn : pc[c] # "rollback_self"

\* A GET locks the table exactly if there is no transaction, and whether there
\* is one does not change while it works: not for a session that is not closed.
TransactionsReadUnlocked ==
  \A c \in Conn : m_client_fd[c] # NoFd =>
    /\ pc[c] = "get_wait" => ~InTransaction(c)
    /\ pc[c] \in GetLocked \ {"get_unlock", "get_miss_unlock"} /\ InTransaction(c) =>
         \A t \in TableName : m_mutex[t] # c

\* The inductive invariant of the locks,
LockInv ==
  /\ Safe /\ FlagsAreZero /\ SessionsHaveDescriptors /\ NobodyRollsBack
  /\ TransactionsReadUnlocked /\ LocksEndWithRequest

\* ... and the one for all clients.
KeepInv ==
  /\ Safe /\ FlagsReadFalse
  /\ TransactionsReadUnlocked /\ OnlyClosedSessionsKeepLocks

-----------------------------------------------------------------------------
(* Summaries of what a step of c does.                                     *)

\* To the flags and descriptors.
KeepsFlag(c) ==
  /\ \A d \in Conn \ {c} : flag'[d] = flag[d]
  /\ flag'[c] = flag[c] \/ flag'[c] \in HeapBytes

\* To the mutexes of the tables: c frees some, or takes that of its table.
MovesLocks(c) ==
  \A t \in TableName :
    \/ m_mutex'[t] = Free
    \/ m_mutex'[t] = m_mutex[t]
    \/ /\ m_mutex[t] = Free /\ m_mutex'[t] = c /\ t = table_name[c]
       /\ pc'[c] \in Locked /\ table_name'[c] = t
       /\ pc[c] = "get_wait" \/ pc'[c] \in SetLocked

\* To where c is: it leaves the locked part when its table is not locked, or
\* in a transaction.
LeavesUnlocked(c) ==
  pc[c] \in Locked =>
    \/ pc'[c] \in Locked /\ table_name'[c] = table_name[c]
    \/ m_mutex'[table_name[c]] = Free
    \/ pc[c] \in {"get_end", "get_miss"} /\ InTransaction(c)

\* To a GET: it gets where it is by the way there is.
MovesGet(c) ==
  /\ pc'[c] = "get_wait" => ~InTransaction(c)
  /\ pc'[c] \in GetLocked =>
       \/ pc[c] = "GET" /\ m_mutex' = m_mutex
       \/ pc[c] = "get_wait"
       \/ pc[c] \in GetLocked \ {"get_unlock", "get_miss_unlock"} /\ m_mutex' = m_mutex

\* To the transactions: those of its own descriptor change, and only in a
\* request that is about them.
MovesTransaction(c) ==
  /\ \A client \in ClientId \ {m_client_fd[c]} : in_transaction'[client] = in_transaction[client]
  /\ pc'[c] \in GetLocked \cup {"get_wait"} =>
       in_transaction' = in_transaction /\ m_client_fd'[c] \in {m_client_fd[c], NoFd}

\* To its descriptor: once closed it stays so, and it is not closed before the
\* session is over if its replies can be written.
MovesLink(c) ==
  /\ pc'[c] # "unborn"
  /\ m_client_fd[c] = NoFd /\ m_client_fd'[c] # NoFd => pc[c] = "unborn"
  /\ PoliteClients /\ pc'[c] # "done" =>
       m_client_fd'[c] # NoFd \/ (pc[c] \notin {"unborn", "done"} /\ m_client_fd[c] = NoFd)

LockEffect(c) ==
  /\ KeepsFlag(c) /\ MovesLocks(c) /\ LeavesUnlocked(c) /\ MovesGet(c) /\ MovesTransaction(c)
  /\ MovesLink(c)
  /\ pc'[c] = "rollback_self" => ReadsTrue(c)

\* The types that the summary needs.
LockMappings ==
  /\ Mappings
  /\ flag \in [Conn -> {"zero", "one", "junk"}]
  /\ m_mutex \in [TableName -> Conn \cup {Free}]
  /\ in_transaction \in [ClientId -> BOOLEAN]
  /\ tables \subseteq TableName

-----------------------------------------------------------------------------

USE DEF LockEffect, KeepsFlag, MovesLocks, LeavesUnlocked, MovesGet, MovesTransaction,
        MovesLink, Locked, SetLocked, GetLocked, SetLabels, GetLabels, CommitLoop, ClientId

\* A reply closes the descriptor or leaves it, and leaves it if it is written.
LEMMA SendLink ==
  ASSUME LockMappings, NEW c \in Conn, NEW r, send_message(c, r)
  PROVE  /\ flag' = flag
         /\ \A d \in Conn \ {c} : m_client_fd'[d] = m_client_fd[d]
         /\ m_client_fd'[c] \in {m_client_fd[c], NoFd}
         /\ PoliteClients /\ m_client_fd[c] # NoFd => m_client_fd'[c] = m_client_fd[c]
BY DEF PoliteClients, LockMappings, Mappings, send_message, Written, Lost, Killed,
       close_connection, id

\* The steps of a session that wait for its client.
LEMMA ServeLocks ==
  ASSUME LockMappings, HandlersHaveArguments, NEW c \in Conn, Serve(c)
  PROVE  LockEffect(c)
<1> USE SendLink, ServerAssumption
        DEF LockMappings, Mappings, PoliteClients, Goto,
            LocalStep, read_message, Silent, send_and_close, Written, Lost, Killed,
            close_connection, serverVars, tableVars, fdVars, argVars
<1>1. CASE Accept(c)
  BY <1>1 DEF Accept, accepts
<1>2. CASE ThreadRefused(c)
  BY <1>2 DEF ThreadRefused, delete_connection
<1>3. CASE Login(c)
  BY <1>3 DEF Login
<1>4. CASE NotLogin(c)
  BY <1>4 DEF NotLogin, delete_connection
<1>5. CASE BadInput(c)
  BY <1>5 DEF BadInput
<1>6. CASE Receive(c)
  BY <1>6 DEF Receive
<1>7. CASE LoginAgain(c)
  BY <1>7 DEF LoginAgain
<1>8. CASE reject(c)
  BY <1>8 DEF reject
<1>9. CASE handle_bye_request(c)
  BY <1>9 DEF handle_bye_request, delete_connection
<1>10. CASE handle_push_request(c)
  BY <1>10 DEF handle_push_request
<1>11. CASE handle_pop_request(c)
  BY <1>11 DEF handle_pop_request
<1>12. CASE handle_top_request(c)
  BY <1>12 DEF handle_top_request
<1>13. CASE handle_arithmetic_request(c)
  BY <1>13 DEF handle_arithmetic_request, arithmetic, delete_connection, close_connection
<1> QED
  BY <1>1, <1>2, <1>3, <1>4, <1>5, <1>6, <1>7, <1>8, <1>9, <1>10, <1>11,
     <1>12, <1>13 DEF Serve

\* The steps it takes on its own.
LEMMA HandleLocks ==
  ASSUME LockMappings, HandlersHaveArguments, FlagsReadFalse, NEW c \in Conn, Handle(c)
  PROVE  LockEffect(c)
<1>0. /\ pc[c] \in SetLabels \cup GetLabels =>
           table_name[c] \in TableName /\ key_name[c] \in Key
      /\ pc[c] \in {"CREATE", "commit_unlock"} => table_name[c] \in TableName
      /\ id(c) \in ClientId /\ id(c) = m_client_fd[c]
  BY DEF HandlersHaveArguments, LockMappings, Mappings, id
<1> USE SendLink, <1>0
        DEF LockMappings, Mappings, PoliteClients, Goto, Within,
            Leave, Back, Fail, Finish, Silent, send_and_close, Written, Lost, Killed,
            close_connection, InTransaction, is_transaction_active,
            serverVars, tableVars, fdVars, argVars
<1>1. CASE CloseOnException(c)
  BY <1>1 DEF CloseOnException, delete_connection
<1>2. CASE rollback_transaction(c)
  BY <1>2 DEF rollback_transaction
<1>3. CASE handle_create_request(c)
  BY <1>3 DEF handle_create_request, create_table
<1>4. CASE handle_begin_request(c)
  BY <1>4 DEF handle_begin_request, begin_transaction
<1>5. CASE commit_begins(c)
  BY <1>5 DEF commit_begins
<1>6. CASE commit_table(c)
  BY <1>6 DEF commit_table
<1>7. CASE commit_unlock(c)
  BY <1>7 DEF commit_unlock, unlock
<1>8. CASE commit_ends(c)
  BY <1>8 DEF commit_ends, end_transaction
<1>9. CASE set_checks(c)
  BY <1>9 DEF set_checks
<1>10. CASE set_trylock(c)
  BY <1>10 DEF set_trylock, record_lock, lock
<1>11. CASE set_wait(c)
  BY <1>11 DEF set_wait, lock
<1>12. CASE set_find(c)
  BY <1>12 DEF set_find
<1>13. CASE set_store(c)
  BY <1>13 DEF set_store, FlagsReadFalse
<1>14. CASE set_commit(c)
  BY <1>14 DEF set_commit
<1>15. CASE set_unlock(c)
  BY <1>15 DEF set_unlock, unlock
<1>16. CASE set_end(c)
  BY <1>16 DEF set_end
<1>17. CASE set_unlock_again(c)
  BY <1>17 DEF set_unlock_again, unlock
<1>18. CASE get_checks(c)
  BY <1>18 DEF get_checks
<1>19. CASE get_wait(c)
  BY <1>19 DEF get_wait, lock
<1>20. CASE get_find(c)
  BY <1>20 DEF get_find
<1>21. CASE get_read(c)
  BY <1>21 DEF get_read
<1>22. CASE get_end(c)
  BY <1>22 DEF get_end
<1>23. CASE get_unlock(c)
  BY <1>23 DEF get_unlock, unlock
<1>24. CASE get_miss(c)
  BY <1>24 DEF get_miss
<1>25. CASE get_miss_unlock(c)
  BY <1>25 DEF get_miss_unlock, unlock
<1>26. CASE get_miss_flag(c)
  BY <1>26 DEF get_miss_flag, unlock_table, unlock
<1> QED
  BY <1>1, <1>2, <1>3, <1>4, <1>5, <1>6, <1>7, <1>8, <1>9, <1>10, <1>11,
     <1>12, <1>13, <1>14, <1>15, <1>16, <1>17, <1>18, <1>19, <1>20, <1>21,
     <1>22, <1>23, <1>24, <1>25, <1>26 DEF Handle

-----------------------------------------------------------------------------
(* What the summaries preserve.                                            *)

\* A flag that is born zero stays so.
LEMMA KeepsFlags ==
  ASSUME FreshSessions, FlagsAreZero, NEW c \in Conn, LockEffect(c)
  PROVE  FlagsAreZero'
BY DEF FreshSessions, FlagsAreZero

\* A mutex is held by who is in the locked part of a handler.
LEMMA KeepsLocks ==
  ASSUME LockMappings, SessionsHaveDescriptors, TransactionsReadUnlocked, LocksEndWithRequest,
         NEW c \in Conn, Footprint(c), LockEffect(c)
  PROVE  LocksEndWithRequest'
<1> SUFFICES ASSUME NEW t \in TableName, NEW d \in Conn, m_mutex'[t] = d
             PROVE  pc'[d] \in Locked /\ table_name'[d] = t
  BY DEF LocksEndWithRequest
<1>1. CASE d # c
  <2>1. m_mutex[t] = d
    BY <1>1, TableAssumption
  <2> QED
    BY <1>1, <2>1 DEF LocksEndWithRequest, Footprint, Unmoved
<1>2. CASE d = c /\ m_mutex[t] # c
  BY <1>2, TableAssumption
<1>3. CASE d = c /\ m_mutex[t] = c
  <2>1. pc[c] \in Locked /\ table_name[c] = t /\ m_mutex'[t] # Free
    BY <1>3, TableAssumption DEF LocksEndWithRequest
  <2>2. ~(pc[c] \in {"get_end", "get_miss"} /\ InTransaction(c))
    BY <1>3, <2>1 DEF TransactionsReadUnlocked, SessionsHaveDescriptors
  <2> QED
    BY <1>3, <2>1, <2>2
<1> QED
  BY <1>1, <1>2, <1>3

\* Nobody begins or ends the transaction of a session that is in a GET.
LEMMA KeepsReads ==
  ASSUME LockMappings, DescriptorsAreDistinct, TransactionsReadUnlocked,
         NEW c \in Conn, Footprint(c), LockEffect(c),
         pc[c] = "GET" /\ m_client_fd[c] # NoFd => \A t \in TableName : m_mutex[t] # c
  PROVE  TransactionsReadUnlocked'
<1> USE DEF TransactionsReadUnlocked, InTransaction, is_transaction_active, id
<1>1. ASSUME NEW d \in Conn \ {c}, pc'[d] \in GetLocked \cup {"get_wait"},
             m_client_fd'[d] # NoFd
      PROVE  /\ pc[d] = pc'[d] /\ InTransaction(d)' = InTransaction(d)
             /\ m_client_fd[d] # NoFd
             /\ \A t \in TableName : m_mutex'[t] = d => m_mutex[t] = d
  <2>1. pc[d] = pc'[d] /\ m_client_fd'[d] = m_client_fd[d]
    BY DEF Footprint, Unmoved
  <2>2. m_client_fd[d] # m_client_fd[c] /\ m_client_fd[d] \in ClientId
    BY <1>1, <2>1 DEF DescriptorsAreDistinct, LockMappings, Mappings
  <2> QED
    BY <1>1, <2>1, <2>2, TableAssumption
<1>2. ASSUME m_client_fd'[c] # NoFd
      PROVE  /\ pc'[c] = "get_wait" => ~InTransaction(c)'
             /\ pc'[c] \in GetLocked \ {"get_unlock", "get_miss_unlock"} /\ InTransaction(c)' =>
                  \A t \in TableName : m_mutex'[t] # c
  <2>1. pc'[c] \in GetLocked \cup {"get_wait"} =>
          InTransaction(c)' = InTransaction(c) /\ m_client_fd[c] # NoFd
    BY <1>2
  <2> QED
    BY <1>2, <2>1
<1> QED
  BY <1>1, <1>2

\* A session that was not the one to move still has its descriptor.
LEMMA KeepsDescriptor ==
  ASSUME PoliteClients, SessionsHaveDescriptors, NEW c \in Conn, Footprint(c), LockEffect(c)
  PROVE  SessionsHaveDescriptors'
BY DEF SessionsHaveDescriptors, Footprint, Unmoved

\* Only a session that reads its flag as true comes to a rollback.
LEMMA KeepsFromRollback ==
  ASSUME FlagsAreZero, NobodyRollsBack, NEW c \in Conn, Footprint(c), LockEffect(c)
  PROVE  NobodyRollsBack'
BY DEF FlagsAreZero, NobodyRollsBack, ReadsTrue, Footprint, Unmoved

\* The invariant holds of the initial states.
LEMMA InitLocks == Init => LockInv
<1> SUFFICES ASSUME Init PROVE LockInv
  OBVIOUS
<1>1. Safe
  BY InitSafe
<1>2. FlagsAreZero /\ SessionsHaveDescriptors /\ NobodyRollsBack /\ TransactionsReadUnlocked
  BY DEF Init, FlagsAreZero, SessionsHaveDescriptors, NobodyRollsBack, TransactionsReadUnlocked
<1>3. LocksEndWithRequest
  BY TableAssumption DEF Init, TableInit, LocksEndWithRequest
<1> QED
  BY <1>1, <1>2, <1>3 DEF LockInv

\* TypeOK gives the types that the summary needs.
LEMMA TypeLockMappings == TypeOK => LockMappings /\ HandlersHaveArguments
BY TypeMappings
DEF TypeOK, LinkTypeOK, PlaceTypeOK, ServerTypeOK, TableTypeOK, LockMappings

\* Every step preserves it.
LEMMA NextLocks ==
  ASSUME FreshSessions, PoliteClients, LockInv, [Next]_vars
  PROVE  LockInv'
<1>1. Safe' /\ LockMappings /\ Mappings /\ HandlersHaveArguments
  BY NextSafe, TypeLockMappings DEF LockInv, Safe, LockMappings
<1>2. CASE \E c \in Conn : Serve(c) \/ Handle(c)
  <2>1. PICK c \in Conn : Serve(c) \/ Handle(c)
    BY <1>2
  <2>2. Footprint(c)
    BY <1>1, <2>1, ServeFootprint, HandleFootprint
  <2>3. LockEffect(c)
    BY <1>1, <2>1, ServeLocks, HandleLocks DEF LockInv, FlagsAreZero, FlagsReadFalse, ReadsFalse
  <2> HIDE DEF LockEffect
  <2>4. FlagsAreZero' /\ SessionsHaveDescriptors' /\ NobodyRollsBack'
    BY <2>2, <2>3, KeepsFlags, KeepsDescriptor, KeepsFromRollback DEF LockInv
  <2>5. pc[c] = "GET" => \A t \in TableName : m_mutex[t] # c
    BY DEF LockInv, LocksEndWithRequest
  <2>6. TransactionsReadUnlocked' /\ LocksEndWithRequest'
    BY <1>1, <2>2, <2>3, <2>5, KeepsReads, KeepsLocks DEF LockInv, Safe
  <2> QED
    BY <1>1, <2>4, <2>6 DEF LockInv
<1>3. CASE Segfault \/ UNCHANGED vars
  <2>1. UNCHANGED <<pc, m_client_fd, flag, m_mutex, table_name, in_transaction>>
    BY <1>3 DEF Segfault, vars, tableVars, serverVars, fdVars, argVars
  <2> QED
    BY <1>1, <2>1
    DEF LockInv, FlagsAreZero, SessionsHaveDescriptors, NobodyRollsBack,
        TransactionsReadUnlocked, LocksEndWithRequest, InTransaction, is_transaction_active, id
<1> QED
  BY <1>2, <1>3 DEF Next, Terminating

\* LOCKS END WITH THE REQUEST.  Fresh sessions of polite clients hold a table's
\* mutex only inside the locked part of a SET or a GET of that table, however
\* many connections, tables and transactions there are, and whoever leaves in
\* the middle: so no lock of an abandoned transaction is ever left behind.
THEOREM FreshLocksEnd ==
  ASSUME FreshSessions, PoliteClients PROVE Spec => []LocksEndWithRequest
<1>1. Init => LockInv
  BY InitLocks
<1>2. LockInv /\ [Next]_vars => LockInv'
  BY NextLocks
<1>3. LockInv => LocksEndWithRequest
  BY DEF LockInv
<1> QED
  BY <1>1, <1>2, <1>3, PTL DEF Spec

\* What follows for those who wait: a commit waits for nobody, and who has a
\* table locked waits for a commit at most.
LEMMA LocksAreOrdered == LockInv => WaitsAreShort
<1> SUFFICES ASSUME LockInv, NEW c \in Conn, NEW d \in Conn, WaitsFor(c, d)
             PROVE  \/ Moves(d)
                    \/ \E e \in Conn : pc[d] \in HandlerLabels /\ WaitsFor(d, e) /\ Moves(e)
  BY DEF WaitsAreShort
<1>1. ASSUME NEW h \in Conn, mutex = h PROVE Moves(h)
  <2>1. pc[h] \in CommitLoop
    BY <1>1 DEF LockInv, Safe, MutexHeldByCommitOrRollback, NobodyRollsBack
  <2> QED
    BY <2>1 DEF Moves, WaitsFor, HandlerLabels
<1>2. CASE mutex = d
  BY <1>1, <1>2
<1>3. CASE m_mutex[table_name[c]] = d /\ pc[c] \in {"set_wait", "get_wait"}
  <2>1. table_name[c] \in TableName
    BY <1>3 DEF LockInv, Safe, TypeOK, PlaceTypeOK, HandlersHaveArguments
  <2>2. pc[d] \in Locked
    BY <1>3, <2>1 DEF LockInv, LocksEndWithRequest
  <2>3. CASE \A e \in Conn : ~WaitsFor(d, e)
    BY <2>2, <2>3 DEF Moves, HandlerLabels
  <2>4. ASSUME NEW e \in Conn, WaitsFor(d, e)
        PROVE  pc[d] \in HandlerLabels /\ Moves(e)
    BY <1>1, <2>2, <2>4 DEF WaitsFor, HandlerLabels
  <2> QED
    BY <2>3, <2>4
<1> QED
  BY <1>2, <1>3 DEF WaitsFor

\* NO DEADLOCK.  Whatever fresh sessions of polite clients are asked to do, a
\* thread that waits does so for one in the middle of a request, which can go
\* on or waits for one that can: however many connections, tables and
\* transactions there are, and in whatever order they use the tables.
THEOREM FreshWaitsAreShort ==
  ASSUME FreshSessions, PoliteClients PROVE Spec => []WaitsAreShort
<1>1. Init => LockInv
  BY InitLocks
<1>2. LockInv /\ [Next]_vars => LockInv'
  BY NextLocks
<1> QED
  BY <1>1, <1>2, LocksAreOrdered, PTL DEF Spec

-----------------------------------------------------------------------------
(* Clients whose replies may be lost.                                      *)

\* Who takes a mutex is in the locked part of a handler, and who leaves it with
\* one has been closed.
LEMMA KeepsOpenLocks ==
  ASSUME LockMappings, TransactionsReadUnlocked, OnlyClosedSessionsKeepLocks,
         NEW c \in Conn, Footprint(c), LockEffect(c)
  PROVE  OnlyClosedSessionsKeepLocks'
<1> SUFFICES ASSUME NEW t \in TableName, NEW d \in Conn, m_mutex'[t] = d
             PROVE  \/ pc'[d] \in Locked /\ table_name'[d] = t
                    \/ pc'[d] # "unborn" /\ m_client_fd'[d] = NoFd
  BY DEF OnlyClosedSessionsKeepLocks
<1>1. CASE d # c
  <2>1. m_mutex[t] = d
    BY <1>1, TableAssumption
  <2> QED
    BY <1>1, <2>1 DEF OnlyClosedSessionsKeepLocks, Footprint, Unmoved
<1>2. CASE d = c /\ m_mutex[t] # c
  BY <1>2, TableAssumption
<1>3. CASE d = c /\ m_mutex[t] = c /\ m_client_fd'[c] # NoFd
  <2>1. pc[c] # "unborn"
    BY <1>3 DEF OnlyClosedSessionsKeepLocks
  <2>2. m_client_fd[c] # NoFd
    BY <1>3, <2>1
  <2>3. pc[c] \in Locked /\ table_name[c] = t /\ m_mutex'[t] # Free
    BY <1>3, <2>2, TableAssumption DEF OnlyClosedSessionsKeepLocks
  <2>4. ~(pc[c] \in {"get_end", "get_miss"} /\ InTransaction(c))
    BY <1>3, <2>2 DEF TransactionsReadUnlocked
  <2> QED
    BY <1>3, <2>3, <2>4
<1>4. CASE d = c /\ m_client_fd'[c] = NoFd
  BY <1>4
<1> QED
  BY <1>1, <1>2, <1>3, <1>4

\* Every step preserves the invariant.
LEMMA NextKeep ==
  ASSUME FalseSessions, KeepInv, [Next]_vars
  PROVE  KeepInv'
<1>1. Safe' /\ LockMappings /\ Mappings /\ HandlersHaveArguments
  BY NextSafe, TypeLockMappings DEF KeepInv, Safe, LockMappings
<1>2. CASE \E c \in Conn : Serve(c) \/ Handle(c)
  <2>1. PICK c \in Conn : Serve(c) \/ Handle(c)
    BY <1>2
  <2>2. Footprint(c)
    BY <1>1, <2>1, ServeFootprint, HandleFootprint
  <2>3. LockEffect(c)
    BY <1>1, <2>1, ServeLocks, HandleLocks DEF KeepInv
  <2>4. FlagsReadFalse'
    BY <2>3 DEF KeepInv, FalseSessions, FlagsReadFalse, ReadsFalse
  <2> HIDE DEF LockEffect
  <2>5. pc[c] = "GET" /\ m_client_fd[c] # NoFd => \A t \in TableName : m_mutex[t] # c
    BY DEF KeepInv, OnlyClosedSessionsKeepLocks
  <2>6. TransactionsReadUnlocked' /\ OnlyClosedSessionsKeepLocks'
    BY <1>1, <2>2, <2>3, <2>5, KeepsReads, KeepsOpenLocks DEF KeepInv, Safe
  <2> QED
    BY <1>1, <2>4, <2>6 DEF KeepInv
<1>3. CASE Segfault \/ UNCHANGED vars
  <2>1. UNCHANGED <<pc, m_client_fd, flag, m_mutex, table_name, in_transaction>>
    BY <1>3 DEF Segfault, vars, tableVars, serverVars, fdVars, argVars
  <2> QED
    BY <1>1, <2>1
    DEF KeepInv, FlagsReadFalse, ReadsFalse, TransactionsReadUnlocked,
        OnlyClosedSessionsKeepLocks, InTransaction, is_transaction_active, id
<1> QED
  BY <1>2, <1>3 DEF Next, Terminating

\* WHO KEEPS A LOCK.  Among sessions that read their flag as false, a table's
\* mutex that outlives the request that took it is held by a session that was
\* closed, whatever the requests and the faults: an open session gives back
\* what it took, though a transaction it inherited with its descriptor may hide
\* from it that it did, and though closed ones unlock under client id -1.
THEOREM OpenSessionsUnlock ==
  ASSUME FalseSessions PROVE Spec => []OnlyClosedSessionsKeepLocks
<1>1. Init => KeepInv
  <2> SUFFICES ASSUME Init PROVE KeepInv
    OBVIOUS
  <2>1. Safe
    BY InitSafe
  <2>2. FlagsReadFalse /\ TransactionsReadUnlocked /\ OnlyClosedSessionsKeepLocks
    BY TableAssumption
    DEF Init, TableInit, FlagsReadFalse, ReadsFalse, TransactionsReadUnlocked,
        OnlyClosedSessionsKeepLocks
  <2> QED
    BY <2>1, <2>2 DEF KeepInv
<1>2. KeepInv /\ [Next]_vars => KeepInv'
  BY NextKeep
<1>3. KeepInv => OnlyClosedSessionsKeepLocks
  BY DEF KeepInv
<1> QED
  BY <1>1, <1>2, <1>3, PTL DEF Spec

-----------------------------------------------------------------------------
(* Entries that are not committed.                                         *)

\* What a step of c does to the temporary changes, unless there is a collision
\* or has been one: they are committed, or set by a SET that goes on to commit.
EntryEffect(c) ==
  /\ KeepsFlag(c)
  /\ \/ raced'
     \/ /\ ~raced
        /\ \A t \in TableName : m_temporary_changes'[t] # NoEntries =>
             \/ /\ m_temporary_changes'[t] = m_temporary_changes[t]
                /\ ~(pc[c] = "set_commit" /\ table_name[c] = t)
             \/ pc'[c] = "set_commit" /\ table_name'[c] = t

\* The types that the summary needs.
EntryMappings ==
  /\ LockMappings
  /\ m_temporary_changes \in [TableName -> Contents]
  /\ raced \in BOOLEAN

USE DEF EntryEffect

\* The steps of a session that wait for its client.
LEMMA ServeEntries ==
  ASSUME EntryMappings, NEW c \in Conn, Serve(c) PROVE EntryEffect(c)
<1> USE DEF EntryMappings, LockMappings, Mappings, Goto, LocalStep, read_message, Silent,
            send_message, send_and_close, tableVars, fdVars
<1>1. CASE Accept(c)
  BY <1>1 DEF Accept
<1>2. CASE ThreadRefused(c)
  BY <1>2 DEF ThreadRefused, delete_connection
<1>3. CASE Login(c)
  BY <1>3 DEF Login
<1>4. CASE NotLogin(c)
  BY <1>4 DEF NotLogin, delete_connection
<1>5. CASE BadInput(c)
  BY <1>5 DEF BadInput
<1>6. CASE Receive(c)
  BY <1>6 DEF Receive
<1>7. CASE LoginAgain(c)
  BY <1>7 DEF LoginAgain
<1>8. CASE reject(c)
  BY <1>8 DEF reject
<1>9. CASE handle_bye_request(c)
  BY <1>9 DEF handle_bye_request, delete_connection
<1>10. CASE handle_push_request(c)
  BY <1>10 DEF handle_push_request
<1>11. CASE handle_pop_request(c)
  BY <1>11 DEF handle_pop_request
<1>12. CASE handle_top_request(c)
  BY <1>12 DEF handle_top_request
<1>13. CASE handle_arithmetic_request(c)
  BY <1>13 DEF handle_arithmetic_request, arithmetic, delete_connection, close_connection
<1> QED
  BY <1>1, <1>2, <1>3, <1>4, <1>5, <1>6, <1>7, <1>8, <1>9, <1>10, <1>11,
     <1>12, <1>13 DEF Serve

\* The steps it takes on its own.
LEMMA HandleEntries ==
  ASSUME EntryMappings, HandlersHaveArguments, CommitFindsTables, FlagsAreZero,
         NEW c \in Conn, Handle(c)
  PROVE  EntryEffect(c)
<1>0. /\ pc[c] \in SetLabels => table_name[c] \in TableName /\ key_name[c] \in Key
      /\ unvisited[c] \subseteq TableName
  BY DEF HandlersHaveArguments, EntryMappings, LockMappings, Mappings
<1> USE <1>0
        DEF EntryMappings, LockMappings, Mappings, Goto, Within, Leave, Back, Fail, Finish,
            Silent, Access, send_message, send_and_close, tableVars, fdVars, argVars
<1>1. CASE CloseOnException(c)
  BY <1>1 DEF CloseOnException, delete_connection
<1>2. CASE rollback_transaction(c)
  BY <1>2 DEF rollback_transaction
<1>3. CASE handle_create_request(c)
  BY <1>3 DEF handle_create_request
<1>4. CASE handle_begin_request(c)
  BY <1>4 DEF handle_begin_request
<1>5. CASE commit_begins(c)
  BY <1>5 DEF commit_begins
<1>6. CASE commit_table(c)
  BY <1>6 DEF commit_table, commit_changes
<1>7. CASE commit_unlock(c)
  BY <1>7 DEF commit_unlock
<1>8. CASE commit_ends(c)
  BY <1>8 DEF commit_ends
<1>9. CASE set_checks(c)
  BY <1>9 DEF set_checks
<1>10. CASE set_trylock(c)
  BY <1>10 DEF set_trylock
<1>11. CASE set_wait(c)
  BY <1>11 DEF set_wait
<1>12. CASE set_find(c)
  BY <1>12 DEF set_find
<1>13. CASE set_store(c)
  BY <1>13 DEF set_store, set, ReadsFalse, FlagsAreZero
<1>14. CASE set_commit(c)
  BY <1>14 DEF set_commit, commit_changes
<1>15. CASE set_unlock(c)
  BY <1>15 DEF set_unlock
<1>16. CASE set_end(c)
  BY <1>16 DEF set_end
<1>17. CASE set_unlock_again(c)
  BY <1>17 DEF set_unlock_again
<1>18. CASE get_checks(c)
  BY <1>18 DEF get_checks
<1>19. CASE get_wait(c)
  BY <1>19 DEF get_wait
<1>20. CASE get_find(c)
  BY <1>20 DEF get_find
<1>21. CASE get_read(c)
  BY <1>21 DEF get_read
<1>22. CASE get_end(c)
  BY <1>22 DEF get_end
<1>23. CASE get_unlock(c)
  BY <1>23 DEF get_unlock
<1>24. CASE get_miss(c)
  BY <1>24 DEF get_miss
<1>25. CASE get_miss_unlock(c)
  BY <1>25 DEF get_miss_unlock
<1>26. CASE get_miss_flag(c)
  BY <1>26 DEF get_miss_flag
<1> QED
  BY <1>1, <1>2, <1>3, <1>4, <1>5, <1>6, <1>7, <1>8, <1>9, <1>10, <1>11,
     <1>12, <1>13, <1>14, <1>15, <1>16, <1>17, <1>18, <1>19, <1>20, <1>21,
     <1>22, <1>23, <1>24, <1>25, <1>26 DEF Handle

\* Entries stay uncommitted only on the way from set to commit_changes.
LEMMA KeepsCommitted ==
  ASSUME Mappings, NothingLeftUncommitted, NEW c \in Conn, Footprint(c), EntryEffect(c)
  PROVE  NothingLeftUncommitted'
<1> SUFFICES ASSUME ~raced', NEW t \in TableName, m_temporary_changes'[t] # NoEntries
             PROVE  \E d \in Conn : pc'[d] = "set_commit" /\ table_name'[d] = t
  BY DEF NothingLeftUncommitted
<1>1. CASE pc'[c] = "set_commit" /\ table_name'[c] = t
  BY <1>1
<1>2. CASE /\ m_temporary_changes'[t] = m_temporary_changes[t] /\ ~raced
           /\ ~(pc[c] = "set_commit" /\ table_name[c] = t)
  <2>1. PICK d \in Conn : pc[d] = "set_commit" /\ table_name[d] = t
    BY <1>2 DEF NothingLeftUncommitted
  <2> QED
    BY <1>2, <2>1 DEF Footprint, Unmoved
<1> QED
  BY <1>1, <1>2

\* The inductive invariant of the entries.
EntryInv == Safe /\ FlagsAreZero /\ NothingLeftUncommitted

\* TypeOK gives the types that the summary needs.
LEMMA TypeEntryMappings == TypeOK => EntryMappings
BY TypeLockMappings DEF TypeOK, LinkTypeOK, TableTypeOK, EntryMappings

\* It holds of the initial states.
LEMMA InitEntries == Init => EntryInv
BY InitSafe DEF Init, TableInit, EntryInv, FlagsAreZero, NothingLeftUncommitted

\* Every step preserves it.
LEMMA NextEntries ==
  ASSUME FreshSessions, EntryInv, [Next]_vars PROVE EntryInv'
<1>1. Safe' /\ EntryMappings /\ Mappings /\ HandlersHaveArguments
  BY NextSafe, TypeEntryMappings, TypeLockMappings, TypeMappings DEF EntryInv, Safe
<1>2. CASE \E c \in Conn : Serve(c) \/ Handle(c)
  <2>1. PICK c \in Conn : Serve(c) \/ Handle(c)
    BY <1>2
  <2>2. Footprint(c)
    BY <1>1, <2>1, ServeFootprint, HandleFootprint
  <2>3. EntryEffect(c)
    BY <1>1, <2>1, ServeEntries, HandleEntries DEF EntryInv, Safe
  <2>4. FlagsAreZero'
    BY <2>3 DEF EntryInv, FreshSessions, FlagsAreZero
  <2>5. NothingLeftUncommitted'
    BY <1>1, <2>2, <2>3, KeepsCommitted DEF EntryInv
  <2> QED
    BY <1>1, <2>4, <2>5 DEF EntryInv
<1>3. CASE Segfault \/ UNCHANGED vars
  <2>1. /\ UNCHANGED <<pc, flag, table_name, m_temporary_changes>>
        /\ raced' = raced \/ raced'
    BY <1>3 DEF Segfault, vars, tableVars, fdVars, argVars
  <2> QED
    BY <1>1, <2>1 DEF EntryInv, FlagsAreZero, NothingLeftUncommitted
<1> QED
  BY <1>2, <1>3 DEF Next, Terminating

\* NOTHING IS LEFT UNCOMMITTED.  Whatever fresh sessions are asked to do and
\* however they end, until two threads collide on the maps of a table: it has
\* temporary changes only while one SET is between storing and committing, so
\* a transaction has nothing pending, and nothing to roll back.
THEOREM FreshCommits ==
  ASSUME FreshSessions PROVE Spec => []NothingLeftUncommitted
<1>1. Init => EntryInv
  BY InitEntries
<1>2. EntryInv /\ [Next]_vars => EntryInv'
  BY NextEntries
<1>3. EntryInv => NothingLeftUncommitted
  BY DEF EntryInv
<1> QED
  BY <1>1, <1>2, <1>3, PTL DEF Spec

-----------------------------------------------------------------------------
(* Sessions whose flag is "one".  They never commit or unlock in a SET     *)
(* inside a transaction, so that a table stays locked from the first SET   *)
(* to the end of the COMMIT.  The proofs say for each table which client,  *)
(* if any, it is locked for.                                               *)

HIDE DEF LockEffect, KeepsFlag, MovesLocks, LeavesUnlocked, MovesGet, MovesTransaction, MovesLink,
         Locked, ClientId, EntryEffect

\* What the theorems suppose besides PoliteClients.
ArmedSessions == HeapBytes = {"one"}

\* The thread of c is in a part of a handler that has t locked.
WorksOn(c, t) ==
  /\ table_name[c] = t
  /\ \/ pc[c] \in {"set_find", "set_store", "set_end", "set_unlock_again", "get_unlock",
                   "get_miss_unlock"}
     \/ pc[c] \in {"get_find", "get_read", "get_end", "get_miss"} /\ ~InTransaction(c)

\* It is in the loop of a commit that has unlocked t.
HasUnlocked(c, t) ==
  pc[c] \in CommitLoop /\ t \notin unvisited[c] /\ ~(pc[c] = "commit_unlock" /\ table_name[c] = t)

Recorded(client, t) == in_transaction[client] /\ t \in transaction_locks[client]

\* The table t is locked for a client: one of its threads works on it, or its
\* transaction has recorded it and has not unlocked it.
LockedFor(client, t) ==
  \/ \E c \in Conn : m_client_fd[c] = client /\ WorksOn(c, t)
  \/ /\ Recorded(client, t)
     /\ \A c \in Conn : m_client_fd[c] = client => ~HasUnlocked(c, t)

\* ... for at most one, and then its mutex is not free.
OneOwner ==
  \A t \in TableName : \A k, l \in ClientId :
    LockedFor(k, t) => m_mutex[t] # Free /\ (LockedFor(l, t) => k = l)

\* What c has when it is where it is.
InItsPlace(c) ==
  /\ pc[c] \notin {"unborn", "done"} => flag[c] = "one" /\ m_client_fd[c] # NoFd
  /\ pc[c] \notin {"set_commit", "set_unlock"}
  /\ pc[c] \in {"get_wait", "get_unlock", "get_miss_unlock", "set_unlock_again"} =>
       ~InTransaction(c)
  /\ pc[c] \in CommitLoop => InTransaction(c) /\ unvisited[c] \subseteq transaction_locks[id(c)]
  /\ pc[c] = "commit_unlock" => table_name[c] \in transaction_locks[id(c)] \ unvisited[c]

AllInPlace == \A c \in Conn : InItsPlace(c)

\* No GET outside a transaction reads a table that a commit has unlocked while
\* its loop goes on with the next one.
LoopsApart ==
  \A c, d \in Conn :
    pc[c] = "get_read" /\ ~InTransaction(c) /\ pc[d] \in CommitLoop =>
      table_name[c] \notin transaction_locks[m_client_fd[d]]

\* The inductive invariant.
ArmedInv == Safe /\ AllInPlace /\ OneOwner /\ LoopsApart

-----------------------------------------------------------------------------
(* Summary of what a step of c does.                                       *)

\* The table t is locked for the client of c.
Owns(c, t) == WorksOn(c, t) \/ (Recorded(m_client_fd[c], t) /\ ~HasUnlocked(c, t))

\* Only its own client's transaction changes; and while the session gets or
\* gives up its descriptor, nothing about locks does.
OthersKeep(c) ==
  \A client \in ClientId \ {m_client_fd[c]} :
    /\ in_transaction'[client] = in_transaction[client]
    /\ transaction_locks'[client] = transaction_locks[client]

Idle == {"unborn", "login", "ready", "done"}
ComesOrGoes(c) ==
  /\ pc[c] \in Idle /\ pc'[c] \in Idle
  /\ in_transaction' = in_transaction /\ transaction_locks' = transaction_locks
  /\ m_mutex' = m_mutex

\* A table becomes its client's when its mutex was free, and a mutex becomes
\* free when its client owned the table and does no more.
MovesOwnership(c) ==
  \A t \in TableName :
    /\ Owns(c, t)' => Owns(c, t) \/ (m_mutex[t] = Free /\ m_mutex'[t] # Free)
    /\ m_mutex'[t] = Free => m_mutex[t] = Free \/ (Owns(c, t) /\ ~Owns(c, t)')

\* A thread comes to its read when no commit is in its loop, and a commit to
\* its loop with the tables recorded for its transaction, which stay so.
MovesApart(c) ==
  /\ pc'[c] = "get_read" => mutex = Free
  /\ pc'[c] \in CommitLoop =>
       /\ pc[c] \in CommitLoop \/ (pc[c] = "COMMIT" /\ InTransaction(c))
       /\ transaction_locks' = transaction_locks /\ m_client_fd'[c] = m_client_fd[c]

ArmedEffect(c) ==
  /\ \A d \in Conn \ {c} : flag'[d] = flag[d]
  /\ OthersKeep(c) /\ InItsPlace(c)' /\ MovesApart(c)
  /\ \/ m_client_fd'[c] = m_client_fd[c] /\ MovesOwnership(c)
     \/ ComesOrGoes(c)

-----------------------------------------------------------------------------

USE DEF ArmedEffect, OthersKeep, MovesOwnership, ComesOrGoes, Idle, CommitLoop, SetLabels,
        SetLocked, GetLabels, GetLocked

\* The steps of a session that wait for its client.
LEMMA ServeArmed ==
  ASSUME ArmedSessions, PoliteClients, LockMappings, HandlersHaveArguments,
         NEW c \in Conn, InItsPlace(c), Serve(c)
  PROVE  ArmedEffect(c)
<1> USE ServerAssumption, TableAssumption
        DEF MovesApart, ArmedSessions, LockMappings, Mappings, PoliteClients, InItsPlace, Owns,
            WorksOn, Recorded, HasUnlocked, InTransaction, is_transaction_active, id, ClientId,
            Goto,
            LocalStep, read_message, Silent, send_message, send_and_close, Written, Lost,
            Killed, close_connection, serverVars, tableVars, fdVars, argVars
<1>1. CASE Accept(c)
  BY <1>1 DEF Accept, accepts
<1>2. CASE ThreadRefused(c)
  BY <1>2 DEF ThreadRefused, delete_connection
<1>3. CASE Login(c)
  BY <1>3 DEF Login
<1>4. CASE NotLogin(c)
  BY <1>4 DEF NotLogin, delete_connection
<1>5. CASE BadInput(c)
  BY <1>5 DEF BadInput
<1>6. CASE Receive(c)
  BY <1>6 DEF Receive
<1>7. CASE LoginAgain(c)
  BY <1>7 DEF LoginAgain
<1>8. CASE reject(c)
  BY <1>8 DEF reject
<1>9. CASE handle_bye_request(c)
  BY <1>9 DEF handle_bye_request, delete_connection
<1>10. CASE handle_push_request(c)
  BY <1>10 DEF handle_push_request
<1>11. CASE handle_pop_request(c)
  BY <1>11 DEF handle_pop_request
<1>12. CASE handle_top_request(c)
  BY <1>12 DEF handle_top_request
<1>13. CASE handle_arithmetic_request(c)
  BY <1>13 DEF handle_arithmetic_request, arithmetic, delete_connection, close_connection
<1> QED
  BY <1>1, <1>2, <1>3, <1>4, <1>5, <1>6, <1>7, <1>8, <1>9, <1>10, <1>11,
     <1>12, <1>13 DEF Serve

\* The steps it takes on its own.
LEMMA HandleArmed ==
  ASSUME ArmedSessions, PoliteClients, LockMappings, HandlersHaveArguments,
         NEW c \in Conn, InItsPlace(c), Handle(c)
  PROVE  ArmedEffect(c)
<1>0. /\ pc[c] \in SetLabels \cup GetLabels =>
           table_name[c] \in TableName /\ key_name[c] \in Key
      /\ pc[c] \in {"CREATE", "commit_unlock"} => table_name[c] \in TableName
  BY DEF HandlersHaveArguments
<1> USE <1>0, TableAssumption
        DEF MovesApart, ArmedSessions, LockMappings, Mappings, PoliteClients, InItsPlace, Owns,
            WorksOn, Recorded, HasUnlocked, InTransaction, is_transaction_active, id, ClientId,
            Goto, Within, Leave, Back, Fail, Finish, Silent, send_message, send_and_close,
            Written, Lost, Killed, close_connection, serverVars, tableVars, fdVars, argVars
<1>1. CASE CloseOnException(c)
  BY <1>1 DEF CloseOnException, delete_connection, ReadsTrue
<1>2. CASE rollback_transaction(c)
  BY <1>2 DEF rollback_transaction
<1>3. CASE handle_create_request(c)
  BY <1>3 DEF handle_create_request, create_table
<1>4. CASE handle_begin_request(c)
  BY <1>4 DEF handle_begin_request, begin_transaction
<1>5. CASE commit_begins(c)
  BY <1>5 DEF commit_begins
<1>6. CASE commit_table(c)
  BY <1>6 DEF commit_table
<1>7. CASE commit_unlock(c)
  BY <1>7 DEF commit_unlock, unlock
<1>8. CASE commit_ends(c)
  BY <1>8 DEF commit_ends, end_transaction
<1>9. CASE set_checks(c)
  BY <1>9 DEF set_checks
<1>10. CASE set_trylock(c)
  BY <1>10 DEF set_trylock, record_lock, lock
<1>11. CASE set_wait(c)
  BY <1>11 DEF set_wait, lock
<1>12. CASE set_find(c)
  BY <1>12 DEF set_find
<1>13. CASE set_store(c)
  BY <1>13 DEF set_store, ReadsFalse
<1>14. CASE set_commit(c)
  BY <1>14 DEF set_commit
<1>15. CASE set_unlock(c)
  BY <1>15 DEF set_unlock
<1>16. CASE set_end(c)
  BY <1>16 DEF set_end
<1>17. CASE set_unlock_again(c)
  BY <1>17 DEF set_unlock_again, unlock
<1>18. CASE get_checks(c)
  BY <1>18 DEF get_checks
<1>19. CASE get_wait(c)
  BY <1>19 DEF get_wait, lock
<1>20. CASE get_find(c)
  BY <1>20 DEF get_find, Guard
<1>21. CASE get_read(c)
  BY <1>21 DEF get_read
<1>22. CASE get_end(c)
  BY <1>22 DEF get_end
<1>23. CASE get_unlock(c)
  BY <1>23 DEF get_unlock, unlock
<1>24. CASE get_miss(c)
  BY <1>24 DEF get_miss
<1>25. CASE get_miss_unlock(c)
  BY <1>25 DEF get_miss_unlock, unlock
<1>26. CASE get_miss_flag(c)
  BY <1>26 DEF get_miss_flag, ReadsFalse
<1> QED
  BY <1>1, <1>2, <1>3, <1>4, <1>5, <1>6, <1>7, <1>8, <1>9, <1>10, <1>11,
     <1>12, <1>13, <1>14, <1>15, <1>16, <1>17, <1>18, <1>19, <1>20, <1>21,
     <1>22, <1>23, <1>24, <1>25, <1>26 DEF Handle

-----------------------------------------------------------------------------
(* What the summary preserves.                                             *)

USE DEF AllInPlace, InItsPlace, InTransaction, is_transaction_active, id, ClientId

\* What is locked for a client is what its session owns.
OwnerHasLocks ==
  \A k \in ClientId, c \in Conn, t \in TableName :
    m_client_fd[c] = k => (LockedFor(k, t) <=> Owns(c, t))

\* A client has one session at a time, so what is locked for it is what its
\* session owns.
LEMMA LockedForOwner ==
  LockMappings /\ AllInPlace /\ DescriptorsAreDistinct => OwnerHasLocks
<1> SUFFICES ASSUME LockMappings, AllInPlace, DescriptorsAreDistinct,
                    NEW c \in Conn, NEW t \in TableName
             PROVE  LockedFor(m_client_fd[c], t) <=> Owns(c, t)
  BY DEF OwnerHasLocks
<1>1. ASSUME NEW d \in Conn, m_client_fd[d] = m_client_fd[c], WorksOn(d, t) \/ HasUnlocked(d, t)
      PROVE  d = c
  BY <1>1 DEF DescriptorsAreDistinct, WorksOn, HasUnlocked
<1> QED
  BY <1>1 DEF LockedFor, Owns

\* A session that did not move is where it was, and its client's transaction
\* is what it was.
LEMMA KeepsPlaces ==
  ASSUME LockMappings, DescriptorsAreDistinct, AllInPlace,
         NEW c \in Conn, Footprint(c), ArmedEffect(c)
  PROVE  AllInPlace'
<1> SUFFICES ASSUME NEW d \in Conn, d # c PROVE InItsPlace(d)'
  OBVIOUS
<1>1. /\ pc'[d] = pc[d] /\ m_client_fd'[d] = m_client_fd[d] /\ flag'[d] = flag[d]
      /\ table_name'[d] = table_name[d] /\ unvisited'[d] = unvisited[d]
  BY DEF Footprint, Unmoved
<1>2. pc[d] \notin {"unborn", "done"} =>
        m_client_fd[d] \in ClientId \ {m_client_fd[c]}
  BY DEF DescriptorsAreDistinct, LockMappings, Mappings
<1>3. pc[d] \notin {"unborn", "done"} =>
        /\ in_transaction'[m_client_fd[d]] = in_transaction[m_client_fd[d]]
        /\ transaction_locks'[m_client_fd[d]] = transaction_locks[m_client_fd[d]]
  BY <1>2
<1> QED
  BY <1>1, <1>3

\* No step locks anything for a client other than its own.
LEMMA OthersLockNothing ==
  ASSUME LockMappings, DescriptorsAreDistinct, AllInPlace,
         NEW c \in Conn, Footprint(c), ArmedEffect(c),
         NEW client \in ClientId, NEW t \in TableName, LockedFor(client, t)',
         client # m_client_fd[c] \/ ComesOrGoes(c)
  PROVE  LockedFor(client, t)
<1>1. Recorded(client, t)' = Recorded(client, t)
  BY DEF Recorded
<1>2. ASSUME NEW d \in Conn, d # c, m_client_fd[d] = client
      PROVE  /\ m_client_fd'[d] = client
             /\ WorksOn(d, t)' = WorksOn(d, t) /\ HasUnlocked(d, t)' = HasUnlocked(d, t)
  <2>1. /\ pc'[d] = pc[d] /\ m_client_fd'[d] = m_client_fd[d]
        /\ table_name'[d] = table_name[d] /\ unvisited'[d] = unvisited[d]
    BY <1>2 DEF Footprint, Unmoved
  <2>2. in_transaction'[client] = in_transaction[client]
    OBVIOUS
  <2> QED
    BY <1>2, <2>1, <2>2 DEF WorksOn, HasUnlocked
<1>3. ASSUME NEW d \in Conn, m_client_fd'[d] = client, WorksOn(d, t)'
      PROVE  d # c /\ m_client_fd[d] = client
  BY <1>3 DEF WorksOn, Footprint, Unmoved
<1>4. m_client_fd[c] = client => ~HasUnlocked(c, t)
  BY DEF HasUnlocked
<1> QED
  BY <1>1, <1>2, <1>3, <1>4 DEF LockedFor

\* The step locks a table for its own client only if its mutex was free.
LEMMA LocksWhatIsFree ==
  ASSUME LockMappings, DescriptorsAreDistinct, AllInPlace, OneOwner,
         LockMappings', DescriptorsAreDistinct', AllInPlace',
         NEW c \in Conn, Footprint(c), ArmedEffect(c)
  PROVE  OneOwner'
<1> HIDE DEF AllInPlace, InItsPlace, MovesOwnership, ClientId
<1>1. \A k \in ClientId, t \in TableName :
        /\ m_client_fd[c] = k => (LockedFor(k, t) <=> Owns(c, t))
        /\ m_client_fd'[c] = k => (LockedFor(k, t)' <=> Owns(c, t)')
  <2>1. (LockMappings /\ AllInPlace /\ DescriptorsAreDistinct => OwnerHasLocks)'
    BY LockedForOwner, PTL
  <2>2. OwnerHasLocks /\ OwnerHasLocks'
    BY <2>1, LockedForOwner
  <2> QED
    BY <2>2 DEF OwnerHasLocks, ClientId
<1>2. m_client_fd[c] \in ClientId
  BY DEF LockMappings, Mappings, ClientId
<1> DEFINE fd == m_client_fd[c]
<1>3. ComesOrGoes(c) \/ (m_client_fd'[c] = fd /\ MovesOwnership(c))
  BY DEF ArmedEffect
<1>4. ASSUME NEW t \in TableName, NEW k \in ClientId, LockedFor(k, t)'
      PROVE  \/ LockedFor(k, t)
             \/ k = fd /\ m_mutex[t] = Free /\ m_mutex'[t] # Free
  <2>1. CASE k # fd \/ ComesOrGoes(c)
    BY <1>4, <2>1, OthersLockNothing
  <2>2. CASE k = fd /\ m_client_fd'[c] = fd /\ MovesOwnership(c)
    <3>1. Owns(c, t)' /\ (Owns(c, t) => LockedFor(k, t))
      BY <1>1, <1>4, <2>2
    <3> QED
      BY <2>2, <3>1 DEF MovesOwnership
  <2> QED
    BY <1>3, <2>1, <2>2
<1>5. ASSUME NEW t \in TableName, NEW k \in ClientId, LockedFor(k, t)'
      PROVE  m_mutex'[t] # Free
  <2>1. CASE m_mutex[t] # Free /\ m_mutex'[t] = Free
    <3>1. m_client_fd'[c] = fd /\ Owns(c, t) /\ ~Owns(c, t)'
      BY <1>3, <2>1 DEF MovesOwnership
    <3>2. LockedFor(fd, t) /\ ~LockedFor(fd, t)'
      BY <1>1, <1>2, <3>1
    <3> QED
      BY <1>2, <1>4, <1>5, <2>1, <3>2 DEF OneOwner
  <2>2. CASE m_mutex[t] = Free
    BY <1>4, <1>5, <2>2 DEF OneOwner
  <2> QED
    BY <2>1, <2>2
<1> QED
  BY <1>4, <1>5 DEF OneOwner

\* A table that a transaction has recorded and its commit not unlocked is read
\* by no thread of another client that is not in a transaction itself.
LEMMA ReadersAreElsewhere ==
  ASSUME LockMappings, DescriptorsAreDistinct, AllInPlace, OneOwner,
         NEW c \in Conn, pc[c] = "get_read", ~InTransaction(c),
         NEW client \in ClientId \ {m_client_fd[c]}, Recorded(client, table_name[c]),
         \A d \in Conn : m_client_fd[d] = client => ~HasUnlocked(d, table_name[c])
  PROVE  table_name[c] \notin TableName
<1>1. WorksOn(c, table_name[c]) /\ m_client_fd[c] \in ClientId
  BY DEF WorksOn, LockMappings, Mappings
<1>2. LockedFor(m_client_fd[c], table_name[c]) /\ LockedFor(client, table_name[c])
  BY <1>1 DEF LockedFor
<1> QED
  BY <1>1, <1>2 DEF OneOwner

\* A thread that reads does not find itself in the way of a commit, nor a
\* commit a reader.
LEMMA KeepsApart ==
  ASSUME LockMappings, HandlersHaveArguments, DescriptorsAreDistinct, AllInPlace, OneOwner,
         LoopsApart, MutexHeldByCommitOrRollback, NEW c \in Conn, Footprint(c), ArmedEffect(c)
  PROVE  LoopsApart'
<1> SUFFICES ASSUME NEW e \in Conn, NEW d \in Conn, pc'[e] = "get_read", ~InTransaction(e)',
                    pc'[d] \in CommitLoop
             PROVE  table_name'[e] \notin transaction_locks'[m_client_fd'[d]]
  BY DEF LoopsApart
<1>1. ASSUME NEW x \in Conn, x # c
      PROVE  pc'[x] = pc[x] /\ m_client_fd'[x] = m_client_fd[x] /\ table_name'[x] = table_name[x]
  BY <1>1 DEF Footprint, Unmoved
<1>2. ASSUME NEW x \in Conn, x # c, pc[x] \in CommitLoop \cup {"get_read"}
      PROVE  /\ m_client_fd[x] \in ClientId \ {m_client_fd[c]}
             /\ in_transaction'[m_client_fd[x]] = in_transaction[m_client_fd[x]]
             /\ transaction_locks'[m_client_fd[x]] = transaction_locks[m_client_fd[x]]
  <2>1. m_client_fd[x] \in ClientId /\ m_client_fd[x] # m_client_fd[c]
    BY <1>2 DEF DescriptorsAreDistinct, LockMappings, Mappings
  <2> QED
    BY <2>1
<1>3. CASE e = c
  <2>1. mutex = Free /\ d # c
    BY <1>3 DEF MovesApart
  <2> QED
    BY <1>1, <2>1, TableAssumption DEF MutexHeldByCommitOrRollback
<1>4. CASE e # c /\ d # c
  <2>1. pc[e] = "get_read" /\ ~InTransaction(e) /\ pc[d] \in CommitLoop
    BY <1>1, <1>2, <1>4
  <2> QED
    BY <1>1, <1>2, <1>4, <2>1 DEF LoopsApart
<1>5. CASE e # c /\ d = c
  <2>1. pc[e] = "get_read" /\ ~InTransaction(e) /\ table_name'[e] = table_name[e]
    BY <1>1, <1>2, <1>5
  <2>2. /\ pc[c] \in CommitLoop \/ (pc[c] = "COMMIT" /\ InTransaction(c))
        /\ transaction_locks' = transaction_locks /\ m_client_fd'[c] = m_client_fd[c]
    BY <1>5 DEF MovesApart
  <2>3. CASE pc[c] \in CommitLoop
    BY <1>5, <2>1, <2>2, <2>3 DEF LoopsApart
  <2>4. CASE pc[c] = "COMMIT" /\ InTransaction(c)
    <3>1. m_client_fd[c] \in ClientId /\ m_client_fd[c] # m_client_fd[e]
      BY <1>2, <1>5, <2>1 DEF LockMappings, Mappings
    <3>2. \A x \in Conn : m_client_fd[x] = m_client_fd[c] => ~HasUnlocked(x, table_name[e])
      BY <2>4 DEF DescriptorsAreDistinct, HasUnlocked
    <3>3. table_name[e] \in TableName
      BY <2>1 DEF HandlersHaveArguments
    <3>4. ~Recorded(m_client_fd[c], table_name[e])
      BY <2>1, <3>1, <3>2, <3>3, ReadersAreElsewhere
    <3> QED
      BY <1>5, <2>1, <2>2, <2>4, <3>4 DEF Recorded
  <2> QED
    BY <2>2, <2>3, <2>4
<1> QED
  BY <1>3, <1>4, <1>5

\* The invariant holds of the initial states.
LEMMA InitArmed == Init => ArmedInv
<1> SUFFICES ASSUME Init PROVE ArmedInv
  OBVIOUS
<1>1. AllInPlace
  BY DEF Init
<1>2. \A k \in ClientId, t \in TableName : ~LockedFor(k, t)
  BY DEF Init, ServerInit, LockedFor, WorksOn, Recorded
<1>3. LoopsApart
  BY DEF Init, LoopsApart
<1> QED
  BY <1>1, <1>2, <1>3, InitSafe DEF ArmedInv, OneOwner

\* Every step preserves it.
LEMMA NextArmed ==
  ASSUME ArmedSessions, PoliteClients, ArmedInv, [Next]_vars
  PROVE  ArmedInv'
<1>1. Safe' /\ LockMappings /\ Mappings /\ HandlersHaveArguments
  BY NextSafe, TypeLockMappings DEF ArmedInv, Safe, LockMappings
<1>2. LockMappings'
  <2>1. (TypeOK => LockMappings /\ HandlersHaveArguments)'
    BY TypeLockMappings, PTL
  <2> QED
    BY <1>1, <2>1 DEF Safe
<1>3. CASE \E c \in Conn : Serve(c) \/ Handle(c)
  <2>1. PICK c \in Conn : Serve(c) \/ Handle(c)
    BY <1>3
  <2>2. Footprint(c)
    BY <1>1, <2>1, ServeFootprint, HandleFootprint
  <2>3. InItsPlace(c)
    BY DEF ArmedInv
  <2> HIDE DEF ArmedEffect, AllInPlace, InItsPlace
  <2>4. ArmedEffect(c)
    BY <1>1, <2>1, <2>3, ServeArmed, HandleArmed
  <2>5. AllInPlace'
    BY <1>1, <2>2, <2>4, KeepsPlaces DEF ArmedInv, Safe
  <2>6. OneOwner'
    BY <1>1, <1>2, <2>2, <2>4, <2>5, LocksWhatIsFree DEF ArmedInv, Safe
  <2>7. LoopsApart'
    BY <1>1, <2>2, <2>4, KeepsApart DEF ArmedInv, Safe
  <2> QED
    BY <1>1, <2>5, <2>6, <2>7 DEF ArmedInv
<1>4. CASE Segfault \/ UNCHANGED vars
  <2>1. UNCHANGED <<pc, m_client_fd, flag, m_mutex, table_name, unvisited,
                    in_transaction, transaction_locks>>
    BY <1>4 DEF Segfault, vars, tableVars, serverVars, fdVars, argVars
  <2>2. AllInPlace'
    BY <2>1 DEF ArmedInv
  <2>3. OneOwner'
    BY <2>1 DEF ArmedInv, OneOwner, LockedFor, WorksOn, Recorded, HasUnlocked
  <2>4. LoopsApart'
    BY <2>1 DEF ArmedInv, LoopsApart
  <2> QED
    BY <1>1, <2>2, <2>3, <2>4 DEF ArmedInv
<1> QED
  BY <1>3, <1>4 DEF Next, Terminating

-----------------------------------------------------------------------------
(* What follows from it.                                                   *)

\* Whoever is about to write a table, or to read it outside a transaction, has
\* it locked for its client.
LEMMA AccessIsOwned ==
  ASSUME ArmedInv, NEW c \in Conn, NEW t \in TableName,
         Writes(c, t) \/ (Reads(c, t) /\ ~InTransaction(c))
  PROVE  LockedFor(m_client_fd[c], t) /\ m_client_fd[c] \in ClientId \ {NoFd}
<1>1. LockMappings /\ AllInPlace /\ DescriptorsAreDistinct
  BY TypeLockMappings DEF ArmedInv, Safe
<1>2. WorksOn(c, t) \/ (Recorded(m_client_fd[c], t) /\ ~HasUnlocked(c, t))
  BY <1>1 DEF Writes, Reads, WorksOn, Recorded, HasUnlocked
<1>3. pc[c] \notin {"unborn", "done"}
  BY DEF Writes, Reads
<1> QED
  BY <1>1, <1>2, <1>3, LockedForOwner DEF OwnerHasLocks, Owns, LockMappings, Mappings

\* Two accesses that both own the table are those of one session.
LEMMA OneAccess ==
  ASSUME ArmedInv, NEW c \in Conn, NEW d \in Conn, NEW t \in TableName, Writes(d, t),
         Writes(c, t) \/ (Reads(c, t) /\ ~InTransaction(c))
  PROVE  c = d
<1>1. m_client_fd[c] = m_client_fd[d] /\ m_client_fd[c] # NoFd
  BY AccessIsOwned DEF ArmedInv, OneOwner
<1> QED
  BY <1>1 DEF ArmedInv, Safe, DescriptorsAreDistinct

\* A table that is recorded for a transaction is locked for its client until
\* the loop of its commit unlocks it.
LEMMA RecordedIsOwned ==
  ASSUME ArmedInv, NEW client \in ClientId, NEW t \in TableName, Recorded(client, t)
  PROVE  \/ m_mutex[t] # Free
         \/ \E c \in Conn : pc[c] \in CommitLoop /\ m_client_fd[c] = client
BY DEF ArmedInv, OneOwner, LockedFor, HasUnlocked

\* The invariant is one of every run.
LEMMA ArmedInvariant == ASSUME ArmedSessions, PoliteClients PROVE Spec => []ArmedInv
<1>1. ArmedInv /\ [Next]_vars => ArmedInv'
  BY NextArmed
<1> QED
  BY <1>1, InitArmed, PTL DEF Spec

\* WRITERS EXCLUDE EACH OTHER: with flags that read true, no two of any number
\* of sessions are about to change the same table (Table::set and
\* commit_changes under trylock or the lock of a transaction).
THEOREM ArmedWritersExclude ==
  ASSUME ArmedSessions, PoliteClients PROVE Spec => []WritersExclude
<1>1. ArmedInv => WritersExclude
  BY OneAccess DEF WritersExclude
<1> QED
  BY <1>1, ArmedInvariant, PTL

\* ONLY TRANSACTIONAL READS RACE: a GET reads a table that another session is
\* about to change only when the GET is one of a transaction, which takes no
\* lock (handle_get_request).
THEOREM ArmedReads ==
  ASSUME ArmedSessions, PoliteClients PROVE Spec => []OnlyTransactionalReadsRace
<1>1. ArmedInv => OnlyTransactionalReadsRace
  BY OneAccess DEF OnlyTransactionalReadsRace
<1> QED
  BY <1>1, ArmedInvariant, PTL

\* TRANSACTIONS STAY HIDDEN: with flags that read true, no GET outside a
\* transaction reads a table that another client's transaction has locked, be
\* its COMMIT still to come, half done, or never to come.
THEOREM ArmedHides ==
  ASSUME ArmedSessions, PoliteClients PROVE Spec => []TransactionsStayHidden
<1>1. ArmedInv => TransactionsStayHidden
  <2> SUFFICES ASSUME ArmedInv, NEW t \in TableName, NEW c \in Conn, Reads(c, t),
                      ~InTransaction(c), NEW client \in ClientId \ {m_client_fd[c]},
                      in_transaction[client], t \in transaction_locks[client]
               PROVE  FALSE
    BY DEF TransactionsStayHidden
  <2>1. LockMappings /\ DescriptorsAreDistinct /\ AllInPlace /\ OneOwner
    BY TypeLockMappings DEF ArmedInv, Safe
  <2>2. pc[c] = "get_read" /\ table_name[c] = t /\ Recorded(client, t)
    BY DEF Reads, Recorded
  <2>3. \A d \in Conn : m_client_fd[d] = client => ~HasUnlocked(d, t)
    BY <2>2 DEF ArmedInv, LoopsApart, HasUnlocked
  <2> QED
    BY <2>1, <2>2, <2>3, ReadersAreElsewhere
<1> QED
  BY <1>1, ArmedInvariant, PTL

\* RECORDED TABLES STAY LOCKED: the mutex of a table in transaction_locks is
\* held until the commit of that client is unlocking its tables.
THEOREM ArmedRecords ==
  ASSUME ArmedSessions, PoliteClients PROVE Spec => []RecordedLocksAreHeld
<1>1. ArmedInv => RecordedLocksAreHeld
  <2> SUFFICES ASSUME ArmedInv PROVE RecordedLocksAreHeld
    OBVIOUS
  <2>1. \A client \in ClientId : transaction_locks[client] \subseteq TableName
    BY TypeLockMappings DEF ArmedInv, Safe, LockMappings, Mappings
  <2> QED
    BY <2>1, RecordedIsOwned DEF RecordedLocksAreHeld, Recorded
<1> QED
  BY <1>1, ArmedInvariant, PTL
=============================================================================
