------------------------------- MODULE Server -------------------------------
(***************************************************************************)
(* The state all sessions share (server.cpp): the map of tables, and the   *)
(* transaction state, which is keyed by the DESCRIPTOR NUMBER a session    *)
(* passes as its client id, not by the session.  One mutex guards it all.  *)
(*                                                                         *)
(* Every member function runs under a Guard on that mutex.  Those that     *)
(* call nothing that can wait are one step here, enabled when the mutex is *)
(* free; commit_transaction holds it over several steps, because it works  *)
(* on tables that other threads are using without the mutex.               *)
(***************************************************************************)
EXTENDS Table

CONSTANTS
  Fd,            \* the descriptor numbers accept() can return
  NoFd,          \* -1, the descriptor of a session that has closed its own
  InitialTables  \* tables made by sessions that are over

ASSUME ServerAssumption ==
  /\ Fd \subseteq Int
  /\ NoFd \notin Fd
  /\ InitialTables \subseteq TableName

VARIABLES
  tables,            \* the domain of the map of tables
  mutex,             \* the thread that holds the server's mutex, or Free
  in_transaction,    \* descriptor -> is a transaction active?
  transaction_locks  \* descriptor -> tables locked on its behalf

serverVars == <<tables, mutex, in_transaction, transaction_locks>>

ClientId == Fd \cup {NoFd}

\* MUTANT: member functions do not take the mutex.
Guard_missing == TRUE

\* The Guard at the top of a member function finds the mutex unlocked.
Guard == mutex = Free

-----------------------------------------------------------------------------

create_table(t) ==
  /\ tables' = tables \cup {t}
  /\ UNCHANGED <<mutex, in_transaction, transaction_locks>>

is_transaction_active(id) == in_transaction[id]

\* MUTANT: what was recorded before the transaction is kept.
begin_transaction_keeps(id) ==
  /\ in_transaction' = [in_transaction EXCEPT ![id] = TRUE]
  /\ UNCHANGED <<tables, mutex, transaction_locks>>

begin_transaction(id) ==
  /\ in_transaction' = [in_transaction EXCEPT ![id] = TRUE]
  /\ transaction_locks' = [transaction_locks EXCEPT ![id] = {}]
  /\ UNCHANGED <<tables, mutex>>

\* The end of commit_transaction, after the loop over the recorded tables.
end_transaction(id) ==
  /\ transaction_locks' = [transaction_locks EXCEPT ![id] = {}]
  /\ in_transaction' = [in_transaction EXCEPT ![id] = FALSE]
  /\ mutex' = Free
  /\ UNCHANGED tables

\* lock_table returning true: the table is recorded with or without a
\* transaction.  It returns false, and records nothing, if trylock fails.
record_lock(t, id) ==
  /\ transaction_locks' = [transaction_locks EXCEPT ![id] = @ \cup {t}]
  /\ UNCHANGED <<tables, mutex, in_transaction>>

\* unlock_table: nothing happens unless the table is recorded for id.
unlock_table(t, id) ==
  /\ IF t \in transaction_locks[id] THEN unlock(t) ELSE UNCHANGED m_mutex
  /\ transaction_locks' = [transaction_locks EXCEPT ![id] = @ \ {t}]
  /\ UNCHANGED <<tables, mutex, in_transaction>>

ServerInit ==
  /\ tables = InitialTables
  /\ mutex = Free
  /\ in_transaction = [id \in ClientId |-> FALSE]
  /\ transaction_locks = [id \in ClientId |-> {}]

ServerTypeOK ==
  /\ tables \subseteq TableName
  /\ mutex \in Conn \cup {Free}
  /\ in_transaction \in [ClientId -> BOOLEAN]
  /\ transaction_locks \in [ClientId -> SUBSET TableName]
=============================================================================
