------------------------------- MODULE Table --------------------------------
(***************************************************************************)
(* The tables (table.cpp): for each, the committed map m_data, the map of  *)
(* m_temporary_changes laid over it, and the mutex that the header says    *)
(* must be held for every access to the two.                               *)
(*                                                                         *)
(* The module gives the operations of one Table; who calls them, and       *)
(* whether the caller holds the mutex, is the business of the sessions.    *)
(***************************************************************************)
EXTENDS ValueStack

CONSTANTS
  TableName,  \* the names a table may have
  Key,        \* the keys of a table
  InitialData,  \* committed entries that earlier sessions have left
  Conn,       \* the connections, each with its own server thread
  Absent,     \* "no entry for this key"
  Free        \* "no thread holds this mutex"

VARIABLES
  m_data,               \* committed entries of every table
  m_temporary_changes,  \* entries set and not committed yet
  m_mutex               \* the thread each table's mutex is locked by, or Free

Entry == Value \cup {Absent}

Contents == [Key -> Entry]

ASSUME TableAssumption ==
  /\ Absent \notin Value \cup TableName \cup Key
  /\ Free \notin Conn
  /\ InitialData \in [TableName -> Contents]

NoEntries == [k \in Key |-> Absent]

\* The entries of changes laid over those of base.
Overlay(base, changes) ==
  [k \in Key |-> IF changes[k] # Absent THEN changes[k] ELSE base[k]]

\* What get() returns for each key: m_temporary_changes first, then m_data.
Visible(t) == Overlay(m_data[t], m_temporary_changes[t])

-----------------------------------------------------------------------------

\* pthread_mutex_lock on a default mutex: a thread that holds it waits too.
lock(t, c) ==
  /\ m_mutex[t] = Free
  /\ m_mutex' = [m_mutex EXCEPT ![t] = c]

(***************************************************************************)
(* pthread_mutex_unlock on a default mutex checks no owner: whoever calls  *)
(* it, the mutex is free afterwards, and freeing a free one changes        *)
(* nothing that a later lock can observe.                                  *)
(***************************************************************************)
unlock(t) == m_mutex' = [m_mutex EXCEPT ![t] = Free]

set(t, k, v) ==
  /\ m_temporary_changes' = [m_temporary_changes EXCEPT ![t][k] = v]
  /\ UNCHANGED m_data

\* MUTANT: the temporary changes are not cleared.
commit_changes_keeps(t) ==
  /\ m_data' = [m_data EXCEPT ![t] = Overlay(@, m_temporary_changes[t])]
  /\ UNCHANGED m_temporary_changes

\* MUTANT: the committed map becomes the temporary one.
commit_changes_replaces(t) ==
  /\ m_data' = [m_data EXCEPT ![t] = m_temporary_changes[t]]
  /\ m_temporary_changes' = [m_temporary_changes EXCEPT ![t] = NoEntries]

\* MUTANT: the temporary map is cleared before it is merged.
commit_changes_clears_first(t) ==
  /\ m_temporary_changes' = [m_temporary_changes EXCEPT ![t] = NoEntries]
  /\ UNCHANGED m_data

commit_changes(t) ==
  /\ m_data' = [m_data EXCEPT ![t] = Overlay(@, m_temporary_changes[t])]
  /\ m_temporary_changes' = [m_temporary_changes EXCEPT ![t] = NoEntries]

TableInit ==
  /\ m_data = InitialData
  /\ m_temporary_changes = [t \in TableName |-> NoEntries]
  /\ m_mutex = [t \in TableName |-> Free]

TableTypeOK ==
  /\ m_data \in [TableName -> Contents]
  /\ m_temporary_changes \in [TableName -> Contents]
  /\ m_mutex \in [TableName -> Conn \cup {Free}]
=============================================================================
