----------------------------- MODULE StoreProofs ----------------------------
(***************************************************************************)
(* Proof that the sessions implement the abstract store of VisibleStore,   *)
(* for every heap and every fault.  Each action is summed up by what it    *)
(* does to the store that a GET sees and to the SETs under way; a step     *)
(* then is one of the abstract ones, or leaves the abstract state alone.   *)
(***************************************************************************)
EXTENDS SessionProofs

\* The labels between the checks of a SET and its store.
Asking == {"set_lock", "set_wait", "set_find", "set_store"}

\* What is asked by a session does not change.
SameAsked(d) ==
  /\ pc'[d] \in Asking <=> pc[d] \in Asking
  /\ pc[d] \in Asking => /\ table_name'[d] = table_name[d]
                         /\ key_name'[d] = key_name[d] /\ stack'[d] = stack[d]

\* No map of a table changes, or a table's changes are committed.
SameEntries ==
  \/ UNCHANGED <<m_data, m_temporary_changes>>
  \/ \E t \in TableName : commit_changes(t)

Calm(c) == tables' = tables /\ SameEntries /\ SameAsked(c)

Creates(c) ==
  /\ \E t \in TableName \ tables : tables' = tables \cup {t}
  /\ SameEntries /\ SameAsked(c)

Asks(c) ==
  /\ tables' = tables /\ SameEntries
  /\ pc[c] \notin Asking /\ pc'[c] \in Asking
  /\ table_name'[c] = table_name[c] /\ table_name[c] \in tables

Stores(c) ==
  /\ tables' = tables
  /\ set(table_name[c], key_name[c], Top(stack[c]))
  /\ pc[c] \in Asking /\ pc'[c] \notin Asking

\* A step of c, unless there is a collision or has been one.
StoreEffect(c) ==
  /\ raced => raced'
  /\ \A d \in Conn \ {c} : SameAsked(d)
  /\ raced' \/ Calm(c) \/ Creates(c) \/ Asks(c) \/ Stores(c)

\* The types that the summary needs.
StoreMappings ==
  /\ pc \in [Conn -> Label]
  /\ table_name \in [Conn -> TableName \cup {Absent}]
  /\ key_name \in [Conn -> Key \cup {Absent}]
  /\ stack \in [Conn -> Seq(Value)]
  /\ tables \subseteq TableName

-----------------------------------------------------------------------------

USE DEF StoreEffect, SameAsked, SameEntries, Calm, Creates, Asks, Stores, Asking, Contents,
        Entry, NoEntries

\* The steps of a session that wait for its client.
LEMMA ServeStore ==
  ASSUME StoreMappings, NEW c \in Conn, Serve(c) PROVE StoreEffect(c)
<1> USE DEF StoreMappings, Goto, LocalStep, read_message, Silent, serverVars, tableVars,
            fdVars, argVars
<1>1. CASE Accept(c)
  BY <1>1 DEF Accept
<1>2. CASE ThreadRefused(c)
  BY <1>2 DEF ThreadRefused, delete_connection, close_connection
<1>3. CASE Login(c)
  BY <1>3 DEF Login
<1>4. CASE NotLogin(c)
  BY <1>4 DEF NotLogin, delete_connection
<1>5. CASE BadInput(c)
  BY <1>5 DEF BadInput
<1>6. CASE Receive(c)
  BY <1>6 DEF Receive
<1>7. CASE LoginAgain(c)
  BY <1>7 DEF LoginAgain
<1>8. CASE reject(c)
  BY <1>8 DEF reject
<1>9. CASE handle_bye_request(c)
  BY <1>9 DEF handle_bye_request, delete_connection
<1>10. CASE handle_push_request(c)
  BY <1>10 DEF handle_push_request
<1>11. CASE handle_pop_request(c)
  BY <1>11 DEF handle_pop_request
<1>12. CASE handle_top_request(c)
  BY <1>12 DEF handle_top_request
<1>13. CASE handle_arithmetic_request(c)
  BY <1>13 DEF handle_arithmetic_request, arithmetic, delete_connection, close_connection
<1> QED
  BY <1>1, <1>2, <1>3, <1>4, <1>5, <1>6, <1>7, <1>8, <1>9, <1>10, <1>11, <1>12,
     <1>13 DEF Serve

\* The steps it takes on its own.
LEMMA HandleStore ==
  ASSUME StoreMappings, HandlersHaveArguments, CommitFindsTables,
         NEW c \in Conn, Handle(c)
  PROVE  StoreEffect(c)
<1> USE DEF StoreMappings, Goto, Within, Leave, Back, Fail, Finish, Silent, Access,
            serverVars, tableVars, fdVars, argVars
<1>1. CASE CloseOnException(c)
  BY <1>1 DEF CloseOnException, delete_connection
<1>2. CASE rollback_transaction(c)
  BY <1>2 DEF rollback_transaction
<1>3. CASE handle_create_request(c)
  BY <1>3 DEF handle_create_request, create_table, HandlersHaveArguments
<1>4. CASE handle_begin_request(c)
  BY <1>4 DEF handle_begin_request, begin_transaction
<1>5. CASE commit_begins(c)
  BY <1>5 DEF commit_begins
<1>6. CASE commit_table(c)
  BY <1>6 DEF commit_table
<1>7. CASE commit_unlock(c)
  BY <1>7 DEF commit_unlock
<1>8. CASE commit_ends(c)
  BY <1>8 DEF commit_ends, end_transaction
<1>9. CASE set_checks(c)
  BY <1>9 DEF set_checks
<1>10. CASE set_trylock(c)
  BY <1>10 DEF set_trylock, record_lock
<1>11. CASE set_wait(c)
  BY <1>11 DEF set_wait
<1>12. CASE set_find(c)
  BY <1>12 DEF set_find
<1>13. CASE set_store(c)
  BY <1>13 DEF set_store
<1>14. CASE set_commit(c)
  BY <1>14 DEF set_commit, HandlersHaveArguments, SetLabels, SetLocked
<1>15. CASE set_unlock(c)
  BY <1>15 DEF set_unlock
<1>16. CASE set_end(c)
  BY <1>16 DEF set_end
<1>17. CASE set_unlock_again(c)
  BY <1>17 DEF set_unlock_again
<1>18. CASE get_checks(c)
  BY <1>18 DEF get_checks
<1>19. CASE get_wait(c)
  BY <1>19 DEF get_wait
<1>20. CASE get_find(c)
  BY <1>20 DEF get_find
<1>21. CASE get_read(c)
  BY <1>21 DEF get_read
<1>22. CASE get_end(c)
  BY <1>22 DEF get_end
<1>23. CASE get_unlock(c)
  BY <1>23 DEF get_unlock
<1>24. CASE get_miss(c)
  BY <1>24 DEF get_miss
<1>25. CASE get_miss_unlock(c)
  BY <1>25 DEF get_miss_unlock
<1>26. CASE get_miss_flag(c)
  BY <1>26 DEF get_miss_flag, unlock_table
<1> QED
  BY <1>1, <1>2, <1>3, <1>4, <1>5, <1>6, <1>7, <1>8, <1>9, <1>10, <1>11, <1>12,
     <1>13, <1>14, <1>15, <1>16, <1>17, <1>18, <1>19, <1>20, <1>21, <1>22,
     <1>23, <1>24, <1>25, <1>26 DEF Handle

-----------------------------------------------------------------------------
(* From the summary to the abstract store.                                 *)

\* TypeOK gives the types that the summary needs.
LEMMA TypeStoreMappings == TypeOK => StoreMappings
BY DEF TypeOK, LinkTypeOK, PlaceTypeOK, ServerTypeOK, StoreMappings

\* The tables hold maps of the right type, so that every entry is one.
LEMMA OverlayType ==
  ASSUME NEW base \in Contents, NEW changes \in Contents
  PROVE  Overlay(base, changes) \in Contents
BY DEF Overlay

\* What is laid over twice, or with nothing, is what it was.
LEMMA OverlayNothing ==
  ASSUME NEW base \in Contents
  PROVE  Overlay(base, NoEntries) = base
BY DEF Overlay

\* To commit the changes of a table changes nothing that a GET finds.
LEMMA EntriesVisible ==
  ASSUME TableTypeOK, SameEntries, NEW t \in TableName
  PROVE  Visible(t)' = Visible(t)
<1> USE DEF TableTypeOK
<1>1. CASE UNCHANGED <<m_data, m_temporary_changes>>
  BY <1>1 DEF Visible
<1>2. CASE \E u \in TableName : commit_changes(u)
  <2>1. PICK u \in TableName : commit_changes(u)
    BY <1>2
  <2>2. CASE u = t
    <3>1. Overlay(m_data[t], m_temporary_changes[t]) \in Contents
      BY OverlayType
    <3>2. /\ m_data'[t] = Overlay(m_data[t], m_temporary_changes[t])
          /\ m_temporary_changes'[t] = NoEntries
      BY <2>1, <2>2 DEF commit_changes
    <3>3. Overlay(m_data'[t], m_temporary_changes'[t]) = m_data'[t]
      BY <3>1, <3>2, OverlayNothing
    <3> QED
      BY <3>2, <3>3 DEF Visible
  <2>3. CASE u # t
    <3>1. m_data'[t] = m_data[t] /\ m_temporary_changes'[t] = m_temporary_changes[t]
      BY <2>1, <2>3 DEF commit_changes
    <3> QED
      BY <3>1 DEF Visible
  <2> QED
    BY <2>2, <2>3
<1> QED
  BY <1>1, <1>2

\* A value that is set is what a GET finds, and nothing else changes.
LEMMA SetVisible ==
  ASSUME TableTypeOK, NEW t \in TableName, NEW k \in Key, NEW v \in Value, set(t, k, v),
         NEW u \in TableName
  PROVE  Visible(u)' = IF u = t THEN [Visible(t) EXCEPT ![k] = v] ELSE Visible(u)
<1>1. /\ m_data' = m_data
      /\ u # t => m_temporary_changes'[u] = m_temporary_changes[u]
      /\ m_temporary_changes'[t] = [m_temporary_changes[t] EXCEPT ![k] = v]
  BY DEF TableTypeOK, set
<1>2. CASE u # t
  BY <1>1, <1>2 DEF Visible
<1>3. CASE u = t
  <2>1. v # Absent
    BY TableAssumption
  <2>2. m_data[t] \in Contents /\ m_temporary_changes[t] \in Contents
    BY DEF TableTypeOK
  <2>3. Overlay(m_data[t], [m_temporary_changes[t] EXCEPT ![k] = v])
          = [Overlay(m_data[t], m_temporary_changes[t]) EXCEPT ![k] = v]
    BY <2>1, <2>2 DEF Overlay
  <2> QED
    BY <1>1, <1>3, <2>3 DEF Visible
<1> QED
  BY <1>2, <1>3

\* The value that is asked for does not change.
LEMMA AskedSame ==
  ASSUME NEW d \in Conn, SameAsked(d) PROVE Asked(d)' = Asked(d)
BY DEF Asked

\* Every entry is a value or Absent, and every SET under way a write.
AbstractTypeOK ==
  /\ [t \in TableName |-> Visible(t)] \in Abstract!AnyStore
  /\ [c \in Conn |-> Asked(c)] \in [Conn -> Abstract!Write \cup {NoWrite}]

\* The abstract state has its type.
LEMMA AbstractTypes == TypeOK => AbstractTypeOK
<1> SUFFICES ASSUME TypeOK PROVE AbstractTypeOK
  OBVIOUS
<1>1. \A t \in TableName : Visible(t) \in Contents
  BY OverlayType DEF TypeOK, TableTypeOK, Visible
<1>2. \A c \in Conn : Asked(c) \in Abstract!Write \cup {NoWrite}
  <2> SUFFICES ASSUME NEW c \in Conn, pc[c] \in Asking
               PROVE  Asked(c) \in Abstract!Write
    BY DEF Asked
  <2>1. table_name[c] \in TableName /\ key_name[c] \in Key /\ stack[c] # << >>
    BY DEF TypeOK, PlaceTypeOK, HandlersHaveArguments, SetLabels, SetLocked
  <2>2. Top(stack[c]) \in Value
    BY <2>1, PopIsStack DEF TypeOK, LinkTypeOK, IsEmpty
  <2> QED
    BY <2>1, <2>2 DEF Asked, Abstract!Write
<1> QED
  BY <1>1, <1>2 DEF AbstractTypeOK, Abstract!AnyStore

\* A write is not NoWrite.
LEMMA WriteIsNoWrite ==
  ASSUME TypeOK, NEW c \in Conn
  PROVE  Asked(c) = NoWrite <=> pc[c] \notin Asking
<1>1. pc[c] \in Asking => table_name[c] # Absent
  BY TableAssumption DEF TypeOK, PlaceTypeOK, HandlersHaveArguments, SetLabels, SetLocked
<1>2. pc[c] \in Asking => Asked(c).name = table_name[c]
  BY DEF Asked
<1>3. NoWrite.name = Absent
  BY DEF NoWrite
<1> QED
  BY <1>1, <1>2, <1>3 DEF Asked

\* After a collision anything goes, except that a table is lost.
LEMMA CollideStep ==
  ASSUME TypeOK', raced', tables \subseteq tables'
  PROVE  Abstract!Collide
<1>1. (TypeOK => AbstractTypeOK)'
  BY AbstractTypes, PTL
<1> QED
  BY <1>1 DEF AbstractTypeOK, Abstract!Collide

\* A calm step of c is no step of the abstract store.
LEMMA CalmStep ==
  ASSUME TypeOK, UNCHANGED <<tables, raced>>, SameEntries, \A d \in Conn : SameAsked(d)
  PROVE  UNCHANGED Abstract!StoreVars
BY EntriesVisible, AskedSame DEF TypeOK, Abstract!StoreVars

\* CREATE creates a table.
LEMMA CreateStep ==
  ASSUME TypeOK, ~raced, ~raced', NEW c \in Conn, Creates(c), \A d \in Conn : SameAsked(d)
  PROVE  \E n \in TableName : Abstract!Create(n)
BY EntriesVisible, AskedSame DEF TypeOK, Abstract!Create

\* The checks of a SET are where it is asked for.
LEMMA AskStep ==
  ASSUME TypeOK, TypeOK', ~raced, ~raced', NEW c \in Conn, Asks(c),
         \A d \in Conn \ {c} : SameAsked(d)
  PROVE  Abstract!Ask(c)
<1>1. Asked(c) = NoWrite
  BY WriteIsNoWrite
<1>2. Asked(c)' \in Abstract!Write /\ Asked(c)'.name \in tables
  <2>1. (TypeOK => AbstractTypeOK)'
    BY AbstractTypes, PTL
  <2>2. Asked(c)' \in Abstract!Write \cup {NoWrite}
    BY <2>1 DEF AbstractTypeOK
  <2>3. Asked(c)'.name = table_name'[c]
    BY DEF Asked
  <2>4. Asked(c)' # NoWrite
    BY <2>3, TableAssumption DEF NoWrite, TypeOK, ServerTypeOK
  <2> QED
    BY <2>2, <2>3, <2>4
<1>3. [d \in Conn |-> Asked(d)]' = [[d \in Conn |-> Asked(d)] EXCEPT ![c] = Asked(c)']
  BY AskedSame
<1>4. \A t \in TableName : Visible(t)' = Visible(t)
  BY EntriesVisible DEF TypeOK
<1> QED
  BY <1>1, <1>2, <1>3, <1>4 DEF Abstract!Ask

\* The store of a SET is where its value is set.
LEMMA StoreStep ==
  ASSUME TypeOK, ~raced, ~raced', NEW c \in Conn, Stores(c),
         \A d \in Conn \ {c} : SameAsked(d)
  PROVE  Abstract!Set(c)
<1> DEFINE t == table_name[c]
           k == key_name[c]
           v == Top(stack[c])
<1>1. Asked(c) # NoWrite
  BY WriteIsNoWrite
<1>2. t \in TableName /\ k \in Key /\ v \in Value
  <2>1. t \in TableName /\ k \in Key /\ stack[c] # << >>
    BY DEF TypeOK, PlaceTypeOK, HandlersHaveArguments, SetLabels, SetLocked
  <2> QED
    BY <2>1, PopIsStack DEF TypeOK, LinkTypeOK, IsEmpty
<1>3. Asked(c) = [name |-> t, key |-> k, value |-> v]
  BY DEF Asked
<1>4. Asked(c)' = NoWrite
  BY DEF Asked
<1>5. [d \in Conn |-> Asked(d)]' = [[d \in Conn |-> Asked(d)] EXCEPT ![c] = NoWrite]
  BY <1>4, AskedSame
<1>6. \A u \in TableName :
        Visible(u)' = IF u = t THEN [Visible(t) EXCEPT ![k] = v] ELSE Visible(u)
  BY <1>2, SetVisible DEF TypeOK
<1>7. [u \in TableName |-> Visible(u)]'
        = [[u \in TableName |-> Visible(u)] EXCEPT ![t][k] = v]
  BY <1>2, <1>6
<1>8. Asked(c).name = t /\ Asked(c).key = k /\ Asked(c).value = v
  BY <1>3
<1>9. [d \in Conn |-> Asked(d)][c] = Asked(c)
  OBVIOUS
<1> HIDE DEF t, k, v
<1> QED
  BY <1>1, <1>5, <1>7, <1>8, <1>9 DEF Abstract!Set

\* Every step is a step of the abstract store, or leaves it alone.
LEMMA NextStore ==
  ASSUME Safe, [Next]_vars
  PROVE  [Abstract!StoreNext]_(Abstract!StoreVars)
<1>1. TypeOK /\ TypeOK' /\ HandlersHaveArguments /\ CommitFindsTables /\ StoreMappings
  BY NextType, TypeStoreMappings DEF Safe, TypeOK, PlaceTypeOK
<1>2. CASE \E c \in Conn : Serve(c) \/ Handle(c)
  <2>1. PICK c \in Conn : Serve(c) \/ Handle(c)
    BY <1>2
  <2>2. StoreEffect(c) /\ tables \subseteq tables'
    BY <1>1, <2>1, ServeStore, HandleStore, TypeMappings, ServeFootprint, HandleFootprint
    DEF Footprint, KeepsNames
  <2>3. CASE raced'
    BY <1>1, <2>2, <2>3, CollideStep DEF Abstract!StoreNext
  <2>4. CASE ~raced' /\ Calm(c)
    BY <1>1, <2>2, <2>4, CalmStep DEF TypeOK, LinkTypeOK
  <2>5. CASE ~raced' /\ Creates(c)
    BY <1>1, <2>2, <2>5, CreateStep DEF Abstract!StoreNext
  <2>6. CASE ~raced' /\ Asks(c)
    BY <1>1, <2>2, <2>6, AskStep DEF Abstract!StoreNext
  <2>7. CASE ~raced' /\ Stores(c)
    BY <1>1, <2>2, <2>7, StoreStep DEF Abstract!StoreNext
  <2> QED
    BY <2>2, <2>3, <2>4, <2>5, <2>6, <2>7
<1>3. CASE Segfault
  BY <1>1, <1>3, CollideStep DEF Segfault, serverVars, Abstract!StoreNext
<1>4. CASE UNCHANGED vars
  <2>1. UNCHANGED <<tables, raced>> /\ SameEntries /\ \A d \in Conn : SameAsked(d)
    BY <1>4 DEF vars, serverVars, tableVars, argVars
  <2> QED
    BY <1>1, <2>1, CalmStep
<1> QED
  BY <1>2, <1>3, <1>4 DEF Next, Terminating

\* The initial state is the abstract one.
LEMMA InitStore == Init => Abstract!StoreInit
<1> SUFFICES ASSUME Init PROVE Abstract!StoreInit
  OBVIOUS
<1>1. \A t \in TableName : Visible(t) = InitialData[t]
  BY TableAssumption, OverlayNothing DEF Init, TableInit, Visible
<1>2. [t \in TableName |-> Visible(t)] = InitialData
  BY <1>1, TableAssumption
<1>3. \A c \in Conn : Asked(c) = NoWrite
  BY DEF Init, Asked
<1> QED
  BY <1>2, <1>3 DEF Init, ServerInit, Abstract!StoreInit

\* THE SESSIONS IMPLEMENT THE STORE.  Whatever the heap, the faults and the
\* interleaving, until two threads collide on the maps of a table: each SET
\* that passed its checks stores its value exactly once, and no other request,
\* no failure and no end of a session changes what a GET finds.
THEOREM SessionsImplementStore == Spec => ImplementsVisibleStore
<1>1. Init => Abstract!StoreInit
  BY InitStore
<1>2. Safe /\ [Next]_vars => [Abstract!StoreNext]_(Abstract!StoreVars)
  BY NextStore
<1>3. Spec => []Safe
  BY AlwaysSafe
<1> QED
  BY <1>1, <1>2, <1>3, PTL DEF Spec, ImplementsVisibleStore, Abstract!StoreSpec
=============================================================================
