---------------------------- MODULE ClientsProofs ----------------------------
(***************************************************************************)
(* Proofs about the client programs, for any programs, any number of runs, *)
(* any heap and any faults: what the runs do is what sessions may do, a    *)
(* get_value that starts when a set_value is over finds what it set, and   *)
(* runs of incr_value count no more than they try, and at least once.      *)
(***************************************************************************)
EXTENDS Clients, StoreProofs, SequenceTheorems, FiniteSetTheorems

\* A step of the connection c: a request or the end of its client, or the
\* handling of a request.
ClientStep(c) == Connect(c) \/ Login(c) \/ SendNext(c) \/ GiveUp(c) \/ Handle(c)

\* The requests of a client are requests that a session serves.
LEMMA StepIsServed ==
  ASSUME NEW c \in Conn, ClientStep(c) PROVE Serve(c) \/ Handle(c)
<1>1. CASE Connect(c)
  BY <1>1 DEF Connect, Serve
<1>2. CASE SendNext(c)
  BY <1>2 DEF SendNext, NextRequest, handle_arithmetic_request, Serve
<1>3. CASE GiveUp(c)
  BY <1>3 DEF GiveUp, Serve
<1>4. CASE Login(c) \/ Handle(c)
  BY <1>4 DEF Serve
<1> QED
  BY <1>1, <1>2, <1>3, <1>4 DEF ClientStep

\* A step is one of a connection, the end of the process, or none; no list
\* changes.
LEMMA ClientsStep ==
  ASSUME [ClientsNext]_<<vars, list>>
  PROVE  /\ list' = list /\ [Next]_vars
         /\ \/ up /\ \E c \in Conn : ClientStep(c)
            \/ Segfault
            \/ UNCHANGED vars
<1>1. list' = list
  BY DEF ClientsNext
<1>2. \/ up /\ \E c \in Conn : ClientStep(c)
      \/ up /\ Segfault
      \/ Terminating
      \/ UNCHANGED vars
  BY DEF ClientsNext, ClientStep
<1> QED
  BY <1>1, <1>2, StepIsServed DEF Next, Terminating

\* RUNS ARE SESSIONS.  Every behaviour of client programs is a behaviour of
\* the sessions, so whatever is proved of these holds of any programs.
THEOREM ClientsAreSessions == ClientsSpec => Spec
<1>1. [ClientsNext]_<<vars, list>> => [Next]_vars
  BY ClientsStep
<1> QED
  BY <1>1, PTL DEF ClientsSpec, Spec

-----------------------------------------------------------------------------
(* Where a run is in its program.                                          *)

\* A session that is not the one to move.
Still(d) ==
  /\ pc'[d] = pc[d] /\ served'[d] = served[d] /\ stack'[d] = stack[d]
  /\ reply'[d] = reply[d] /\ m_client_fd'[d] = m_client_fd[d]
  /\ table_name'[d] = table_name[d] /\ key_name'[d] = key_name[d]

\* What every run keeps to, whatever its program: nothing has happened before
\* it is logged in; after a refusal it only ends; those it waits for are over;
\* and a SET is one of its list.
RunsInPlace ==
  \A c \in Conn :
    /\ pc[c] \in {"unborn", "login"} => served[c] = 0 /\ stack[c] = << >> /\ reply[c] = "none"
    /\ reply[c] \in {"FAILED", "ERROR"} => pc[c] \in {"ready", "except", "rollback_self", "done"}
    /\ pc[c] # "unborn" => \A d \in Earlier[c] : Exited(d)
    /\ pc[c] \in SetLabels => Sets(list[c], table_name[c], key_name[c])

\* The entry is there for a GET to find, unless two threads have raced.
Stored(t, k, v) == raced \/ (t \in tables /\ Visible(t)[k] = v)

\* The labels of a run of set_value before its store and after it.
Storing == {"SET", "set_lock", "set_wait", "set_find", "set_store"}
HasStored == {"set_commit", "set_unlock", "set_end", "set_unlock_again"}

\* A run of set_value has the value on its stack when the SET begins, and has
\* stored it when the SET ends, unless it was refused or its client is gone.
SetterInPlace(s, t, k, v) ==
  LET last == Len(list[s])
  IN  /\ served[s] <= last
      /\ served[s] < last - 1 => stack[s] = << >>
      /\ served[s] = last - 1 => stack[s] = <<v>>
      /\ pc[s] = "CREATE" => served[s] < last - 1
      /\ pc[s] \in {"unborn", "login", "ready", "CREATE", "except", "rollback_self", "done"}
                   \cup Storing \cup HasStored
      /\ pc[s] \in Storing \cup HasStored =>
           served[s] = last /\ table_name[s] = t /\ key_name[s] = k
      /\ pc[s] \in Storing => stack[s] = <<v>>
      /\ pc[s] \in HasStored => Stored(t, k, v)
      /\ pc[s] = "ready" /\ served[s] = last /\ up =>
           Stored(t, k, v) \/ reply[s] \in {"FAILED", "ERROR"} \/ m_client_fd[s] = NoFd
      /\ pc[s] = "done" /\ reply[s] = "OK" => Stored(t, k, v)
      /\ pc[s] \in {"except", "rollback_self"} => reply[s] \in {"FAILED", "ERROR"}

\* A run of get_value that started after it is not refused, and has that
\* value on its stack once the GET is over.
GetterInPlace(g, t, k, v) ==
  /\ reply[g] \notin {"FAILED", "ERROR"}
  /\ pc[g] \in {"login", "ready", "GET", "get_wait", "get_find", "get_read", "get_end",
                "get_unlock", "done"}
  /\ pc[g] = "ready" => \/ served[g] = 0 /\ stack[g] = << >>
                        \/ served[g] \in {1, 2} /\ stack[g] = <<v>>
  /\ pc[g] \in {"GET", "get_wait", "get_find", "get_read"} =>
       served[g] = 1 /\ stack[g] = << >> /\ table_name[g] = t /\ key_name[g] = k
  /\ pc[g] \in {"get_end", "get_unlock"} => served[g] = 1 /\ stack[g] = <<v>>
  /\ pc[g] = "done" => stack[g] = <<v>>

SetThenGet ==
  \A s \in Conn, t \in TableName, k \in Key, v \in PushTexts :
    OnlySetter(s, t, k, v) =>
      /\ SetterInPlace(s, t, k, v)
      /\ \A g \in Conn :
           /\ s \in Earlier[g] \cap Succeeded /\ list[g] = get_value(t, k)
           /\ pc[g] # "unborn" /\ ~raced
           => GetterInPlace(g, t, k, v)

\* The inductive invariant of the runs.
RunInv == Safe /\ RunsInPlace /\ SetThenGet

\* The types that the steps need.
RunMappings ==
  /\ StoreMappings
  /\ served \in [Conn -> 0 .. MaxRequests]
  /\ reply \in [Conn -> {"none", "OK", "FAILED", "ERROR", "DATA"}]
  /\ m_client_fd \in [Conn -> ClientId]

\* TypeOK gives them.
LEMMA TypeRunMappings == TypeOK => RunMappings
BY TypeStoreMappings DEF TypeOK, LinkTypeOK, PlaceTypeOK, RunMappings

-----------------------------------------------------------------------------
(* A step of one session changes nothing of the others.                    *)

USE DEF Still, Storing, HasStored, SetLabels, SetLocked

\* What a reply is, and what it leaves open.
LEMMA SendReply ==
  ASSUME RunMappings, NEW c \in Conn, NEW r,
         send_message(c, r) \/ send_and_close(c, r)
  PROVE  /\ \A d \in Conn \ {c} : /\ reply'[d] = reply[d]
                                  /\ m_client_fd'[d] = m_client_fd[d]
         /\ \/ reply'[c] = r /\ m_client_fd[c] # NoFd
            \/ reply'[c] = "none" /\ m_client_fd'[c] = NoFd
            \/ reply'[c] = reply[c] /\ ~up' /\ m_client_fd[c] # NoFd
BY DEF RunMappings, send_message, send_and_close, Written, Lost, Killed, close_connection, id

\* The steps of a session that wait for its client.
LEMMA ServeStill ==
  ASSUME RunMappings, NEW c \in Conn, Serve(c)
  PROVE  \A d \in Conn \ {c} : Still(d)
<1> USE SendReply
        DEF RunMappings, StoreMappings, Goto, LocalStep, read_message, Silent, serverVars,
            tableVars, fdVars, argVars
<1>1. CASE Accept(c)
  BY <1>1 DEF Accept
<1>2. CASE ThreadRefused(c)
  BY <1>2 DEF ThreadRefused, delete_connection, close_connection
<1>3. CASE Login(c)
  BY <1>3 DEF Login
<1>4. CASE NotLogin(c)
  BY <1>4 DEF NotLogin, delete_connection, close_connection
<1>5. CASE BadInput(c)
  BY <1>5 DEF BadInput
<1>6. CASE Receive(c)
  BY <1>6 DEF Receive
<1>7. CASE LoginAgain(c)
  BY <1>7 DEF LoginAgain
<1>8. CASE reject(c)
  BY <1>8 DEF reject
<1>9. CASE handle_bye_request(c)
  BY <1>9 DEF handle_bye_request, delete_connection
<1>10. CASE handle_push_request(c)
  BY <1>10 DEF handle_push_request
<1>11. CASE handle_pop_request(c)
  BY <1>11 DEF handle_pop_request
<1>12. CASE handle_top_request(c)
  BY <1>12 DEF handle_top_request
<1>13. CASE handle_arithmetic_request(c)
  BY <1>13 DEF handle_arithmetic_request, arithmetic, delete_connection, close_connection
<1> QED
  BY <1>1, <1>2, <1>3, <1>4, <1>5, <1>6, <1>7, <1>8, <1>9, <1>10, <1>11, <1>12,
     <1>13 DEF Serve

\* The steps it takes on its own: nor do they read a request.
LEMMA HandleStill ==
  ASSUME RunMappings, NEW c \in Conn, Handle(c)
  PROVE  served' = served /\ \A d \in Conn \ {c} : Still(d)
<1> USE SendReply
        DEF RunMappings, StoreMappings, Goto, Within, Leave, Back, Fail, Finish, Silent,
            serverVars, tableVars, fdVars, argVars
<1>1. CASE CloseOnException(c)
  BY <1>1 DEF CloseOnException, delete_connection
<1>2. CASE rollback_transaction(c)
  BY <1>2 DEF rollback_transaction
<1>3. CASE handle_create_request(c)
  BY <1>3 DEF handle_create_request
<1>4. CASE handle_begin_request(c)
  BY <1>4 DEF handle_begin_request
<1>5. CASE commit_begins(c)
  BY <1>5 DEF commit_begins
<1>6. CASE commit_table(c)
  BY <1>6 DEF commit_table
<1>7. CASE commit_unlock(c)
  BY <1>7 DEF commit_unlock
<1>8. CASE commit_ends(c)
  BY <1>8 DEF commit_ends
<1>9. CASE set_checks(c)
  BY <1>9 DEF set_checks
<1>10. CASE set_trylock(c)
  BY <1>10 DEF set_trylock
<1>11. CASE set_wait(c)
  BY <1>11 DEF set_wait
<1>12. CASE set_find(c)
  BY <1>12 DEF set_find
<1>13. CASE set_store(c)
  BY <1>13 DEF set_store
<1>14. CASE set_commit(c)
  BY <1>14 DEF set_commit
<1>15. CASE set_unlock(c)
  BY <1>15 DEF set_unlock
<1>16. CASE set_end(c)
  BY <1>16 DEF set_end
<1>17. CASE set_unlock_again(c)
  BY <1>17 DEF set_unlock_again
<1>18. CASE get_checks(c)
  BY <1>18 DEF get_checks
<1>19. CASE get_wait(c)
  BY <1>19 DEF get_wait
<1>20. CASE get_find(c)
  BY <1>20 DEF get_find
<1>21. CASE get_read(c)
  BY <1>21 DEF get_read
<1>22. CASE get_end(c)
  BY <1>22 DEF get_end
<1>23. CASE get_unlock(c)
  BY <1>23 DEF get_unlock
<1>24. CASE get_miss(c)
  BY <1>24 DEF get_miss
<1>25. CASE get_miss_unlock(c)
  BY <1>25 DEF get_miss_unlock
<1>26. CASE get_miss_flag(c)
  BY <1>26 DEF get_miss_flag
<1> QED
  BY <1>1, <1>2, <1>3, <1>4, <1>5, <1>6, <1>7, <1>8, <1>9, <1>10, <1>11,
     <1>12, <1>13, <1>14, <1>15, <1>16, <1>17, <1>18, <1>19, <1>20, <1>21, <1>22,
     <1>23, <1>24, <1>25, <1>26 DEF Handle

-----------------------------------------------------------------------------
(* What every run keeps to.                                                *)

\* What the thread of c does on its own to the place of its run: it refuses
\* at the end of a handler only, is in a SET only after the request was read,
\* and after an exception only ends.
RunEffect(c) ==
  /\ pc[c] \notin {"unborn", "login", "ready", "rollback_self", "done"}
  /\ pc'[c] \notin {"unborn", "login"}
  /\ reply'[c] \in {"FAILED", "ERROR"} =>
       \/ pc'[c] \in {"ready", "except", "rollback_self", "done"}
       \/ reply'[c] = reply[c] /\ pc[c] # "except"
  /\ pc'[c] \in SetLabels =>
       pc[c] \in SetLabels /\ table_name'[c] = table_name[c] /\ key_name'[c] = key_name[c]
  /\ pc[c] = "except" =>
       \/ pc'[c] = "done" /\ reply'[c] \in {"ERROR", "none", reply[c]}
       \/ pc'[c] = "rollback_self" /\ reply'[c] = reply[c]

USE DEF RunEffect

\* The steps of Handle have that effect.
LEMMA HandleRun ==
  ASSUME RunMappings, NEW c \in Conn, Handle(c) PROVE RunEffect(c)
<1>0. send_message(c, "OK") => reply'[c] \in {"OK", "none", reply[c]}
  BY SendReply
<1> USE <1>0, SendReply
        DEF RunMappings, StoreMappings, Goto, Within, Leave, Back, Fail, Finish, Silent,
            fdVars, argVars
<1>1. CASE CloseOnException(c)
  BY <1>1 DEF CloseOnException, delete_connection
<1>2. CASE rollback_transaction(c)
  BY <1>2 DEF rollback_transaction
<1>3. CASE handle_create_request(c)
  BY <1>3 DEF handle_create_request
<1>4. CASE handle_begin_request(c)
  BY <1>4 DEF handle_begin_request
<1>5. CASE commit_begins(c)
  BY <1>5 DEF commit_begins
<1>6. CASE commit_table(c)
  BY <1>6 DEF commit_table
<1>7. CASE commit_unlock(c)
  BY <1>7 DEF commit_unlock
<1>8. CASE commit_ends(c)
  BY <1>8 DEF commit_ends
<1>9. CASE set_checks(c)
  BY <1>9 DEF set_checks
<1>10. CASE set_trylock(c)
  BY <1>10 DEF set_trylock
<1>11. CASE set_wait(c)
  BY <1>11 DEF set_wait
<1>12. CASE set_find(c)
  BY <1>12 DEF set_find
<1>13. CASE set_store(c)
  BY <1>13 DEF set_store
<1>14. CASE set_commit(c)
  BY <1>14 DEF set_commit
<1>15. CASE set_unlock(c)
  BY <1>15 DEF set_unlock
<1>16. CASE set_end(c)
  BY <1>16 DEF set_end
<1>17. CASE set_unlock_again(c)
  BY <1>17 DEF set_unlock_again
<1>18. CASE get_checks(c)
  BY <1>18 DEF get_checks
<1>19. CASE get_wait(c)
  BY <1>19 DEF get_wait
<1>20. CASE get_find(c)
  BY <1>20 DEF get_find
<1>21. CASE get_read(c)
  BY <1>21 DEF get_read
<1>22. CASE get_end(c)
  BY <1>22 DEF get_end
<1>23. CASE get_unlock(c)
  BY <1>23 DEF get_unlock
<1>24. CASE get_miss(c)
  BY <1>24 DEF get_miss
<1>25. CASE get_miss_unlock(c)
  BY <1>25 DEF get_miss_unlock
<1>26. CASE get_miss_flag(c)
  BY <1>26 DEF get_miss_flag
<1> QED
  BY <1>1, <1>2, <1>3, <1>4, <1>5, <1>6, <1>7, <1>8, <1>9, <1>10, <1>11,
     <1>12, <1>13, <1>14, <1>15, <1>16, <1>17, <1>18, <1>19, <1>20, <1>21, <1>22,
     <1>23, <1>24, <1>25, <1>26 DEF Handle

\* A client that has exited stays so.
LEMMA ExitedStays ==
  ASSUME RunMappings, RunsInPlace, NEW c \in Conn, ClientStep(c), NEW d \in Conn, Exited(d)
  PROVE  Exited(d)'
<1> USE DEF RunMappings, StoreMappings
<1>1. CASE d # c
  BY <1>1, StepIsServed, ServeStill, HandleStill DEF Exited
<1>2. CASE d = c
  <2>1. \/ reply[c] \in {"FAILED", "ERROR"} /\ pc[c] \in {"ready", "except", "rollback_self"}
        \/ pc[c] = "done"
    BY <1>2 DEF Exited, RunsInPlace
  <2>2. CASE GiveUp(c)
    BY <1>2, <2>2 DEF GiveUp, BadInput, Silent, fdVars, Exited
  <2>3. CASE Handle(c)
    BY <1>2, <2>1, <2>3, HandleRun DEF Exited
  <2>4. ~Connect(c) /\ ~Login(c) /\ ~SendNext(c)
    BY <2>1 DEF Connect, Accept, Login, SendNext, NextRequest, handle_bye_request, delete_connection
  <2> QED
    BY <2>2, <2>3, <2>4 DEF ClientStep
<1> QED
  BY <1>1, <1>2

\* A run comes to a SET only where there is one in its list.
LEMMA RequestIsListed ==
  ASSUME RunMappings, NEW c \in Conn, NextRequest(c)
  PROVE  /\ pc[c] = "ready" /\ pc'[c] \notin {"unborn", "login"}
         /\ pc'[c] \in SetLabels => Sets(list[c], table_name'[c], key_name'[c])
         /\ reply'[c] \in {"FAILED", "ERROR"} =>
              pc'[c] \in {"ready", "done"} \/ reply'[c] = reply[c]
<1> DEFINE r == list[c][served[c] + 1]
<1> USE DEF RunMappings, StoreMappings, Goto, LocalStep, read_message, Silent, fdVars
<1>0. pc[c] = "ready" /\ served[c] + 1 \in 1 .. Len(list[c])
  BY DEF NextRequest
<1>1. CASE Receive(c) /\ pc'[c] = r.op /\ Arrives(c, r)
  <2>1. pc'[c] \in {"CREATE", "GET", "SET", "BEGIN", "COMMIT"} /\ reply'[c] = reply[c]
    BY <1>1 DEF Receive
  <2>2. pc'[c] = "SET" => Sets(list[c], table_name'[c], key_name'[c])
    BY <1>0, <1>1 DEF Arrives, Sets
  <2> QED
    BY <1>0, <2>1, <2>2
<1>2. CASE handle_push_request(c) \/ handle_top_request(c)
  BY <1>0, <1>2 DEF handle_push_request, handle_top_request
<1>3. CASE r.op \in ArithOps /\ arithmetic(c, r.op)
  BY <1>0, <1>3 DEF arithmetic, delete_connection
<1> QED
  BY <1>1, <1>2, <1>3 DEF NextRequest

\* What every run keeps to, it keeps to.
LEMMA KeepsRuns ==
  ASSUME RunMappings, RunsInPlace, list' = list, NEW c \in Conn, ClientStep(c)
  PROVE  RunsInPlace'
<1> USE DEF RunMappings, StoreMappings
<1>1. \A d \in Conn \ {c} : Still(d)
  BY StepIsServed, ServeStill, HandleStill
<1>2. ASSUME NEW d \in Conn, pc'[d] # "unborn", NEW e \in Earlier[d] PROVE Exited(e)'
  <2>1. e \in Conn
    BY ClientsAssumption
  <2>2. Exited(e)
    <3>1. CASE Connect(c) /\ d = c
      BY <3>1 DEF Connect
    <3>2. CASE pc[d] # "unborn"
      BY <3>2 DEF RunsInPlace
    <3>3. d = c /\ ~Connect(c) => pc[c] # "unborn"
      BY HandleRun DEF ClientStep, Login, SendNext, NextRequest, handle_bye_request,
          delete_connection, GiveUp, BadInput
    <3> QED
      BY <1>1, <1>2, <3>1, <3>2, <3>3
  <2> QED
    BY <2>1, <2>2, ExitedStays
<1>3. /\ pc'[c] \in {"unborn", "login"} => served'[c] = 0 /\ stack'[c] = << >> /\ reply'[c] = "none"
      /\ reply'[c] \in {"FAILED", "ERROR"} =>
           pc'[c] \in {"ready", "except", "rollback_self", "done"}
      /\ pc'[c] \in SetLabels => Sets(list[c], table_name'[c], key_name'[c])
  <2> USE DEF RunsInPlace
  <2>1. CASE Connect(c)
    BY <2>1 DEF Connect, Accept, Goto
  <2>2. CASE Login(c)
    BY <2>2 DEF Login, Goto
  <2>3. CASE SendNext(c)
    <3>1. CASE NextRequest(c)
      BY <2>3, <3>1, RequestIsListed DEF SendNext
    <3>2. CASE handle_bye_request(c)
      BY <3>2 DEF handle_bye_request, delete_connection, Goto
    <3> QED
      BY <2>3, <3>1, <3>2 DEF SendNext
  <2>4. CASE GiveUp(c)
    BY <2>4 DEF GiveUp, BadInput, Goto
  <2>5. CASE Handle(c)
    BY <2>5, HandleRun
  <2> QED
    BY <2>1, <2>2, <2>3, <2>4, <2>5 DEF ClientStep
<1> QED
  <2> SUFFICES ASSUME NEW d \in Conn
               PROVE  /\ pc'[d] \in {"unborn", "login"} =>
                           served'[d] = 0 /\ stack'[d] = << >> /\ reply'[d] = "none"
                      /\ reply'[d] \in {"FAILED", "ERROR"} =>
                           pc'[d] \in {"ready", "except", "rollback_self", "done"}
                      /\ pc'[d] \in SetLabels => Sets(list[d], table_name'[d], key_name'[d])
    BY <1>2 DEF RunsInPlace
  <2>1. CASE d = c
    BY <1>3, <2>1
  <2>2. CASE d # c
    BY <1>1, <2>2 DEF RunsInPlace
  <2> QED
    BY <2>1, <2>2

-----------------------------------------------------------------------------
(* The entry that is set.                                                  *)

\* The requests of set_value, with or without CREATE.
LEMMA SetterRequests ==
  ASSUME NEW s \in Conn, NEW t, NEW k, NEW v, OnlySetter(s, t, k, v)
  PROVE  LET last == Len(list[s])
         IN  /\ last \in {2, 3}
             /\ list[s][last] = SET(t, k) /\ list[s][last - 1] = PUSH(v)
             /\ last = 3 => list[s][1] = CREATE(t)
<1>1. CASE list[s] = set_value(t, k, v)
  BY <1>1 DEF set_value
<1>2. CASE list[s] = <<CREATE(t)>> \o set_value(t, k, v)
  <2>1. list[s] = <<CREATE(t)>> \o <<PUSH(v), SET(t, k)>>
    BY <1>2 DEF set_value
  <2>2. Len(list[s]) = 3
    BY <2>1
  <2>3. list[s][1] = CREATE(t) /\ list[s][2] = PUSH(v) /\ list[s][3] = SET(t, k)
    BY <2>1
  <2> QED
    BY <2>2, <2>3
<1> QED
  BY <1>1, <1>2 DEF OnlySetter

\* An entry that only s sets stays what it is once s has stored it.
LEMMA StoredStays ==
  ASSUME TypeOK, RunsInPlace, NEW s \in Conn, NEW t \in TableName, NEW k \in Key,
         NEW v \in PushTexts, OnlySetter(s, t, k, v), SetterInPlace(s, t, k, v),
         NEW c \in Conn, StoreEffect(c), Stored(t, k, v)
  PROVE  Stored(t, k, v)'
<1>1. CASE raced'
  BY <1>1 DEF Stored
<1>2. CASE Calm(c) \/ Creates(c) \/ Asks(c)
  BY <1>2, EntriesVisible DEF Stored, StoreEffect, Calm, Creates, Asks, TypeOK
<1>3. CASE Stores(c)
  <2> DEFINE u == table_name[c]
             j == key_name[c]
             w == Top(stack[c])
  <2>1. pc[c] \in Asking /\ tables' = tables /\ set(u, j, w)
    BY <1>3 DEF Stores
  <2>2. u \in TableName /\ j \in Key /\ stack[c] # << >>
    BY <2>1 DEF Asking, TypeOK, PlaceTypeOK, HandlersHaveArguments
  <2>3. w \in Value
    BY <2>2, PopIsStack DEF TypeOK, LinkTypeOK, IsEmpty
  <2>4. Visible(t)' = IF t = u THEN [Visible(u) EXCEPT ![j] = w] ELSE Visible(t)
    BY <2>1, <2>2, <2>3, SetVisible DEF TypeOK
  <2>5. t = u /\ k = j => w = v
    <3> SUFFICES ASSUME t = u, k = j PROVE w = v
      OBVIOUS
    <3>1. Sets(list[c], t, k)
      BY <2>1 DEF Asking, RunsInPlace
    <3>2. c = s
      BY <3>1 DEF OnlySetter
    <3>3. stack[c] = <<v>>
      BY <2>1, <3>2 DEF Asking, SetterInPlace
    <3> QED
      BY <3>3 DEF Top
  <2>6. Visible(t) \in Contents
    BY OverlayType DEF TypeOK, TableTypeOK, Visible
  <2> HIDE DEF u, j, w
  <2>7. Visible(t)[k] = v => Visible(t)'[k] = v
    BY <2>4, <2>5, <2>6 DEF Contents
  <2>8. raced => raced'
    BY DEF StoreEffect
  <2> QED
    BY <2>1, <2>7, <2>8 DEF Stored
<1> QED
  BY <1>1, <1>2, <1>3 DEF StoreEffect

-----------------------------------------------------------------------------
(* The run that sets it.                                                   *)

\* The next request of a run of set_value: CREATE, PUSH or SET.
LEMMA SetterRequest ==
  ASSUME RunMappings, NEW s \in Conn, NEW t, NEW k, NEW v, OnlySetter(s, t, k, v),
         NextRequest(s)
  PROVE  LET r == list[s][served[s] + 1]
         IN  \/ served[s] = Len(list[s]) - 1 /\ r = SET(t, k)
             \/ served[s] = Len(list[s]) - 2 /\ r = PUSH(v)
             \/ served[s] < Len(list[s]) - 2 /\ r = CREATE(t)
<1> DEFINE last == Len(list[s])
<1>1. last \in {2, 3} /\ served[s] \in Nat /\ served[s] < last
  BY SetterRequests, ClientConnectionAssumption DEF NextRequest, RunMappings
<1>2. CASE served[s] = last - 1
  BY <1>1, <1>2, SetterRequests
<1>3. CASE served[s] = last - 2
  <2>1. served[s] + 1 = last - 1
    BY <1>1, <1>3
  <2> QED
    BY <1>3, <2>1, SetterRequests
<1>4. CASE served[s] < last - 2
  <2>1. \A n \in Nat, m \in {2, 3} : n < m - 2 => n = 0 /\ m = 3
    OBVIOUS
  <2>2. served[s] = 0 /\ last = 3
    BY <1>1, <1>4, <2>1, Zenon
  <2> QED
    BY <1>4, <2>2, SetterRequests
<1> QED
  BY <1>1, <1>2, <1>3, <1>4

\* What reading the next request does.
LEMMA RequestEffect ==
  ASSUME RunMappings, NEW c \in Conn, NextRequest(c)
  PROVE  LET r == list[c][served[c] + 1]
         IN  /\ pc[c] = "ready" /\ served'[c] = served[c] + 1
             /\ \/ /\ r.op \in {"CREATE", "GET", "SET", "BEGIN", "COMMIT"}
                   /\ pc'[c] = r.op /\ table_name'[c] = r.table /\ key_name'[c] = r.key
                   /\ stack'[c] = stack[c] /\ reply'[c] = reply[c]
                   /\ m_client_fd'[c] = m_client_fd[c]
                \/ r.op = "PUSH" /\ pc'[c] = "ready" /\ stack'[c] = Push(stack[c], r.value)
                \/ /\ r.op = "TOP" /\ pc'[c] = "ready" /\ stack'[c] = stack[c]
                   /\ stack[c] # << >> => reply'[c] \in {"DATA", "none", reply[c]}
                \/ r.op \in ArithOps
<1> DEFINE r == list[c][served[c] + 1]
<1> USE DEF RunMappings, StoreMappings, Goto, LocalStep, read_message, Silent, fdVars
<1>1. CASE Receive(c) /\ pc'[c] = r.op /\ Arrives(c, r)
  BY <1>1 DEF Receive, Arrives
<1>2. CASE r.op = "PUSH" /\ handle_push_request(c) /\ stack'[c] = Push(stack[c], r.value)
  BY <1>2 DEF handle_push_request
<1>3. CASE r.op = "TOP" /\ handle_top_request(c)
  <2>1. stack[c] # << >> => reply'[c] \in {"DATA", "none", reply[c]}
    BY <1>3, SendReply DEF handle_top_request, IsEmpty
  <2> QED
    BY <1>3, <2>1 DEF handle_top_request
<1>4. CASE r.op \in ArithOps /\ arithmetic(c, r.op)
  BY <1>4 DEF arithmetic
<1> QED
  BY <1>1, <1>2, <1>3, <1>4 DEF NextRequest

\* What the thread of a run of set_value does on its own.
SetterEffect(s) ==
  \/ pc[s] = "except" /\ pc'[s] \in {"done", "rollback_self"} /\ stack'[s] = stack[s]
  \/ pc[s] = "CREATE" /\ pc'[s] = "ready" /\ stack'[s] = stack[s]
  \/ /\ pc[s] \in Storing /\ pc'[s] \in Storing /\ stack'[s] = stack[s]
     /\ table_name'[s] = table_name[s] /\ key_name'[s] = key_name[s]
  \/ /\ pc[s] \in Storing /\ pc'[s] = "ready"
     /\ reply'[s] \in {"FAILED", "ERROR"} \/ m_client_fd'[s] = NoFd \/ ~up'
  \/ /\ pc[s] = "set_store" /\ pc'[s] \in HasStored
     /\ table_name'[s] = table_name[s] /\ key_name'[s] = key_name[s]
     /\ raced' \/ (set(table_name[s], key_name[s], Top(stack[s])) /\ tables' = tables)
  \/ /\ pc[s] \in HasStored /\ pc'[s] \in HasStored
     /\ table_name'[s] = table_name[s] /\ key_name'[s] = key_name[s]
  \/ pc[s] \in HasStored /\ pc'[s] = "ready"

USE DEF SetterEffect

\* The steps of Handle have that effect.
LEMMA HandleSetter ==
  ASSUME RunMappings, NEW c \in Conn, Handle(c),
         pc[c] \in {"except", "CREATE"} \cup Storing \cup HasStored
  PROVE  SetterEffect(c)
<1>0. /\ send_message(c, "FAILED") => reply'[c] = "FAILED" \/ m_client_fd'[c] = NoFd \/ ~up'
      /\ send_and_close(c, "ERROR") => reply'[c] = "ERROR" \/ m_client_fd'[c] = NoFd \/ ~up'
  BY SendReply
<1> USE <1>0
        DEF RunMappings, StoreMappings, Goto, Within, Leave, Back, Fail, Finish, Silent, Access,
            serverVars, fdVars, argVars
<1>1. CASE CloseOnException(c)
  BY <1>1 DEF CloseOnException, delete_connection
<1>2. CASE rollback_transaction(c)
  BY <1>2 DEF rollback_transaction
<1>3. CASE handle_create_request(c)
  BY <1>3 DEF handle_create_request
<1>4. CASE handle_begin_request(c)
  BY <1>4 DEF handle_begin_request
<1>5. CASE commit_begins(c)
  BY <1>5 DEF commit_begins
<1>6. CASE commit_table(c)
  BY <1>6 DEF commit_table
<1>7. CASE commit_unlock(c)
  BY <1>7 DEF commit_unlock
<1>8. CASE commit_ends(c)
  BY <1>8 DEF commit_ends
<1>9. CASE set_checks(c)
  BY <1>9 DEF set_checks
<1>10. CASE set_trylock(c)
  BY <1>10 DEF set_trylock
<1>11. CASE set_wait(c)
  BY <1>11 DEF set_wait
<1>12. CASE set_find(c)
  BY <1>12 DEF set_find
<1>13. CASE set_store(c)
  BY <1>13 DEF set_store
<1>14. CASE set_commit(c)
  BY <1>14 DEF set_commit
<1>15. CASE set_unlock(c)
  BY <1>15 DEF set_unlock
<1>16. CASE set_end(c)
  BY <1>16 DEF set_end
<1>17. CASE set_unlock_again(c)
  BY <1>17 DEF set_unlock_again
<1>18. CASE get_checks(c)
  BY <1>18 DEF get_checks
<1>19. CASE get_wait(c)
  BY <1>19 DEF get_wait
<1>20. CASE get_find(c)
  BY <1>20 DEF get_find
<1>21. CASE get_read(c)
  BY <1>21 DEF get_read
<1>22. CASE get_end(c)
  BY <1>22 DEF get_end
<1>23. CASE get_unlock(c)
  BY <1>23 DEF get_unlock
<1>24. CASE get_miss(c)
  BY <1>24 DEF get_miss
<1>25. CASE get_miss_unlock(c)
  BY <1>25 DEF get_miss_unlock
<1>26. CASE get_miss_flag(c)
  BY <1>26 DEF get_miss_flag
<1> QED
  BY <1>1, <1>2, <1>3, <1>4, <1>5, <1>6, <1>7, <1>8, <1>9, <1>10, <1>11,
     <1>12, <1>13, <1>14, <1>15, <1>16, <1>17, <1>18, <1>19, <1>20, <1>21, <1>22,
     <1>23, <1>24, <1>25, <1>26 DEF Handle

\* The first value that is pushed is the only one on the stack.
LEMMA PushOnNothing == ASSUME NEW v \in Value PROVE Push(<< >>, v) = <<v>>
<1>1. <<v>> \in Seq(Value)
  OBVIOUS
<1> QED
  BY <1>1, ConcatEmptySeq DEF Push

\* The second one goes on top of it.
LEMMA PushOnOne == ASSUME NEW x, NEW v PROVE Push(<<x>>, v) = <<v, x>>
<1> DEFINE s == <<v>> \o <<x>>
<1>1. Len(s) = 2 /\ s \in Seq({v, x})
  OBVIOUS
<1>2. s[1] = v /\ s[2] = x
  OBVIOUS
<1> HIDE DEF s
<1>3. s = <<v, x>>
  BY <1>1, <1>2
<1> QED
  BY <1>3 DEF Push, s

\* The run of set_value keeps its place in its own steps.
LEMMA KeepsSetter ==
  ASSUME TypeOK, RunMappings, CommitFindsTables, RunsInPlace, list' = list, up,
         NEW s \in Conn, NEW t \in TableName, NEW k \in Key, NEW v \in PushTexts,
         OnlySetter(s, t, k, v), SetterInPlace(s, t, k, v), ClientStep(s), StoreEffect(s)
  PROVE  SetterInPlace(s, t, k, v)'
<1> DEFINE last == Len(list[s])
<1>1. last \in {2, 3} /\ served[s] \in Nat /\ served[s] <= last
  BY SetterRequests, ClientConnectionAssumption DEF SetterInPlace, RunMappings
<1>2. Stored(t, k, v) => Stored(t, k, v)'
  BY StoredStays
<1> USE DEF RunMappings, StoreMappings
<1>3. CASE Connect(s)
  <2>1. pc[s] = "unborn" /\ pc'[s] = "login" /\ served' = served /\ stack' = stack
    BY <1>3 DEF Connect, Accept, Goto
  <2> QED
    BY <1>1, <2>1 DEF SetterInPlace
<1>4. CASE Login(s)
  <2>1. pc[s] = "login" /\ pc'[s] = "ready" /\ served' = served /\ stack' = stack
    BY <1>4 DEF Login, Goto
  <2>2. served[s] = 0
    BY <2>1 DEF RunsInPlace
  <2>3. \A n \in {2, 3} : 0 < n - 1 /\ 0 # n - 1 /\ 0 # n
    OBVIOUS
  <2>4. served[s] < last - 1 /\ served[s] # last - 1 /\ served[s] # last
    BY <1>1, <2>2, <2>3, Zenon
  <2> QED
    BY <2>1, <2>4 DEF SetterInPlace
<1>5. CASE GiveUp(s)
  <2>1. /\ pc[s] \in {"login", "ready"} /\ pc'[s] = "except" /\ served' = served
        /\ stack' = stack /\ reply' = reply
    BY <1>5 DEF GiveUp, BadInput, Goto, Silent
  <2>2. reply[s] \in {"FAILED", "ERROR"}
    BY <1>5, <2>1 DEF GiveUp, Exited
  <2> QED
    BY <1>1, <2>1, <2>2 DEF SetterInPlace
<1>6. CASE SendNext(s) /\ NextRequest(s)
  <2> DEFINE r == list[s][served[s] + 1]
  <2>1. pc[s] = "ready" /\ served'[s] = served[s] + 1
    BY <1>6, RequestEffect
  <2>2. \/ /\ r.op \in {"CREATE", "GET", "SET", "BEGIN", "COMMIT"}
           /\ pc'[s] = r.op /\ table_name'[s] = r.table /\ key_name'[s] = r.key
           /\ stack'[s] = stack[s]
        \/ r.op = "PUSH" /\ pc'[s] = "ready" /\ stack'[s] = Push(stack[s], r.value)
        \/ r.op \in {"TOP"} \cup ArithOps
    BY <1>6, RequestEffect
  <2>3. \/ served[s] = last - 1 /\ r = SET(t, k)
        \/ served[s] = last - 2 /\ r = PUSH(v)
        \/ served[s] < last - 2 /\ r = CREATE(t)
    BY <1>6, SetterRequest
  <2> HIDE DEF r
  <2>4. CASE served[s] = last - 1 /\ r = SET(t, k)
    <3>1. r.op = "SET" /\ r.table = t /\ r.key = k
      BY <2>4 DEF SET, Req
    <3>2. pc'[s] = "SET" /\ table_name'[s] = t /\ key_name'[s] = k /\ stack'[s] = stack[s]
      BY <2>2, <3>1 DEF ArithOps
    <3> QED
      BY <1>1, <2>1, <2>4, <3>2 DEF SetterInPlace
  <2>5. CASE served[s] = last - 2 /\ r = PUSH(v)
    <3>1. r.op = "PUSH" /\ r.value = v
      BY <2>5 DEF PUSH, Req
    <3>2. pc'[s] = "ready" /\ stack'[s] = Push(stack[s], v)
      BY <2>2, <3>1 DEF ArithOps
    <3>3. stack[s] = << >>
      BY <1>1, <2>5 DEF SetterInPlace
    <3>4. stack'[s] = <<v>>
      BY <3>2, <3>3, PushOnNothing, ClientConnectionAssumption
    <3> QED
      BY <1>1, <2>1, <2>5, <3>2, <3>4 DEF SetterInPlace
  <2>6. CASE served[s] < last - 2 /\ r = CREATE(t)
    <3>1. r.op = "CREATE"
      BY <2>6 DEF CREATE, Req
    <3>2. pc'[s] = "CREATE" /\ stack'[s] = stack[s]
      BY <2>2, <3>1 DEF ArithOps
    <3> QED
      BY <1>1, <2>1, <2>6, <3>2 DEF SetterInPlace
  <2> QED
    BY <2>4, <2>5, <2>6, <2>3
<1>7. CASE SendNext(s) /\ served[s] = last /\ handle_bye_request(s)
  <2>1. /\ pc[s] = "ready" /\ pc'[s] = "done" /\ served' = served /\ stack' = stack
        /\ reply[s] \notin {"FAILED", "ERROR"}
    BY <1>7 DEF SendNext, handle_bye_request, delete_connection, Goto, LocalStep
  <2>2. reply'[s] = "OK" => m_client_fd[s] # NoFd
    BY <1>7, SendReply DEF handle_bye_request, delete_connection
  <2>3. reply'[s] = "OK" => Stored(t, k, v)
    BY <1>7, <2>1, <2>2 DEF SetterInPlace
  <2> QED
    BY <1>1, <1>2, <1>7, <2>1, <2>3 DEF SetterInPlace
<1>8. CASE Handle(s)
  <2>1. served' = served /\ RunEffect(s)
    BY <1>8, HandleStill, HandleRun
  <2>2. SetterEffect(s)
    BY <1>8, <2>1, HandleSetter DEF SetterInPlace
  <2>3. pc[s] = "set_store" /\ pc'[s] \in HasStored => Stored(t, k, v)'
    <3> SUFFICES ASSUME pc[s] = "set_store", pc'[s] \in HasStored, ~raced'
                 PROVE  Stored(t, k, v)'
      BY DEF Stored
    <3>1. set(table_name[s], key_name[s], Top(stack[s])) /\ tables' = tables
      BY <2>2
    <3>2. table_name[s] = t /\ key_name[s] = k /\ Top(stack[s]) = v
      BY DEF SetterInPlace, Top
    <3>3. t \in tables
      BY <3>2 DEF CommitFindsTables
    <3>4. v \in Value /\ TableTypeOK
      BY ClientConnectionAssumption DEF TypeOK
    <3>5. Visible(t)' = [Visible(t) EXCEPT ![k] = v]
      BY <3>1, <3>2, <3>4, SetVisible
    <3>6. Visible(t) \in Contents
      BY <3>4, OverlayType DEF TableTypeOK, Visible
    <3> QED
      BY <3>1, <3>3, <3>5, <3>6 DEF Stored, Contents
  <2> QED
    BY <1>1, <1>2, <2>1, <2>2, <2>3 DEF SetterInPlace
<1> QED
  BY <1>3, <1>4, <1>5, <1>6, <1>7, <1>8 DEF ClientStep, SendNext

-----------------------------------------------------------------------------
(* The run that gets it.                                                   *)

\* The labels of a GET up to the read of the table, and after it.
Getting == {"GET", "get_wait", "get_find", "get_read"}
HasGot == {"get_end", "get_unlock"}

\* What the thread of a run of get_value does on its own, if the entry is
\* there and no two threads race.
GetterEffect(g) ==
  \/ /\ pc[g] \in Getting /\ pc'[g] \in Getting /\ reply'[g] = reply[g]
     /\ stack'[g] = stack[g] /\ table_name'[g] = table_name[g] /\ key_name'[g] = key_name[g]
  \/ /\ pc[g] = "get_read" /\ pc'[g] = "get_end" /\ reply'[g] \in {"OK", "none", reply[g]}
     /\ stack'[g] = Push(stack[g], Visible(table_name[g])[key_name[g]])
  \/ /\ pc[g] \in HasGot /\ pc'[g] \in {"get_unlock", "ready"} /\ reply'[g] = reply[g]
     /\ stack'[g] = stack[g]

USE DEF Getting, HasGot, GetterEffect

\* The steps of Handle have that effect.
LEMMA HandleGetter ==
  ASSUME RunMappings, ~raced', NEW c \in Conn, Handle(c), pc[c] \in Getting \cup HasGot,
         pc[c] \in Getting =>
           table_name[c] \in tables /\ Visible(table_name[c])[key_name[c]] # Absent
  PROVE  GetterEffect(c)
<1>0. send_message(c, "OK") => reply'[c] \in {"OK", "none", reply[c]}
  BY SendReply
<1> USE <1>0
        DEF RunMappings, StoreMappings, Goto, Within, Leave, Back, Fail, Finish, Silent, Access,
            fdVars, argVars
<1>1. CASE CloseOnException(c)
  BY <1>1 DEF CloseOnException, delete_connection
<1>2. CASE rollback_transaction(c)
  BY <1>2 DEF rollback_transaction
<1>3. CASE handle_create_request(c)
  BY <1>3 DEF handle_create_request
<1>4. CASE handle_begin_request(c)
  BY <1>4 DEF handle_begin_request
<1>5. CASE commit_begins(c)
  BY <1>5 DEF commit_begins
<1>6. CASE commit_table(c)
  BY <1>6 DEF commit_table
<1>7. CASE commit_unlock(c)
  BY <1>7 DEF commit_unlock
<1>8. CASE commit_ends(c)
  BY <1>8 DEF commit_ends
<1>9. CASE set_checks(c)
  BY <1>9 DEF set_checks
<1>10. CASE set_trylock(c)
  BY <1>10 DEF set_trylock
<1>11. CASE set_wait(c)
  BY <1>11 DEF set_wait
<1>12. CASE set_find(c)
  BY <1>12 DEF set_find
<1>13. CASE set_store(c)
  BY <1>13 DEF set_store
<1>14. CASE set_commit(c)
  BY <1>14 DEF set_commit
<1>15. CASE set_unlock(c)
  BY <1>15 DEF set_unlock
<1>16. CASE set_end(c)
  BY <1>16 DEF set_end
<1>17. CASE set_unlock_again(c)
  BY <1>17 DEF set_unlock_again
<1>18. CASE get_checks(c)
  BY <1>18 DEF get_checks
<1>19. CASE get_wait(c)
  BY <1>19 DEF get_wait
<1>20. CASE get_find(c)
  BY <1>20 DEF get_find
<1>21. CASE get_read(c)
  BY <1>21 DEF get_read
<1>22. CASE get_end(c)
  BY <1>22 DEF get_end
<1>23. CASE get_unlock(c)
  BY <1>23 DEF get_unlock
<1>24. CASE get_miss(c)
  BY <1>24 DEF get_miss
<1>25. CASE get_miss_unlock(c)
  BY <1>25 DEF get_miss_unlock
<1>26. CASE get_miss_flag(c)
  BY <1>26 DEF get_miss_flag
<1> QED
  BY <1>1, <1>2, <1>3, <1>4, <1>5, <1>6, <1>7, <1>8, <1>9, <1>10, <1>11,
     <1>12, <1>13, <1>14, <1>15, <1>16, <1>17, <1>18, <1>19, <1>20, <1>21, <1>22,
     <1>23, <1>24, <1>25, <1>26 DEF Handle

\* The next request of a run of get_value: GET or TOP.
LEMMA GetterRequest ==
  ASSUME RunMappings, NEW g \in Conn, NEW t, NEW k, list[g] = get_value(t, k), NextRequest(g)
  PROVE  LET r == list[g][served[g] + 1]
         IN  \/ served[g] = 0 /\ r.op = "GET" /\ r.table = t /\ r.key = k
             \/ served[g] = 1 /\ r.op = "TOP"
<1>1. Len(list[g]) = 2 /\ list[g][1] = GET(t, k) /\ list[g][2] = Req("TOP")
  BY DEF get_value
<1>2. served[g] \in Nat /\ served[g] < 2
  BY <1>1 DEF NextRequest, RunMappings
<1>3. CASE served[g] = 0
  <2>1. GET(t, k).op = "GET" /\ GET(t, k).table = t /\ GET(t, k).key = k
    BY DEF GET, Req
  <2>2. list[g][served[g] + 1] = GET(t, k)
    BY <1>1, <1>3
  <2> QED
    BY <1>3, <2>1, <2>2, Zenon
<1>4. CASE served[g] = 1
  BY <1>1, <1>4 DEF Req
<1> QED
  BY <1>2, <1>3, <1>4

\* The run of get_value keeps its place in its own steps.
LEMMA KeepsGetter ==
  ASSUME TypeOK, RunMappings, RunsInPlace, ~raced', NEW g \in Conn, NEW t \in TableName,
         NEW k \in Key, NEW v \in PushTexts, list[g] = get_value(t, k),
         t \in tables, Visible(t)[k] = v, ClientStep(g),
         pc[g] = "unborn" \/ GetterInPlace(g, t, k, v)
  PROVE  GetterInPlace(g, t, k, v)'
<1> USE DEF RunMappings, StoreMappings
<1>1. Len(list[g]) = 2
  BY DEF get_value
<1>2. CASE Connect(g)
  <2>1. pc[g] = "unborn" /\ pc'[g] = "login" /\ reply' = reply
    BY <1>2 DEF Connect, Accept, Goto
  <2>2. reply[g] = "none"
    BY <2>1 DEF RunsInPlace
  <2> QED
    BY <2>1, <2>2 DEF GetterInPlace
<1>3. CASE Login(g)
  <2>1. pc[g] = "login" /\ pc'[g] = "ready" /\ served' = served /\ stack' = stack
    BY <1>3 DEF Login, Goto
  <2>2. served[g] = 0 /\ stack[g] = << >> /\ reply[g] = "none"
    BY <2>1 DEF RunsInPlace
  <2>3. reply'[g] \in {"OK", "none"}
    BY <1>3, <2>2, SendReply DEF Login
  <2> QED
    BY <2>1, <2>2, <2>3 DEF GetterInPlace
<1>4. CASE SendNext(g) /\ NextRequest(g)
  <2> DEFINE r == list[g][served[g] + 1]
  <2>1. pc[g] = "ready" /\ served'[g] = served[g] + 1
    BY <1>4, RequestEffect
  <2>2. \/ /\ r.op \in {"CREATE", "GET", "SET", "BEGIN", "COMMIT"}
           /\ pc'[g] = r.op /\ table_name'[g] = r.table /\ key_name'[g] = r.key
           /\ stack'[g] = stack[g] /\ reply'[g] = reply[g]
        \/ r.op = "PUSH"
        \/ /\ r.op = "TOP" /\ pc'[g] = "ready" /\ stack'[g] = stack[g]
           /\ stack[g] # << >> => reply'[g] \in {"DATA", "none", reply[g]}
        \/ r.op \in ArithOps
    BY <1>4, RequestEffect
  <2>3. \/ served[g] = 0 /\ r.op = "GET" /\ r.table = t /\ r.key = k
        \/ served[g] = 1 /\ r.op = "TOP"
    BY <1>4, GetterRequest
  <2>4. GetterInPlace(g, t, k, v)
    BY <2>1
  <2> HIDE DEF r
  <2>5. CASE served[g] = 0 /\ r.op = "GET" /\ r.table = t /\ r.key = k
    <3>1. /\ pc'[g] = "GET" /\ table_name'[g] = t /\ key_name'[g] = k
          /\ stack'[g] = stack[g] /\ reply'[g] = reply[g]
      BY <2>2, <2>5 DEF ArithOps
    <3>2. served'[g] = 1
      BY <2>1, <2>5
    <3> QED
      BY <2>1, <2>4, <2>5, <3>1, <3>2 DEF GetterInPlace
  <2>6. CASE served[g] = 1 /\ r.op = "TOP"
    <3>1. stack[g] = <<v>>
      BY <2>1, <2>4, <2>6 DEF GetterInPlace
    <3>2. pc'[g] = "ready" /\ stack'[g] = stack[g] /\ reply'[g] \in {"DATA", "none", reply[g]}
      BY <2>2, <2>6, <3>1 DEF ArithOps
    <3>3. served'[g] = 2
      BY <2>1, <2>6
    <3> QED
      BY <2>4, <3>1, <3>2, <3>3 DEF GetterInPlace
  <2> QED
    BY <2>3, <2>5, <2>6
<1>5. CASE SendNext(g) /\ served[g] = Len(list[g]) /\ handle_bye_request(g)
  <2>1. pc[g] = "ready" /\ pc'[g] = "done" /\ stack' = stack /\ served[g] = 2
    BY <1>1, <1>5 DEF handle_bye_request, delete_connection, Goto
  <2>2. reply'[g] \in {"OK", "none", reply[g]}
    BY <1>5, SendReply DEF handle_bye_request, delete_connection
  <2> QED
    BY <2>1, <2>2 DEF GetterInPlace
<1>6. CASE GiveUp(g)
  <2>1. pc[g] \in {"login", "ready"} /\ reply[g] \in {"FAILED", "ERROR"}
    BY <1>6 DEF GiveUp, BadInput, Exited
  <2> QED
    BY <2>1 DEF GetterInPlace
<1>7. CASE Handle(g)
  <2>1. served' = served /\ RunEffect(g) /\ GetterInPlace(g, t, k, v)
    BY <1>7, HandleStill, HandleRun
  <2>2. v \in Value /\ v # Absent
    BY ClientConnectionAssumption, TableAssumption
  <2>3. pc[g] \in Getting => table_name[g] = t /\ key_name[g] = k /\ stack[g] = << >>
    BY <2>1 DEF GetterInPlace
  <2>4. pc[g] \in Getting \cup HasGot
    BY <2>1 DEF GetterInPlace
  <2>5. GetterEffect(g)
    BY <1>7, <2>2, <2>3, <2>4, HandleGetter
  <2>6. pc'[g] = "get_end" => stack'[g] = <<v>>
    BY <2>2, <2>3, <2>5, PushOnNothing
  <2> QED
    BY <2>1, <2>5, <2>6 DEF GetterInPlace
<1> QED
  BY <1>2, <1>3, <1>4, <1>5, <1>6, <1>7 DEF ClientStep, SendNext

-----------------------------------------------------------------------------
(* Both together.                                                          *)

\* A client that has exited does not succeed afterwards.
LEMMA ExitIsFinal ==
  ASSUME RunMappings, RunsInPlace, NEW c \in Conn, ClientStep(c), NEW s \in Conn,
         Exited(s), pc'[s] = "done", reply'[s] = "OK"
  PROVE  pc[s] = "done" /\ reply[s] = "OK" /\ s # c
<1> USE DEF RunMappings, StoreMappings
<1>1. CASE s # c
  BY <1>1, StepIsServed, ServeStill, HandleStill
<1>2. CASE s = c
  <2>1. \/ reply[c] \in {"FAILED", "ERROR"} /\ pc[c] \in {"ready", "except", "rollback_self"}
        \/ pc[c] = "done"
    BY <1>2 DEF Exited, RunsInPlace
  <2>2. ~GiveUp(c)
    BY <1>2 DEF GiveUp, BadInput, Goto
  <2>3. ~Handle(c)
    BY <1>2, <2>1, HandleRun
  <2>4. ~Connect(c) /\ ~Login(c) /\ ~SendNext(c)
    BY <2>1 DEF Connect, Accept, Login, SendNext, NextRequest, handle_bye_request, delete_connection
  <2> QED
    BY <2>2, <2>3, <2>4 DEF ClientStep
<1> QED
  BY <1>1, <1>2

\* A run of set_value keeps its place in the steps of others.
LEMMA KeepsOtherSetter ==
  ASSUME NEW s \in Conn, NEW t, NEW k, NEW v, SetterInPlace(s, t, k, v), Still(s), up,
         list' = list, Stored(t, k, v) => Stored(t, k, v)'
  PROVE  SetterInPlace(s, t, k, v)'
BY DEF SetterInPlace

\* A step of a session keeps what is said of all pairs of runs.
LEMMA KeepsSetThenGet ==
  ASSUME Safe, RunMappings, RunsInPlace, SetThenGet, list' = list, up,
         NEW c \in Conn, ClientStep(c)
  PROVE  SetThenGet'
<1>1. TypeOK /\ CommitFindsTables /\ HandlersHaveArguments /\ StoreMappings
  BY DEF Safe, TypeOK, PlaceTypeOK, RunMappings
<1>2. StoreEffect(c)
  BY <1>1, StepIsServed, ServeStore, HandleStore
<1>3. \A d \in Conn \ {c} : Still(d)
  BY StepIsServed, ServeStill, HandleStill
<1> SUFFICES ASSUME NEW s \in Conn, NEW t \in TableName, NEW k \in Key, NEW v \in PushTexts,
                    OnlySetter(s, t, k, v)
             PROVE  /\ SetterInPlace(s, t, k, v)'
                    /\ \A g \in Conn :
                         /\ s \in Earlier[g] \cap Succeeded' /\ list[g] = get_value(t, k)
                         /\ pc'[g] # "unborn" /\ ~raced'
                         => GetterInPlace(g, t, k, v)'
  BY DEF SetThenGet, OnlySetter
<1>4. SetterInPlace(s, t, k, v)
  BY DEF SetThenGet
<1>5. Stored(t, k, v) => Stored(t, k, v)'
  BY <1>1, <1>2, <1>4, StoredStays
<1>6. SetterInPlace(s, t, k, v)'
  <2>1. CASE c = s
    BY <1>1, <1>2, <1>4, <2>1, KeepsSetter
  <2>2. CASE c # s
    BY <1>3, <1>4, <1>5, <2>2, KeepsOtherSetter
  <2> QED
    BY <2>1, <2>2
<1>7. ASSUME NEW g \in Conn, s \in Earlier[g] \cap Succeeded', list[g] = get_value(t, k),
             pc'[g] # "unborn", ~raced'
      PROVE  GetterInPlace(g, t, k, v)'
  <2>1. pc'[s] = "done" /\ reply'[s] = "OK"
    BY <1>7 DEF Succeeded
  <2>2. pc[g] = "unborn" => c = g /\ Connect(g)
    <3> SUFFICES ASSUME pc[g] = "unborn" PROVE c = g /\ Connect(g)
      OBVIOUS
    <3>1. c = g
      BY <1>3, <1>7
    <3> QED
      BY <3>1, HandleRun DEF ClientStep, Login, SendNext, NextRequest, handle_bye_request,
          delete_connection, GiveUp, BadInput
  <2>3. Exited(s)
    BY <1>7, <2>2 DEF Connect, RunsInPlace
  <2>4. s \in Succeeded /\ pc[s] = "done" /\ reply[s] = "OK"
    BY <2>1, <2>3, ExitIsFinal DEF Succeeded
  <2>5. ~raced /\ t \in tables /\ Visible(t)[k] = v
    <3>1. Stored(t, k, v)
      BY <1>4, <2>4 DEF SetterInPlace
    <3>2. ~raced
      BY <1>2, <1>7 DEF StoreEffect
    <3> QED
      BY <3>1, <3>2 DEF Stored
  <2>6. pc[g] = "unborn" \/ GetterInPlace(g, t, k, v)
    BY <1>7, <2>4, <2>5 DEF SetThenGet
  <2>7. CASE c = g
    BY <1>1, <1>7, <2>5, <2>6, <2>7, KeepsGetter
  <2>8. CASE c # g
    <3>1. Still(g) /\ GetterInPlace(g, t, k, v)
      BY <1>3, <2>2, <2>6, <2>8
    <3> QED
      BY <3>1 DEF GetterInPlace
  <2> QED
    BY <2>7, <2>8
<1> QED
  BY <1>6, <1>7

\* The invariant holds of the initial states.
LEMMA InitRuns == Init /\ list \in Programs => RunInv
<1> SUFFICES ASSUME Init PROVE RunInv
  OBVIOUS
<1>1. Safe
  BY InitSafe
<1>2. RunsInPlace
  BY DEF Init, RunsInPlace
<1>3. ASSUME NEW s \in Conn, NEW t \in TableName, NEW k \in Key, NEW v \in PushTexts,
             OnlySetter(s, t, k, v)
      PROVE  SetterInPlace(s, t, k, v)
  <2>1. Len(list[s]) \in {2, 3}
    BY <1>3, SetterRequests
  <2>2. \A n \in {2, 3} : 0 <= n /\ 0 < n - 1 /\ 0 # n - 1 /\ 0 # n
    OBVIOUS
  <2>3. pc[s] = "unborn" /\ served[s] = 0 /\ stack[s] = << >>
    BY DEF Init
  <2> QED
    BY <2>1, <2>2, <2>3 DEF SetterInPlace
<1>4. \A g \in Conn : pc[g] = "unborn"
  BY DEF Init
<1> QED
  BY <1>1, <1>2, <1>3, <1>4 DEF RunInv, SetThenGet

\* Every step preserves it.
LEMMA NextRuns ==
  ASSUME RunInv, [ClientsNext]_<<vars, list>> PROVE RunInv'
<1>1. list' = list /\ [Next]_vars
  BY ClientsStep
<1>2. Safe' /\ RunMappings /\ TypeOK
  BY <1>1, NextSafe, TypeRunMappings DEF RunInv, Safe
<1>3. CASE up /\ \E c \in Conn : ClientStep(c)
  BY <1>1, <1>2, <1>3, KeepsRuns, KeepsSetThenGet DEF RunInv
<1>4. CASE Segfault \/ UNCHANGED vars
  <2>1. /\ UNCHANGED <<pc, served, stack, reply, m_client_fd, table_name, key_name, tables,
                       m_data, m_temporary_changes>>
        /\ raced' = raced \/ raced'
        /\ up' = up \/ ~up'
    BY <1>4 DEF Segfault, vars, tableVars, serverVars, fdVars, argVars
  <2>2. RunsInPlace'
    BY <1>1, <2>1 DEF RunInv, RunsInPlace, Exited
  <2>3. \A t \in TableName, k \in Key, v \in PushTexts : Stored(t, k, v) => Stored(t, k, v)'
    BY <2>1 DEF Stored, Visible
  <2>4. SetThenGet'
    BY <1>1, <2>1, <2>3
    DEF RunInv, SetThenGet, OnlySetter, Succeeded, SetterInPlace, GetterInPlace
  <2> QED
    BY <1>2, <2>2, <2>4 DEF RunInv
<1> QED
  BY <1>3, <1>4, ClientsStep

\* GET FINDS WHAT WAS SET.  Whatever the other runs are and do, the heap and
\* the faults, until two threads collide on the maps of a table: if one run of
\* set_value on an entry is the only one that sets it, and has succeeded, then
\* a get_value on the entry that starts after it is not refused, and prints
\* the value that was set.
THEOREM GetFindsWhatWasSet == ClientsSpec => []GetsWhatWasSet
<1>1. Init /\ list \in Programs => RunInv
  BY InitRuns
<1>2. RunInv /\ [ClientsNext]_<<vars, list>> => RunInv'
  BY NextRuns
<1>3. RunInv => GetsWhatWasSet
  <2> SUFFICES ASSUME RunInv, ~raced, NEW g \in Conn, NEW s \in Earlier[g] \cap Succeeded,
                      NEW t \in TableName, NEW k \in Key, NEW v \in PushTexts,
                      list[g] = get_value(t, k), OnlySetter(s, t, k, v)
               PROVE  reply[g] # "FAILED" /\ (g \in Succeeded => stack[g] = <<v>>)
    BY DEF GetsWhatWasSet
  <2>1. s \in Conn
    BY DEF Succeeded
  <2>2. CASE pc[g] = "unborn"
    BY <2>2 DEF RunInv, RunsInPlace, Succeeded
  <2>3. CASE pc[g] # "unborn"
    <3>1. GetterInPlace(g, t, k, v)
      BY <2>1, <2>3 DEF RunInv, SetThenGet
    <3> QED
      BY <3>1 DEF GetterInPlace, Succeeded
  <2> QED
    BY <2>2, <2>3
<1> QED
  BY <1>1, <1>2, <1>3, PTL DEF ClientsSpec

-----------------------------------------------------------------------------
(* The count of an entry that only runs of incr_value set.                 *)

\* There are no more runs than an int can count.
FewRuns == IsFiniteSet(Conn) /\ Cardinality(Conn) <= IntMax

Tries(t, k) == Cardinality(Attempted(t, k))
Counted(t, k) == Visible(t)[k] >= 1

\* The labels of a COMMIT.
Committing == {"COMMIT", "commit", "commit_unlock"}

\* How many requests of the run c come before its GET, and how many the server
\* has read from there on: 1 is the GET, 2 PUSH, 3 ADD, 4 SET, and 5 COMMIT.
First(c) == IF Len(list[c]) = 4 THEN 0 ELSE 1
Stage(c) == served[c] - First(c)

\* A run of incr_value computes with a count that has been tried before, sets
\* one that is tried by then, and leaves a count unless it was refused or its
\* client is gone.
IncrementInPlace(c, t, k) ==
  /\ served[c] <= Len(list[c])
  /\ pc[c] \in {"unborn", "login", "ready", "except", "rollback_self", "done", "BEGIN"}
               \cup Getting \cup HasGot \cup Storing \cup HasStored \cup Committing
  /\ Stage(c) <= 0 => stack[c] = << >>
  /\ pc[c] = "BEGIN" => Stage(c) = 0
  /\ pc[c] \in Getting =>
       Stage(c) = 1 /\ stack[c] = << >> /\ table_name[c] = t /\ key_name[c] = k
  /\ pc[c] \in HasGot => Stage(c) = 1
  /\ pc[c] \in HasGot \cup {"ready"} /\ Stage(c) = 1 =>
       \E x \in 0 .. Tries(t, k) : stack[c] = <<x>>
  /\ pc[c] = "ready" /\ Stage(c) = 2 => \E x \in 0 .. Tries(t, k) : stack[c] = <<1, x>>
  /\ pc[c] = "ready" /\ Stage(c) = 3 => \E y \in 1 .. Tries(t, k) + 1 : stack[c] = <<y>>
  /\ pc[c] \in Storing => /\ Stage(c) = 4 /\ table_name[c] = t /\ key_name[c] = k
                          /\ \E y \in 1 .. Tries(t, k) : stack[c] = <<y>>
  /\ pc[c] \in HasStored => Stage(c) = 4 /\ Counted(t, k)
  /\ pc[c] \in Committing => Stage(c) = 5 /\ (Counted(t, k) \/ m_client_fd[c] = NoFd)
  /\ pc[c] = "ready" /\ Stage(c) >= 4 /\ up =>
       Counted(t, k) \/ reply[c] \in {"FAILED", "ERROR"} \/ m_client_fd[c] = NoFd
  /\ pc[c] = "done" /\ reply[c] = "OK" => Counted(t, k)
  /\ pc[c] \in {"except", "rollback_self"} => reply[c] \in {"FAILED", "ERROR"}

\* The entry is there, and counts what has been tried.
CountInPlace(t, k) == t \in tables /\ Visible(t)[k] \in 0 .. Tries(t, k)

CountsInPlace ==
  ~raced => \A t \in TableName, k \in Key : OnlyIncremented(t, k) =>
    CountInPlace(t, k) /\ \A c \in Increments(t, k) : IncrementInPlace(c, t, k)

\* The inductive invariant of the increments.
IncrementInv == Safe /\ RunsInPlace /\ CountsInPlace

USE DEF Committing

\* The requests of incr_value, from First on.
LEMMA IncrementRequests ==
  ASSUME NEW t, NEW k, NEW c \in Increments(t, k)
  PROVE  LET h == First(c)
         IN  /\ h \in {0, 1} /\ Len(list[c]) = 4 + 2 * h
             /\ list[c][h + 1] = GET(t, k) /\ list[c][h + 2] = PUSH(1)
             /\ list[c][h + 3] = Req("ADD") /\ list[c][h + 4] = SET(t, k)
             /\ h = 1 => list[c][1] = Req("BEGIN") /\ list[c][6] = Req("COMMIT")
<1>1. CASE list[c] = incr_value(t, k)
  BY <1>1 DEF incr_value, First
<1>2. CASE list[c] = incr_value_transaction(t, k)
  <2>1. list[c] = <<Req("BEGIN")>> \o <<GET(t, k), PUSH(1), Req("ADD"), SET(t, k)>>
                  \o <<Req("COMMIT")>>
    BY <1>2 DEF incr_value_transaction, incr_value
  <2>2. Len(list[c]) = 6
    BY <2>1
  <2>3. list[c][1] = Req("BEGIN") /\ list[c][2] = GET(t, k) /\ list[c][3] = PUSH(1)
    BY <2>1
  <2>4. list[c][4] = Req("ADD") /\ list[c][5] = SET(t, k) /\ list[c][6] = Req("COMMIT")
    BY <2>1
  <2>5. First(c) = 1
    BY <2>2 DEF First
  <2> QED
    BY <2>2, <2>3, <2>4, <2>5
<1> QED
  BY <1>1, <1>2 DEF Increments

\* The next request of a run of incr_value.
LEMMA IncrementRequest ==
  ASSUME RunMappings, NEW t, NEW k, NEW c \in Increments(t, k), NextRequest(c)
  PROVE  LET r == list[c][served[c] + 1]
         IN  \/ Stage(c) = -1 /\ r = Req("BEGIN")
             \/ Stage(c) = 0 /\ r = GET(t, k)
             \/ Stage(c) = 1 /\ r = PUSH(1)
             \/ Stage(c) = 2 /\ r = Req("ADD")
             \/ Stage(c) = 3 /\ r = SET(t, k)
             \/ Stage(c) = 4 /\ r = Req("COMMIT")
<1> DEFINE h == First(c)
<1>1. h \in {0, 1} /\ Len(list[c]) = 4 + 2 * h
  BY IncrementRequests
<1>2. served[c] \in Nat /\ served[c] < 4 + 2 * h
  BY <1>1 DEF NextRequest, RunMappings, Increments
<1>3. served[c] \in {h - 1, h, h + 1, h + 2, h + 3, h + 4}
  BY <1>1, <1>2
<1>4. served[c] = h - 1 \/ served[c] = h + 4 => h = 1
  BY <1>1, <1>2
<1>5. CASE served[c] = h - 1 \/ served[c] = h + 4
  <2>1. h = 1 /\ (served[c] = 0 \/ served[c] = 5)
    BY <1>4, <1>5
  <2>2. list[c][1] = Req("BEGIN") /\ list[c][6] = Req("COMMIT")
    BY <2>1, IncrementRequests
  <2> QED
    BY <2>1, <2>2 DEF Stage
<1>6. CASE served[c] \in {h, h + 1, h + 2, h + 3}
  <2>1. /\ list[c][h + 1] = GET(t, k) /\ list[c][h + 2] = PUSH(1)
        /\ list[c][h + 3] = Req("ADD") /\ list[c][h + 4] = SET(t, k)
    BY IncrementRequests
  <2>2. Stage(c) = served[c] - h
    BY DEF Stage
  <2> HIDE DEF h
  <2> QED
    BY <1>1, <1>6, <2>1, <2>2
<1> QED
  BY <1>3, <1>5, <1>6

\* A run has tried once its SET has been read, and not before.
LEMMA SetIsTry ==
  ASSUME RunMappings, NEW t, NEW k, NEW c \in Increments(t, k)
  PROVE  /\ Stage(c) <= 3 => c \notin Attempted(t, k)
         /\ list' = list /\ Stage(c) = 3 /\ served'[c] = served[c] + 1
              => c \in Attempted(t, k)'
<1> DEFINE h == First(c)
<1>1. h \in {0, 1} /\ served[c] \in Nat
  BY IncrementRequests DEF RunMappings, Increments
<1>2. SET(t, k).op = "SET"
  BY DEF SET, Req
<1>3. \A i \in 1 .. h + 3 : list[c][i].op # "SET"
  <2>1. /\ GET(t, k).op # "SET" /\ PUSH(1).op # "SET" /\ Req("ADD").op # "SET"
        /\ Req("BEGIN").op # "SET"
    BY DEF GET, PUSH, Req
  <2>2. /\ list[c][h + 1] = GET(t, k) /\ list[c][h + 2] = PUSH(1)
        /\ list[c][h + 3] = Req("ADD") /\ (h = 1 => list[c][1] = Req("BEGIN"))
    BY IncrementRequests
  <2> HIDE DEF h
  <2>3. \A i \in 1 .. h + 3 : i \in {h + 1, h + 2, h + 3} \/ (h = 1 /\ i = 1)
    BY <1>1
  <2> QED
    BY <2>1, <2>2, <2>3
<1>4. ASSUME Stage(c) <= 3 PROVE c \notin Attempted(t, k)
  <2>1. \A i \in 1 .. served[c] : i \in 1 .. h + 3
    BY <1>1, <1>4 DEF Stage
  <2> QED
    BY <1>3, <2>1 DEF Attempted
<1>5. ASSUME list' = list, Stage(c) = 3, served'[c] = served[c] + 1
      PROVE  c \in Attempted(t, k)'
  <2>1. h + 4 \in 1 .. served'[c]
    BY <1>1, <1>5 DEF Stage
  <2>2. list'[c][h + 4].op = "SET"
    BY <1>2, <1>5, IncrementRequests
  <2>3. c \in Increments(t, k)'
    BY <1>5 DEF Increments, incr_value, incr_value_transaction
  <2> HIDE DEF h
  <2> QED
    BY <2>1, <2>2, <2>3 DEF Attempted
<1> QED
  BY <1>4, <1>5

\* Only so many runs can have tried.
LEMMA TriesBounded ==
  ASSUME FewRuns, NEW t, NEW k
  PROVE  /\ Tries(t, k) \in Nat /\ Tries(t, k) <= IntMax
         /\ \A c \in Conn : c \notin Attempted(t, k) => Tries(t, k) < IntMax
<1>1. Attempted(t, k) \in SUBSET Conn
  BY DEF Attempted, Increments
<1>2. /\ IsFiniteSet(Attempted(t, k)) /\ Tries(t, k) <= Cardinality(Conn)
      /\ Tries(t, k) = Cardinality(Conn) => Attempted(t, k) = Conn
  BY <1>1, FS_Subset DEF FewRuns, Tries
<1>3. Tries(t, k) \in Nat /\ Cardinality(Conn) \in Nat
  BY <1>2, FS_CardinalityType DEF FewRuns, Tries
<1> QED
  BY <1>2, <1>3, ValueAssumption DEF FewRuns

\* What has been tried stays tried.
LEMMA TriesGrow ==
  ASSUME FewRuns, list' = list, NEW t, NEW k,
         served \in [Conn -> Nat], served' \in [Conn -> Nat],
         \A d \in Conn : served[d] <= served'[d]
  PROVE  /\ Tries(t, k) \in Nat /\ Tries(t, k)' \in Nat /\ Tries(t, k) <= Tries(t, k)'
         /\ \A c \in Attempted(t, k)' :
              c \notin Attempted(t, k) => Tries(t, k) + 1 <= Tries(t, k)'
<1>1. Increments(t, k)' = Increments(t, k) /\ Increments(t, k) \subseteq Conn
  BY DEF Increments, incr_value, incr_value_transaction
<1>2. Attempted(t, k) \subseteq Attempted(t, k)' /\ Attempted(t, k)' \in SUBSET Conn
  <2>1. \A d \in Conn : 1 .. served[d] \subseteq 1 .. served'[d]
    OBVIOUS
  <2> QED
    BY <1>1, <2>1 DEF Attempted
<1>3. IsFiniteSet(Attempted(t, k)')
  BY <1>2, FS_Subset DEF FewRuns
<1>4. /\ IsFiniteSet(Attempted(t, k)) /\ Tries(t, k) <= Tries(t, k)'
      /\ Tries(t, k) = Tries(t, k)' => Attempted(t, k) = Attempted(t, k)'
  BY <1>2, <1>3, FS_Subset DEF Tries
<1>5. Tries(t, k) \in Nat /\ Tries(t, k)' \in Nat
  BY <1>3, <1>4, FS_CardinalityType DEF Tries
<1> QED
  BY <1>4, <1>5

\* A step of c reads its next request or none, and nothing is read for others.
LEMMA ServedGrows ==
  ASSUME RunMappings, NEW c \in Conn, ClientStep(c)
  PROVE  /\ \A d \in Conn \ {c} : served'[d] = served[d]
         /\ served'[c] = served[c] \/ (NextRequest(c) /\ served'[c] = served[c] + 1)
<1> USE DEF RunMappings, StoreMappings
<1>1. \A d \in Conn \ {c} : served'[d] = served[d]
  BY StepIsServed, ServeStill, HandleStill
<1>2. CASE Connect(c) \/ Login(c) \/ GiveUp(c)
  BY <1>2 DEF Connect, Accept, Login, GiveUp, BadInput
<1>3. CASE SendNext(c)
  <2>1. CASE NextRequest(c)
    <3>1. served'[c] = served[c] + 1
      BY <2>1, RequestEffect
    <3> QED
      BY <1>1, <2>1, <3>1
  <2>2. CASE handle_bye_request(c)
    BY <2>2 DEF handle_bye_request, delete_connection
  <2> QED
    BY <1>3, <2>1, <2>2 DEF SendNext
<1>4. CASE Handle(c)
  BY <1>4, HandleStill
<1> QED
  BY <1>1, <1>2, <1>3, <1>4 DEF ClientStep

\* The count of an entry that only increments set stays within what has been
\* tried, and a count once left stays.
LEMMA CountStays ==
  ASSUME FewRuns, TypeOK, RunsInPlace, list' = list, ~raced', NEW c \in Conn, ClientStep(c),
         StoreEffect(c), NEW t \in TableName, NEW k \in Key, OnlyIncremented(t, k),
         CountInPlace(t, k), Tries(t, k) \in Nat, Tries(t, k)' \in Nat,
         Tries(t, k) <= Tries(t, k)',
         c \in Increments(t, k) => IncrementInPlace(c, t, k)
  PROVE  CountInPlace(t, k)' /\ (Counted(t, k) => Counted(t, k)')
<1> DEFINE n == Tries(t, k)
           m == Tries(t, k)'
<1>1. n \in Nat /\ m \in Nat /\ n <= m /\ t \in tables /\ Visible(t)[k] \in 0 .. n
  BY DEF CountInPlace
<1> HIDE DEF n, m
<1>2. CASE Calm(c) \/ Creates(c) \/ Asks(c)
  <2>1. Visible(t)' = Visible(t) /\ t \in tables'
    BY <1>1, <1>2, EntriesVisible DEF Calm, Creates, Asks, TypeOK
  <2>2. Visible(t)'[k] \in 0 .. m
    BY <1>1, <2>1
  <2> QED
    BY <2>1, <2>2 DEF CountInPlace, Counted, m
<1>3. CASE Stores(c)
  <2> DEFINE u == table_name[c]
             j == key_name[c]
             w == Top(stack[c])
  <2>1. pc[c] \in Asking /\ tables' = tables /\ set(u, j, w)
    BY <1>3 DEF Stores
  <2>2. u \in TableName /\ j \in Key /\ stack[c] # << >>
    BY <2>1 DEF Asking, TypeOK, PlaceTypeOK, HandlersHaveArguments
  <2>3. w \in Value
    BY <2>2, PopIsStack DEF TypeOK, LinkTypeOK, IsEmpty
  <2>4. Visible(t)' = IF t = u THEN [Visible(u) EXCEPT ![j] = w] ELSE Visible(t)
    BY <2>1, <2>2, <2>3, SetVisible DEF TypeOK
  <2>5. t = u /\ k = j => w \in 1 .. n
    <3> SUFFICES ASSUME t = u, k = j PROVE w \in 1 .. n
      OBVIOUS
    <3>1. Sets(list[c], t, k)
      BY <2>1 DEF Asking, RunsInPlace
    <3>2. c \in Increments(t, k)
      BY <3>1 DEF OnlyIncremented
    <3>3. PICK y \in 1 .. n : stack[c] = <<y>>
      BY <2>1, <3>2 DEF Asking, IncrementInPlace, n
    <3> QED
      BY <3>3 DEF Top
  <2>6. Visible(t) \in Contents
    BY OverlayType DEF TypeOK, TableTypeOK, Visible
  <2> HIDE DEF u, j, w
  <2>7. Visible(t)'[k] = Visible(t)[k] \/ Visible(t)'[k] \in 1 .. n
    BY <2>4, <2>5, <2>6 DEF Contents
  <2>8. Visible(t)'[k] \in 0 .. m /\ (Visible(t)[k] >= 1 => Visible(t)'[k] >= 1)
    BY <1>1, <2>7
  <2> QED
    BY <1>1, <2>1, <2>8 DEF CountInPlace, Counted, m
<1> QED
  BY <1>2, <1>3 DEF StoreEffect

\* A small sum is what it is.
LEMMA SmallWrap == ASSUME NEW x \in Nat, x <= IntMax PROVE Wrap(x) = x
<1> DEFINE width == IntMax - IntMin + 1
<1>1. IntMax \in Nat /\ IntMin \in Int /\ width \in Nat /\ x - IntMin \in 0 .. width - 1
  BY ValueAssumption DEF IntMin
<1> HIDE DEF width
<1>2. \A y \in 0 .. width - 1 : y % width = y
  BY <1>1
<1>3. (x - IntMin) % width = x - IntMin
  BY <1>1, <1>2
<1> QED
  BY <1>1, <1>3 DEF Wrap, width

\* ADD replaces the pushed 1 and the count by their sum.
LEMMA AddEffect ==
  ASSUME RunMappings, NEW c \in Conn, NextRequest(c), list[c][served[c] + 1] = Req("ADD"),
         NEW x \in Nat, x < IntMax, stack[c] = <<1, x>>
  PROVE  pc'[c] = "ready" /\ stack'[c] = <<x + 1>>
<1>1. list[c][served[c] + 1].op = "ADD"
  BY DEF Req
<1>2. arithmetic(c, "ADD") /\ pc[c] = "ready"
  BY <1>1 DEF NextRequest, Receive, Goto, RunMappings, StoreMappings
<1>3. 1 \in IntRange /\ x \in IntRange /\ x + 1 \in IntRange
  BY ValueAssumption DEF IntRange, IntMin
<1>4. Top(stack[c]) = 1 /\ Pop(stack[c]) = <<x>> /\ Top(<<x>>) = x /\ Pop(<<x>>) = << >>
  BY DEF Top, Pop
<1>5. ~IsEmpty(stack[c]) /\ ~IsEmpty(<<x>>)
  BY DEF IsEmpty
<1>6. 1 \notin NonNumeric \cup OutOfRange /\ x \notin NonNumeric \cup OutOfRange
  BY <1>3, ValueAssumption
<1>7. Operand(stack[c]) = "OK" /\ Operand(<<x>>) = "OK"
  BY <1>4, <1>5, <1>6 DEF Operand
<1>8. Compute("ADD", x, 1) = x + 1
  BY SmallWrap, ValueAssumption DEF Compute
<1>9. Push(<< >>, x + 1) = <<x + 1>>
  BY <1>3, PushOnNothing DEF Value
<1>10. ArithResult("ADD", stack[c]) = [outcome |-> "OK", stack |-> <<x + 1>>]
  BY <1>3, <1>4, <1>7, <1>8, <1>9 DEF ArithResult, Stoi
<1>11. ArithResult("ADD", stack[c]).outcome = "OK" /\ ArithResult("ADD", stack[c]).stack = <<x + 1>>
  BY <1>10
<1>12. pc' = pc /\ stack' = [stack EXCEPT ![c] = ArithResult("ADD", stack[c]).stack]
  BY <1>2, <1>11 DEF arithmetic
<1> QED
  BY <1>2, <1>11, <1>12 DEF RunMappings, StoreMappings

\* What the thread of a run of incr_value does on its own with its transaction.
TransactionEffect(c) ==
  \/ pc[c] = "BEGIN" /\ pc'[c] = "ready" /\ stack'[c] = stack[c]
  \/ /\ pc[c] \in Committing /\ pc'[c] \in Committing \cup {"ready"}
     /\ m_client_fd[c] = NoFd => m_client_fd'[c] = NoFd

\* The steps of Handle have that effect.
LEMMA HandleTransaction ==
  ASSUME RunMappings, NEW c \in Conn, Handle(c), pc[c] \in {"BEGIN"} \cup Committing
  PROVE  TransactionEffect(c)
<1> USE SendReply
        DEF RunMappings, StoreMappings, TransactionEffect, Goto, Within, Leave, Back, Fail,
            Finish, Silent, fdVars, argVars
<1>1. CASE handle_begin_request(c)
  BY <1>1 DEF handle_begin_request
<1>2. CASE commit_begins(c)
  BY <1>2 DEF commit_begins
<1>3. CASE commit_table(c)
  BY <1>3 DEF commit_table
<1>4. CASE commit_unlock(c)
  BY <1>4 DEF commit_unlock
<1>5. CASE commit_ends(c)
  BY <1>5 DEF commit_ends
<1>6. CASE CloseOnException(c) \/ rollback_transaction(c) \/ handle_create_request(c)
  BY <1>6 DEF CloseOnException, delete_connection, rollback_transaction, handle_create_request
<1>7. CASE \/ set_checks(c) \/ set_trylock(c) \/ set_wait(c) \/ set_find(c) \/ set_store(c)
           \/ set_commit(c) \/ set_unlock(c) \/ set_end(c) \/ set_unlock_again(c)
  BY <1>7 DEF set_checks, set_trylock, set_wait, set_find, set_store, set_commit, set_unlock,
     set_end, set_unlock_again
<1>8. CASE \/ get_checks(c) \/ get_wait(c) \/ get_find(c) \/ get_read(c) \/ get_end(c)
           \/ get_unlock(c) \/ get_miss(c) \/ get_miss_unlock(c) \/ get_miss_flag(c)
  BY <1>8 DEF get_checks, get_wait, get_find, get_read, get_end, get_unlock, get_miss,
     get_miss_unlock, get_miss_flag
<1> QED
  BY <1>1, <1>2, <1>3, <1>4, <1>5, <1>6, <1>7, <1>8 DEF Handle

\* A run of incr_value keeps its place in its own steps.
LEMMA KeepsIncrement ==
  ASSUME FewRuns, TypeOK, RunMappings, RunsInPlace, list' = list, up, ~raced',
         NEW t \in TableName, NEW k \in Key, NEW c \in Increments(t, k), CountInPlace(t, k),
         IncrementInPlace(c, t, k), ClientStep(c),
         Tries(t, k) \in Nat, Tries(t, k)' \in Nat, Tries(t, k) <= Tries(t, k)',
         c \in Attempted(t, k)' /\ c \notin Attempted(t, k) => Tries(t, k) + 1 <= Tries(t, k)',
         Counted(t, k) => Counted(t, k)'
  PROVE  IncrementInPlace(c, t, k)'
<1>1. c \in Conn /\ served[c] \in Nat /\ First(c) \in {0, 1} /\ First(c)' = First(c)
  BY IncrementRequests DEF Increments, RunMappings, First
<1>2. Stage(c) \in Int /\ Stage(c)' = served'[c] - First(c) /\ Stage(c) = served[c] - First(c)
  BY <1>1 DEF Stage
<1>3. served[c] <= Len(list[c]) /\ Len(list[c]) = 4 + 2 * First(c)
  BY IncrementRequests DEF IncrementInPlace
<1>4. served'[c] = served[c] => Stage(c)' = Stage(c)
  BY <1>2
<1>5. served'[c] = served[c] + 1 => Stage(c)' = Stage(c) + 1
  BY <1>1, <1>2
<1>6. pc[c] \in {"unborn", "login"} =>
        Stage(c) <= 0 /\ served[c] = 0 /\ stack[c] = << >> /\ reply[c] = "none"
  BY <1>1, <1>2 DEF RunsInPlace
<1> USE DEF RunMappings, StoreMappings
<1>7. CASE Connect(c)
  <2>1. pc[c] = "unborn" /\ pc'[c] = "login" /\ served' = served /\ stack' = stack
    BY <1>1, <1>7 DEF Connect, Accept, Goto
  <2> QED
    BY <1>2, <1>3, <1>4, <1>6, <2>1 DEF IncrementInPlace
<1>8. CASE Login(c)
  <2>1. pc[c] = "login" /\ pc'[c] = "ready" /\ served' = served /\ stack' = stack
    BY <1>1, <1>8 DEF Login, Goto
  <2> QED
    BY <1>2, <1>3, <1>4, <1>6, <2>1 DEF IncrementInPlace
<1>9. CASE GiveUp(c)
  <2>1. /\ pc[c] \in {"login", "ready"} /\ pc'[c] = "except" /\ served' = served
        /\ stack' = stack /\ reply' = reply
    BY <1>1, <1>9 DEF GiveUp, BadInput, Goto, Silent
  <2>2. reply[c] \in {"FAILED", "ERROR"}
    BY <1>9, <2>1 DEF GiveUp, Exited
  <2> QED
    BY <1>2, <1>3, <1>4, <2>1, <2>2 DEF IncrementInPlace
<1>10. CASE SendNext(c) /\ NextRequest(c)
  <2> DEFINE r == list[c][served[c] + 1]
  <2>1. pc[c] = "ready" /\ served'[c] = served[c] + 1 /\ served'[c] <= Len(list[c])
    BY <1>1, <1>3, <1>10, RequestEffect DEF NextRequest
  <2>2. Stage(c)' = Stage(c) + 1 /\ reply[c] \notin {"FAILED", "ERROR"}
    BY <1>5, <1>10, <2>1 DEF SendNext
  <2>3. \/ /\ r.op \in {"CREATE", "GET", "SET", "BEGIN", "COMMIT"}
           /\ pc'[c] = r.op /\ table_name'[c] = r.table /\ key_name'[c] = r.key
           /\ stack'[c] = stack[c] /\ m_client_fd'[c] = m_client_fd[c]
        \/ r.op = "PUSH" /\ pc'[c] = "ready" /\ stack'[c] = Push(stack[c], r.value)
        \/ r.op \in {"TOP"} \cup ArithOps
    BY <1>1, <1>10, RequestEffect
  <2>4. \/ Stage(c) = -1 /\ r = Req("BEGIN")
        \/ Stage(c) = 0 /\ r = GET(t, k)
        \/ Stage(c) = 1 /\ r = PUSH(1)
        \/ Stage(c) = 2 /\ r = Req("ADD")
        \/ Stage(c) = 3 /\ r = SET(t, k)
        \/ Stage(c) = 4 /\ r = Req("COMMIT")
    BY <1>10, IncrementRequest
  <2>5. r = Req("ADD") => list[c][served[c] + 1] = Req("ADD")
    OBVIOUS
  <2> HIDE DEF r
  <2>6. CASE Stage(c) = -1 /\ r = Req("BEGIN")
    <3>1. r.op = "BEGIN"
      BY <2>6 DEF Req
    <3>2. pc'[c] = "BEGIN" /\ stack'[c] = stack[c] /\ Stage(c)' = 0
      BY <2>2, <2>3, <2>6, <3>1 DEF ArithOps
    <3>3. stack[c] = << >>
      BY <2>6 DEF IncrementInPlace
    <3> QED
      BY <2>1, <3>2, <3>3 DEF IncrementInPlace
  <2>7. CASE Stage(c) = 0 /\ r = GET(t, k)
    <3>1. r.op = "GET" /\ r.table = t /\ r.key = k
      BY <2>7 DEF GET, Req
    <3>2. /\ pc'[c] = "GET" /\ table_name'[c] = t /\ key_name'[c] = k
          /\ stack'[c] = stack[c] /\ Stage(c)' = 1
      BY <2>2, <2>3, <2>7, <3>1 DEF ArithOps
    <3>3. stack[c] = << >>
      BY <2>7 DEF IncrementInPlace
    <3> QED
      BY <2>1, <3>2, <3>3 DEF IncrementInPlace
  <2>8. CASE Stage(c) = 1 /\ r = PUSH(1)
    <3>1. r.op = "PUSH" /\ r.value = 1
      BY <2>8 DEF PUSH, Req
    <3>2. pc'[c] = "ready" /\ stack'[c] = Push(stack[c], 1) /\ Stage(c)' = 2
      BY <2>2, <2>3, <2>8, <3>1 DEF ArithOps
    <3>3. PICK x \in 0 .. Tries(t, k) : stack[c] = <<x>>
      BY <2>1, <2>8 DEF IncrementInPlace
    <3>4. stack'[c] = <<1, x>>
      BY <3>2, <3>3, PushOnOne
    <3>5. \E z \in 0 .. Tries(t, k)' : stack'[c] = <<1, z>>
      BY <3>4
    <3>6. pc'[c] = "ready" /\ Stage(c)' = 2 /\ served'[c] <= Len(list'[c])
      BY <2>1, <3>2
    <3> QED
      BY <3>5, <3>6, SMTT(30) DEF IncrementInPlace
  <2>9. CASE Stage(c) = 2 /\ r = Req("ADD")
    <3>1. PICK x \in 0 .. Tries(t, k) : stack[c] = <<1, x>>
      BY <2>1, <2>9 DEF IncrementInPlace
    <3>2. x \in Nat /\ x < IntMax
      <4>1. Tries(t, k) < IntMax
        BY <1>1, <2>9, SetIsTry, TriesBounded
      <4> QED
        BY <4>1, ValueAssumption
    <3>3. pc'[c] = "ready" /\ stack'[c] = <<x + 1>> /\ Stage(c)' = 3
      BY <1>1, <1>10, <2>2, <2>5, <2>9, <3>1, <3>2, AddEffect
    <3>4. x + 1 \in 1 .. Tries(t, k)' + 1
      OBVIOUS
    <3> QED
      BY <2>1, <3>3, <3>4 DEF IncrementInPlace
  <2>10. CASE Stage(c) = 3 /\ r = SET(t, k)
    <3>1. r.op = "SET" /\ r.table = t /\ r.key = k
      BY <2>10 DEF SET, Req
    <3>2. /\ pc'[c] = "SET" /\ table_name'[c] = t /\ key_name'[c] = k
          /\ stack'[c] = stack[c] /\ Stage(c)' = 4
      BY <2>2, <2>3, <2>10, <3>1 DEF ArithOps
    <3>3. PICK y \in 1 .. Tries(t, k) + 1 : stack[c] = <<y>>
      BY <2>1, <2>10 DEF IncrementInPlace
    <3>4. Tries(t, k) + 1 <= Tries(t, k)'
      BY <2>1, <2>10, SetIsTry
    <3>5. y \in 1 .. Tries(t, k)'
      BY <3>4
    <3> QED
      BY <2>1, <3>2, <3>3, <3>5 DEF IncrementInPlace
  <2>11. CASE Stage(c) = 4 /\ r = Req("COMMIT")
    <3>1. r.op = "COMMIT"
      BY <2>11 DEF Req
    <3>2. pc'[c] = "COMMIT" /\ m_client_fd'[c] = m_client_fd[c] /\ Stage(c)' = 5
      BY <2>2, <2>3, <2>11, <3>1 DEF ArithOps
    <3>3. Counted(t, k) \/ m_client_fd[c] = NoFd
      BY <2>1, <2>2, <2>11 DEF IncrementInPlace
    <3> QED
      BY <2>1, <3>2, <3>3 DEF IncrementInPlace
  <2> QED
    BY <2>4, <2>6, <2>7, <2>8, <2>9, <2>10, <2>11
<1>11. CASE SendNext(c) /\ served[c] = Len(list[c]) /\ handle_bye_request(c)
  <2>1. /\ pc[c] = "ready" /\ pc'[c] = "done" /\ served' = served /\ stack' = stack
        /\ reply[c] \notin {"FAILED", "ERROR"}
    BY <1>1, <1>11 DEF SendNext, handle_bye_request, delete_connection, Goto, LocalStep
  <2>2. reply'[c] = "OK" => m_client_fd[c] # NoFd
    BY <1>1, <1>11, SendReply DEF handle_bye_request, delete_connection
  <2>3. Stage(c) >= 4
    BY <1>1, <1>2, <1>3, <1>11
  <2>4. reply'[c] = "OK" => Counted(t, k)
    BY <2>1, <2>2, <2>3 DEF IncrementInPlace
  <2> QED
    BY <1>2, <1>3, <1>4, <2>1, <2>3, <2>4 DEF IncrementInPlace
<1>12. CASE Handle(c)
  <2>1. served' = served /\ RunEffect(c)
    BY <1>1, <1>12, HandleStill, HandleRun
  <2>2. Stage(c)' = Stage(c) /\ served'[c] <= Len(list[c])
    BY <1>3, <1>4, <2>1
  <2>3. CASE pc[c] = "BEGIN" \/ pc[c] \in Committing
    <3>1. TransactionEffect(c)
      BY <1>1, <1>12, <2>3, HandleTransaction
    <3> QED
      BY <2>2, <2>3, <3>1 DEF TransactionEffect, IncrementInPlace
  <2>4. CASE pc[c] \in Getting \cup HasGot
    <3>1. pc[c] \in Getting => table_name[c] = t /\ key_name[c] = k /\ stack[c] = << >>
      BY <2>4 DEF IncrementInPlace
    <3>2. t \in tables /\ Visible(t)[k] \in 0 .. Tries(t, k)
      BY DEF CountInPlace
    <3>3. Tries(t, k) <= IntMax
      BY TriesBounded
    <3>4. Visible(t)[k] \in Value
      BY <3>2, <3>3, ValueAssumption DEF Value, IntRange, IntMin
    <3>5. GetterEffect(c)
      BY <1>1, <1>12, <2>4, <3>1, <3>2, <3>4, TableAssumption, HandleGetter
    <3>6. pc[c] = "get_read" /\ pc'[c] = "get_end" => stack'[c] = <<Visible(t)[k]>>
      BY <3>1, <3>4, <3>5, PushOnNothing
    <3>7. Stage(c) = 1
      BY <2>4 DEF IncrementInPlace
    <3>8. Visible(t)[k] \in 0 .. Tries(t, k)'
      BY <3>2
    <3>9. CASE pc[c] \in Getting
      BY <2>1, <2>2, <3>1, <3>5, <3>6, <3>7, <3>8, <3>9 DEF IncrementInPlace
    <3>10. CASE pc[c] \in HasGot
      <4>1. PICK x \in 0 .. Tries(t, k) : stack[c] = <<x>>
        BY <3>7, <3>10 DEF IncrementInPlace
      <4>2. x \in 0 .. Tries(t, k)' /\ stack'[c] = <<x>> /\ pc'[c] \in {"get_unlock", "ready"}
        BY <3>5, <3>10, <4>1
      <4> QED
        BY <2>2, <3>7, <4>2 DEF IncrementInPlace
    <3> QED
      BY <2>4, <3>9, <3>10
  <2>5. CASE pc[c] \in {"except", "CREATE"} \cup Storing \cup HasStored
    <3>1. SetterEffect(c)
      BY <1>1, <1>12, <2>5, HandleSetter
    <3>2. pc[c] \in Storing => Stage(c) = 4 /\ table_name[c] = t /\ key_name[c] = k
      BY DEF IncrementInPlace
    <3>3. pc[c] = "set_store" /\ pc'[c] \in HasStored => Counted(t, k)'
      <4> SUFFICES ASSUME pc[c] = "set_store", pc'[c] \in HasStored PROVE Counted(t, k)'
        OBVIOUS
      <4>1. PICK y \in 1 .. Tries(t, k) : stack[c] = <<y>>
        BY DEF IncrementInPlace
      <4>2. set(t, k, y)
        BY <3>1, <3>2, <4>1 DEF Top
      <4>3. y \in Value /\ TableTypeOK
        BY <4>1, TriesBounded, ValueAssumption DEF TypeOK, Value, IntRange, IntMin
      <4>4. Visible(t)' = [Visible(t) EXCEPT ![k] = y]
        BY <4>2, <4>3, SetVisible
      <4>5. Visible(t) \in Contents
        BY <4>3, OverlayType DEF TableTypeOK, Visible
      <4> QED
        BY <4>4, <4>5 DEF Counted, Contents
    <3>4. CASE pc[c] \in Storing /\ pc'[c] \in Storing
      <4>1. PICK y \in 1 .. Tries(t, k) : stack[c] = <<y>>
        BY <3>4 DEF IncrementInPlace
      <4>2. /\ y \in 1 .. Tries(t, k)' /\ stack'[c] = <<y>>
            /\ table_name'[c] = t /\ key_name'[c] = k
        BY <3>1, <3>2, <3>4, <4>1
      <4> QED
        BY <2>2, <3>2, <3>4, <4>2 DEF IncrementInPlace
    <3>5. CASE pc[c] \in {"except", "CREATE"} \cup HasStored
      BY <2>1, <2>2, <3>1, <3>5 DEF IncrementInPlace
    <3>6. CASE pc[c] \in Storing /\ pc'[c] \notin Storing
      BY <2>1, <2>2, <3>1, <3>2, <3>3, <3>6 DEF IncrementInPlace
    <3> QED
      BY <2>5, <3>4, <3>5, <3>6
  <2> QED
    BY <2>1, <2>3, <2>4, <2>5 DEF IncrementInPlace
<1> QED
  BY <1>7, <1>8, <1>9, <1>10, <1>11, <1>12 DEF ClientStep, SendNext

\* It keeps its place in the steps of others.
LEMMA KeepsOtherIncrement ==
  ASSUME NEW t, NEW k, NEW d \in Increments(t, k), IncrementInPlace(d, t, k), Still(d), up,
         list' = list, Tries(t, k) \in Nat, Tries(t, k)' \in Nat, Tries(t, k) <= Tries(t, k)',
         Counted(t, k) => Counted(t, k)'
  PROVE  IncrementInPlace(d, t, k)'
<1>1. Stage(d)' = Stage(d)
  BY DEF Stage, First
<1>2. 0 .. Tries(t, k) \subseteq 0 .. Tries(t, k)'
  OBVIOUS
<1>3. 1 .. Tries(t, k) \subseteq 1 .. Tries(t, k)'
  OBVIOUS
<1>4. 1 .. Tries(t, k) + 1 \subseteq 1 .. Tries(t, k)' + 1
  OBVIOUS
<1> QED
  BY <1>1, <1>2, <1>3, <1>4, ZenonT(60) DEF IncrementInPlace

\* A step of a session keeps what is said of all counts.
LEMMA KeepsCounts ==
  ASSUME FewRuns, Safe, RunMappings, RunMappings', RunsInPlace, CountsInPlace, list' = list,
         up, NEW c \in Conn, ClientStep(c)
  PROVE  CountsInPlace'
<1>1. TypeOK /\ CommitFindsTables /\ HandlersHaveArguments /\ StoreMappings
  BY DEF Safe, TypeOK, PlaceTypeOK, RunMappings
<1>2. StoreEffect(c)
  BY <1>1, StepIsServed, ServeStore, HandleStore
<1>3. \A d \in Conn \ {c} : Still(d)
  BY StepIsServed, ServeStill, HandleStill
<1>4. served \in [Conn -> Nat] /\ served' \in [Conn -> Nat]
  BY ClientConnectionAssumption DEF RunMappings
<1>5. \A d \in Conn : served[d] <= served'[d]
  BY <1>4, ServedGrows
<1> SUFFICES ASSUME ~raced', NEW t \in TableName, NEW k \in Key, OnlyIncremented(t, k)'
             PROVE  /\ CountInPlace(t, k)'
                    /\ \A d \in Increments(t, k)' : IncrementInPlace(d, t, k)'
  BY DEF CountsInPlace
<1>6. ~raced
  BY <1>2 DEF StoreEffect
<1>7. Increments(t, k)' = Increments(t, k) /\ Increments(t, k) \subseteq Conn
  BY DEF Increments, incr_value, incr_value_transaction
<1>8. OnlyIncremented(t, k)
  BY <1>7 DEF OnlyIncremented, Sets
<1>9. CountInPlace(t, k) /\ \A d \in Increments(t, k) : IncrementInPlace(d, t, k)
  BY <1>6, <1>8 DEF CountsInPlace
<1>10. /\ Tries(t, k) \in Nat /\ Tries(t, k)' \in Nat /\ Tries(t, k) <= Tries(t, k)'
       /\ \A d \in Attempted(t, k)' :
            d \notin Attempted(t, k) => Tries(t, k) + 1 <= Tries(t, k)'
  BY <1>4, <1>5, TriesGrow
<1>11. CountInPlace(t, k)' /\ (Counted(t, k) => Counted(t, k)')
  BY <1>1, <1>2, <1>8, <1>9, <1>10, CountStays
<1>12. ASSUME NEW d \in Increments(t, k) PROVE IncrementInPlace(d, t, k)'
  <2>1. CASE d = c
    BY <1>1, <1>9, <1>10, <1>11, <2>1, KeepsIncrement
  <2>2. CASE d # c
    BY <1>3, <1>7, <1>9, <1>10, <1>11, <2>2, KeepsOtherIncrement
  <2> QED
    BY <2>1, <2>2
<1> QED
  BY <1>7, <1>11, <1>12

\* The invariant holds of the initial states.
LEMMA InitCounts == FewRuns /\ Init /\ list \in Programs => IncrementInv
<1> SUFFICES ASSUME FewRuns, Init PROVE IncrementInv
  OBVIOUS
<1>1. Safe
  BY InitSafe
<1>2. RunsInPlace
  BY DEF Init, RunsInPlace
<1>3. ASSUME NEW t \in TableName, NEW k \in Key, OnlyIncremented(t, k) PROVE CountInPlace(t, k)
  <2>1. t \in tables /\ Visible(t)[k] = 0
    BY <1>3, TableAssumption
    DEF OnlyIncremented, Init, ServerInit, TableInit, Visible, Overlay, NoEntries, Entry
  <2>2. Tries(t, k) \in Nat
    BY TriesBounded
  <2> QED
    BY <2>1, <2>2 DEF CountInPlace
<1>4. ASSUME NEW t, NEW k, NEW c \in Increments(t, k) PROVE IncrementInPlace(c, t, k)
  <2>1. pc[c] = "unborn" /\ served[c] = 0 /\ stack[c] = << >>
    BY DEF Init, Increments
  <2>2. First(c) \in {0, 1} /\ Len(list[c]) = 4 + 2 * First(c)
    BY IncrementRequests
  <2>3. Stage(c) <= 0 /\ 0 <= Len(list[c])
    BY <2>1, <2>2 DEF Stage
  <2> HIDE DEF First
  <2> QED
    BY <2>1, <2>3 DEF IncrementInPlace
<1> QED
  BY <1>1, <1>2, <1>3, <1>4 DEF IncrementInv, CountsInPlace

\* Every step preserves it.
LEMMA NextCounts ==
  ASSUME FewRuns, IncrementInv, [ClientsNext]_<<vars, list>> PROVE IncrementInv'
<1>1. list' = list /\ [Next]_vars
  BY ClientsStep
<1>2. Safe' /\ RunMappings /\ RunMappings' /\ TypeOK
  <2>1. Safe /\ Safe'
    BY <1>1, NextSafe DEF IncrementInv
  <2>2. TypeOK /\ TypeOK'
    BY <2>1 DEF Safe
  <2>3. RunMappings'
    BY <2>2, TypeRunMappings, PTL
  <2> QED
    BY <2>1, <2>2, <2>3, TypeRunMappings
<1>3. CASE up /\ \E c \in Conn : ClientStep(c)
  BY <1>1, <1>2, <1>3, KeepsRuns, KeepsCounts DEF IncrementInv
<1>4. CASE Segfault
  <2>1. raced' /\ UNCHANGED <<pc, served, stack, reply, table_name, key_name>>
    BY <1>4 DEF Segfault, argVars
  <2>2. RunsInPlace'
    BY <1>1, <2>1 DEF IncrementInv, RunsInPlace, Exited
  <2> QED
    BY <1>2, <2>1, <2>2 DEF IncrementInv, CountsInPlace
<1>5. CASE UNCHANGED vars
  <2>1. UNCHANGED <<pc, served, stack, reply, m_client_fd, table_name, key_name, tables,
                    m_data, m_temporary_changes, raced, up, list>>
    BY <1>1, <1>5 DEF vars, tableVars, serverVars, fdVars, argVars
  <2>2. RunsInPlace'
    BY <2>1 DEF IncrementInv, RunsInPlace, Exited
  <2>3. ASSUME NEW t \in TableName, NEW k \in Key
        PROVE  /\ Increments(t, k)' = Increments(t, k)
               /\ OnlyIncremented(t, k)' <=> OnlyIncremented(t, k)
               /\ Tries(t, k)' = Tries(t, k) /\ Visible(t)' = Visible(t)
    <3>1. Increments(t, k)' = Increments(t, k)
      BY <2>1 DEF Increments, incr_value, incr_value_transaction
    <3>2. Attempted(t, k)' = Attempted(t, k)
      BY <2>1, <3>1 DEF Attempted
    <3>3. OnlyIncremented(t, k)' <=> OnlyIncremented(t, k)
      BY <2>1, <3>1 DEF OnlyIncremented, Sets
    <3> QED
      BY <2>1, <3>1, <3>2, <3>3 DEF Tries, Visible
  <2>4. ASSUME NEW t \in TableName, NEW k \in Key, NEW c \in Increments(t, k),
               IncrementInPlace(c, t, k)
        PROVE  IncrementInPlace(c, t, k)'
    <3>1. Tries(t, k)' = Tries(t, k) /\ (Counted(t, k) => Counted(t, k)')
      BY <2>3 DEF Counted
    <3>2. Stage(c)' = Stage(c)
      BY <2>1 DEF Stage, First
    <3> QED
      BY <2>1, <2>4, <3>1, <3>2 DEF IncrementInPlace
  <2>5. CountsInPlace'
    BY <2>1, <2>3, <2>4 DEF IncrementInv, CountsInPlace, CountInPlace
  <2> QED
    BY <1>2, <2>2, <2>5 DEF IncrementInv
<1> QED
  BY <1>3, <1>4, <1>5, ClientsStep

\* THE COUNT IS EARNED.  For any number of runs that an int can count, with or
\* without transactions, whatever the heap and the faults, until two threads
\* collide on the maps of a table: an entry that only runs of incr_value set
\* never counts more than the increments that have been tried, and does not
\* fall back to 0 once one of them has succeeded.
THEOREM IncrementsAreCounted == ASSUME FewRuns PROVE ClientsSpec => []CountIsEarned
<1>1. Init /\ list \in Programs => IncrementInv
  BY InitCounts
<1>2. IncrementInv /\ [ClientsNext]_<<vars, list>> => IncrementInv'
  BY NextCounts
<1>3. IncrementInv => CountIsEarned
  <2> SUFFICES ASSUME IncrementInv, ~raced, NEW t \in TableName, NEW k \in Key,
                      OnlyIncremented(t, k)
               PROVE  /\ Visible(t)[k] <= Tries(t, k)
                      /\ Increments(t, k) \cap Succeeded # {} => Counted(t, k)
    BY DEF CountIsEarned, Tries, Counted
  <2>1. /\ Visible(t)[k] \in 0 .. Tries(t, k)
        /\ \A c \in Increments(t, k) : IncrementInPlace(c, t, k)
    BY DEF IncrementInv, CountsInPlace, CountInPlace
  <2>2. Tries(t, k) \in Nat
    BY TriesBounded
  <2>3. ASSUME NEW c \in Increments(t, k) \cap Succeeded PROVE Counted(t, k)
    BY <2>1 DEF Succeeded, IncrementInPlace
  <2> QED
    BY <2>1, <2>2, <2>3
<1> QED
  BY <1>1, <1>2, <1>3, PTL DEF ClientsSpec
=============================================================================
