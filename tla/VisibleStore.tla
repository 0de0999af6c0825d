---------------------------- MODULE VisibleStore ----------------------------
(***************************************************************************)
(* What a GET can find: the abstract view of the tables, without threads,  *)
(* locks, transactions or connections.  A writer that has been let in to   *)
(* SET a value does so exactly once, at one moment, and cannot back out.   *)
(* From that moment a table holds the value, until the next SET; creating  *)
(* a table is the only other thing that changes the store.  In particular  *)
(* BEGIN, COMMIT, a request that fails, an abandoned transaction and the   *)
(* end of a session change nothing, and nothing is ever taken back.        *)
(*                                                                         *)
(* The implementation keeps this up until two threads collide on the maps  *)
(* of a table, from when on the contents are anything.                     *)
(***************************************************************************)
CONSTANTS Name, StoreKey, StoreValue, NoEntry, InitialNames, InitialStore,
          Writer, NoWrite

VARIABLES known, store, asked, sound

StoreVars == <<known, store, asked, sound>>

AnyStore == [Name -> [StoreKey -> StoreValue \cup {NoEntry}]]

Write == [name : Name, key : StoreKey, value : StoreValue]

StoreInit ==
  /\ known = InitialNames
  /\ store = InitialStore
  /\ asked = [w \in Writer |-> NoWrite]
  /\ sound = TRUE

Create(n) ==
  /\ sound /\ n \notin known
  /\ known' = known \cup {n}
  /\ UNCHANGED <<store, asked, sound>>

Ask(w) ==
  /\ sound /\ asked[w] = NoWrite
  /\ \E write \in Write :
       /\ write.name \in known
       /\ asked' = [asked EXCEPT ![w] = write]
  /\ UNCHANGED <<known, store, sound>>

Set(w) ==
  /\ sound /\ asked[w] # NoWrite
  /\ store' = [store EXCEPT ![asked[w].name][asked[w].key] = asked[w].value]
  /\ asked' = [asked EXCEPT ![w] = NoWrite]
  /\ UNCHANGED <<known, sound>>

\* A collision, and everything after it: tables are still never lost.
Collide ==
  /\ sound' = FALSE
  /\ known \subseteq known'
  /\ store' \in AnyStore
  /\ asked' \in [Writer -> Write \cup {NoWrite}]

StoreNext ==
  \/ \E n \in Name : Create(n)
  \/ \E w \in Writer : Ask(w) \/ Set(w)
  \/ Collide

StoreSpec == StoreInit /\ [][StoreNext]_StoreVars
=============================================================================
