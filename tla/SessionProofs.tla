---------------------------- MODULE SessionProofs ---------------------------
(***************************************************************************)
(* Proofs of what SessionProperties states, for any number of connections, *)
(* tables, keys, descriptors and requests, and every int width.            *)
(***************************************************************************)
EXTENDS SessionProperties, TLAPS

USE DEF ClientId, Entry, Contents, NoEntries, IntRange, Value

-----------------------------------------------------------------------------
(* The operators of ValueStack.                                            *)

\* What an int operation leaves is an int again, whatever overflows.
LEMMA WrapIsInt == ASSUME NEW x \in Int PROVE Wrap(x) \in IntRange
<1> DEFINE width == IntMax - IntMin + 1
<1>1. width \in Nat /\ width > 0
  BY ValueAssumption DEF IntMin
<1>2. (x - IntMin) % width \in 0 .. width - 1
  BY <1>1, ValueAssumption DEF IntMin
<1> QED
  BY <1>1, <1>2, ValueAssumption DEF Wrap, IntMin

\* ... for each of the four operators, the trap of DIV by zero apart.
LEMMA ComputeIsInt ==
  ASSUME NEW op \in ArithOps, NEW l \in IntRange, NEW r \in IntRange,
         op = "DIV" => r # 0
  PROVE  Compute(op, l, r) \in IntRange
<1>1. IntRange \subseteq Int
  BY ValueAssumption DEF IntMin
<1>2. CASE op = "ADD"
  BY <1>1, <1>2, WrapIsInt, l + r \in Int DEF Compute
<1>3. CASE op = "SUB"
  BY <1>1, <1>3, WrapIsInt, l - r \in Int DEF Compute
<1>4. CASE op = "MUL"
  BY <1>1, <1>4, WrapIsInt, l * r \in Int DEF Compute
<1>5. CASE op = "DIV"
  <2>1. Magnitude(l) \in Nat /\ Magnitude(r) \in Nat \ {0}
    BY <1>1, <1>5 DEF Magnitude
  <2>2. Magnitude(l) \div Magnitude(r) \in Int
    BY <2>1
  <2>3. TruncDiv(l, r) \in Int
    BY <2>2 DEF TruncDiv
  <2> QED
    BY <1>5, <2>3, WrapIsInt DEF Compute
<1> QED
  BY <1>2, <1>3, <1>4, <1>5 DEF ArithOps

\* get_top and pop on a stack that is not empty.
LEMMA PopIsStack ==
  ASSUME NEW s \in Seq(Value), ~IsEmpty(s)
  PROVE  Pop(s) \in Seq(Value) /\ Top(s) \in Value
BY DEF IsEmpty, Pop, Top

\* push keeps a stack a stack.
LEMMA PushIsStack ==
  ASSUME NEW s \in Seq(Value), NEW v \in Value
  PROVE  Push(s, v) \in Seq(Value)
BY DEF Push

\* An operand that is taken is there, and std::stoi makes an int of it.
LEMMA OperandIsInt ==
  ASSUME NEW s \in Seq(Value), Operand(s) = "OK"
  PROVE  ~IsEmpty(s) /\ Stoi(Top(s)) \in IntRange
<1>1. ~IsEmpty(s) /\ Top(s) \notin NonNumeric /\ Top(s) \notin OutOfRange
  BY DEF Operand
<1>2. Top(s) \in Value
  BY <1>1, PopIsStack
<1> QED
  BY <1>1, <1>2, ValueAssumption DEF Stoi

\* An arithmetic request leaves a stack of values, whatever its outcome.
LEMMA ArithResultIsStack ==
  ASSUME NEW op \in ArithOps, NEW s \in Seq(Value)
  PROVE  ArithResult(op, s).stack \in Seq(Value)
<1> DEFINE s1 == Pop(s)
           right == Stoi(Top(s))
           left == Stoi(Top(s1))
<1>1. CASE Operand(s) # "OK"
  BY <1>1 DEF ArithResult
<1>2. CASE Operand(s) = "OK" /\ Operand(s1) # "OK"
  <2>1. s1 \in Seq(Value)
    BY <1>2, OperandIsInt, PopIsStack
  <2> QED
    BY <1>2, <2>1 DEF ArithResult
<1>3. CASE Operand(s) = "OK" /\ Operand(s1) = "OK"
  <2>1. s1 \in Seq(Value) /\ right \in IntRange
    BY <1>3, OperandIsInt, PopIsStack
  <2>2. Pop(s1) \in Seq(Value) /\ left \in IntRange
    BY <1>3, <2>1, OperandIsInt, PopIsStack
  <2>3. (op = "DIV" /\ right = 0) \/ Compute(op, left, right) \in Value
    BY <2>1, <2>2, ComputeIsInt
  <2>4. \/ op = "DIV" /\ right = 0
        \/ Push(Pop(s1), Compute(op, left, right)) \in Seq(Value)
    BY <2>2, <2>3, PushIsStack
  <2> QED
    BY <1>3, <2>2, <2>4 DEF ArithResult
<1> QED
  BY <1>1, <1>2, <1>3

-----------------------------------------------------------------------------
(* Type correctness.                                                       *)

Reply == {"OK", "FAILED", "ERROR", "DATA"}

\* What sending a reply does to the variables of the session.
LEMMA SendType ==
  ASSUME LinkTypeOK, NEW c \in Conn, NEW r \in Reply,
         send_message(c, r) \/ send_and_close(c, r)
  PROVE  /\ m_client_fd' \in [Conn -> ClientId] /\ rio_fd' = rio_fd /\ flag' = flag
         /\ reply' \in [Conn -> {"none", "OK", "FAILED", "ERROR", "DATA"}]
         /\ up' \in BOOLEAN
<1>1. m_client_fd \in [Conn -> ClientId] /\ up \in BOOLEAN
      /\ reply \in [Conn -> {"none"} \cup Reply]
  BY DEF LinkTypeOK, Reply
<1> QED
  BY <1>1 DEF send_message, send_and_close, Written, Lost, Killed, close_connection, Reply

\* The history variable stays a truth value.
LEMMA AccessType ==
  ASSUME TypeOK, NEW t, Access(t) PROVE raced' \in BOOLEAN
BY DEF TypeOK, LinkTypeOK, Access, Race

\* commit_changes, or what a collision leaves of it, keeps maps maps.
LEMMA CommitType ==
  ASSUME TableTypeOK, NEW t \in TableName,
         commit_changes(t) \/ UNCHANGED <<m_data, m_temporary_changes>>, UNCHANGED m_mutex
  PROVE  TableTypeOK'
<1>0. m_data[t] \in Contents /\ m_temporary_changes[t] \in Contents
  BY DEF TableTypeOK
<1>1. Overlay(m_data[t], m_temporary_changes[t]) \in Contents
  BY <1>0 DEF Overlay
<1>2. NoEntries \in Contents
  OBVIOUS
<1>3. CASE commit_changes(t)
  <2>1. m_data' \in [TableName -> Contents]
    BY <1>1, <1>3 DEF TableTypeOK, commit_changes
  <2>2. m_temporary_changes' \in [TableName -> Contents]
    BY <1>2, <1>3 DEF TableTypeOK, commit_changes
  <2> QED
    BY <2>1, <2>2 DEF TableTypeOK
<1>4. CASE UNCHANGED <<m_data, m_temporary_changes>>
  BY <1>4 DEF TableTypeOK
<1> QED
  BY <1>3, <1>4

\* ... and so does set.
LEMMA SetType ==
  ASSUME TableTypeOK, NEW t \in TableName, NEW k \in Key, NEW v \in Value,
         set(t, k, v) \/ UNCHANGED <<m_data, m_temporary_changes>>, UNCHANGED m_mutex
  PROVE  TableTypeOK'
<1>1. m_temporary_changes[t] \in Contents
  BY DEF TableTypeOK
<1>2. [m_temporary_changes[t] EXCEPT ![k] = v] \in Contents
  BY <1>1
<1> QED
  BY <1>2 DEF TableTypeOK, set

\* A handler that is not in a loop of commit with tables left may leave.
LEMMA LeaveType ==
  ASSUME TypeOK, NEW c \in Conn, NEW label \in {"ready", "except"}, Leave(c, label),
         unvisited[c] = {}, \A d \in Conn \ {c} : stack'[d] = stack[d]
  PROVE  PlaceTypeOK'
<1>1. PlaceTypeOK
  BY DEF TypeOK
<1>2. label \in Label
  BY DEF Label
<1>3. /\ pc' = [pc EXCEPT ![c] = label] /\ unvisited' = unvisited
      /\ table_name' = [table_name EXCEPT ![c] = Absent]
      /\ key_name' = [key_name EXCEPT ![c] = Absent] /\ served' = served
  BY DEF Leave, Goto
<1>4. \A d \in Conn \ {c} : /\ pc'[d] = pc[d] /\ table_name'[d] = table_name[d]
                            /\ key_name'[d] = key_name[d]
  BY <1>1, <1>3 DEF PlaceTypeOK
<1>5. pc'[c] = label
  BY <1>1, <1>3 DEF PlaceTypeOK
<1>6. label \notin SetLabels \cup GetLabels \cup CommitLoop \cup {"CREATE"}
  BY DEF SetLabels, SetLocked, GetLabels, GetLocked, CommitLoop
<1>7. HandlersHaveArguments'
  BY <1>1, <1>3, <1>4, <1>5, <1>6 DEF PlaceTypeOK, HandlersHaveArguments, CommitLoop
<1> QED
  BY <1>1, <1>2, <1>3, <1>7 DEF PlaceTypeOK

\* ... and may return.
LEMMA BackType ==
  ASSUME TypeOK, NEW c \in Conn, Back(c), unvisited[c] = {},
         \A d \in Conn \ {c} : stack'[d] = stack[d]
  PROVE  PlaceTypeOK'
BY LeaveType DEF Back

\* A handler may go on if it was there with the arguments it needs next.
LEMMA WithinType ==
  ASSUME TypeOK, NEW c \in Conn, NEW label \in SetLabels \cup GetLabels, Within(c, label),
         pc[c] \in SetLabels \cup GetLabels,
         label \in {"set_lock", "set_wait", "set_find", "set_store"} => stack'[c] # << >>,
         \A d \in Conn \ {c} : stack'[d] = stack[d]
  PROVE  PlaceTypeOK'
<1>1. PlaceTypeOK
  BY DEF TypeOK
<1>2. label \in Label
  BY DEF Label, HandlerLabels
<1>3. /\ pc' = [pc EXCEPT ![c] = label]
      /\ unvisited' = unvisited /\ table_name' = table_name
      /\ key_name' = key_name /\ served' = served
  BY DEF Within, Goto, argVars
<1>4. pc'[c] = label /\ \A d \in Conn \ {c} : pc'[d] = pc[d]
  BY <1>1, <1>3 DEF PlaceTypeOK
<1>5. label \notin CommitLoop \cup {"CREATE"} /\ pc[c] \notin CommitLoop
  BY DEF SetLabels, SetLocked, GetLabels, GetLocked, CommitLoop
<1>6. HandlersHaveArguments'
  BY <1>1, <1>3, <1>4, <1>5 DEF PlaceTypeOK, HandlersHaveArguments, CommitLoop
<1> QED
  BY <1>1, <1>2, <1>3, <1>6 DEF PlaceTypeOK

\* What an action that leaves the tables or the server alone preserves.
LEMMA FrameType ==
  /\ TableTypeOK /\ UNCHANGED tableVars => TableTypeOK'
  /\ ServerTypeOK /\ UNCHANGED serverVars => ServerTypeOK'
BY DEF TableTypeOK, ServerTypeOK, tableVars, serverVars

\* What reading a request does to the place of the session.
LEMMA ReadType ==
  ASSUME TypeOK, NEW c \in Conn, NEW r, read_message(c, r)
  PROVE  pc[c] = "ready" /\ served' \in [Conn -> 0 .. MaxRequests]
<1>1. served[c] + 1 \in 0 .. MaxRequests
  BY ClientConnectionAssumption DEF TypeOK, PlaceTypeOK, read_message
<1> QED
  BY <1>1 DEF TypeOK, PlaceTypeOK, read_message

\* The sets of labels are expanded from here on.
USE DEF Label, HandlerLabels, SetLabels, SetLocked, GetLabels, GetLocked, CommitLoop

\* server_loop accepts a connection, whose flag is any byte of the heap.
LEMMA Accept_type ==
  ASSUME TypeOK, NEW c \in Conn, Accept(c) PROVE TypeOK'
<1> USE DEF Accept
<1>1. TableTypeOK' /\ ServerTypeOK'
  BY FrameType DEF TypeOK
<1>2. LinkTypeOK'
  BY ClientConnectionAssumption DEF TypeOK, LinkTypeOK
<1>3. PlaceTypeOK'
  BY DEF TypeOK, PlaceTypeOK, HandlersHaveArguments, Goto, argVars
<1> QED
  BY <1>1, <1>2, <1>3 DEF TypeOK

\* The connection of a thread that could not be created is dropped.
LEMMA ThreadRefused_type ==
  ASSUME TypeOK, NEW c \in Conn, ThreadRefused(c) PROVE TypeOK'
<1> USE DEF ThreadRefused, delete_connection
<1>1. TableTypeOK' /\ ServerTypeOK'
  BY FrameType DEF TypeOK
<1>2. LinkTypeOK'
  BY DEF TypeOK, LinkTypeOK, ClientId, close_connection
<1>3. PlaceTypeOK'
  BY DEF TypeOK, PlaceTypeOK, HandlersHaveArguments, Goto, argVars
<1> QED
  BY <1>1, <1>2, <1>3 DEF TypeOK

\* The first request is LOGIN.
LEMMA Login_type ==
  ASSUME TypeOK, NEW c \in Conn, Login(c) PROVE TypeOK'
<1> USE DEF Login
<1>1. TableTypeOK' /\ ServerTypeOK'
  BY FrameType DEF TypeOK
<1>2. LinkTypeOK'
  BY SendType DEF TypeOK, LinkTypeOK, Reply
<1>3. PlaceTypeOK'
  BY DEF TypeOK, PlaceTypeOK, HandlersHaveArguments, Goto, argVars
<1> QED
  BY <1>1, <1>2, <1>3 DEF TypeOK

\* The first request is another one.
LEMMA NotLogin_type ==
  ASSUME TypeOK, NEW c \in Conn, NotLogin(c) PROVE TypeOK'
<1> USE DEF NotLogin, delete_connection
<1>1. TableTypeOK' /\ ServerTypeOK'
  BY FrameType DEF TypeOK
<1>2. LinkTypeOK'
  BY SendType DEF TypeOK, LinkTypeOK, Reply
<1>3. PlaceTypeOK'
  BY DEF TypeOK, PlaceTypeOK, HandlersHaveArguments, Goto, argVars
<1> QED
  BY <1>1, <1>2, <1>3 DEF TypeOK

\* read_message throws.
LEMMA BadInput_type ==
  ASSUME TypeOK, NEW c \in Conn, BadInput(c) PROVE TypeOK'
<1> USE DEF BadInput
<1>1. TableTypeOK' /\ ServerTypeOK'
  BY FrameType DEF TypeOK
<1>2. LinkTypeOK'
  BY DEF TypeOK, LinkTypeOK, Silent, fdVars
<1>3. PlaceTypeOK'
  BY DEF TypeOK, PlaceTypeOK, HandlersHaveArguments, Goto, argVars
<1> QED
  BY <1>1, <1>2, <1>3 DEF TypeOK

\* handle_exception without a transaction.
LEMMA CloseOnException_type ==
  ASSUME TypeOK, NEW c \in Conn, CloseOnException(c) PROVE TypeOK'
<1> USE DEF CloseOnException, delete_connection
<1>1. TableTypeOK' /\ ServerTypeOK'
  BY FrameType DEF TypeOK
<1>2. LinkTypeOK'
  BY SendType DEF TypeOK, LinkTypeOK, Reply
<1>3. PlaceTypeOK'
  BY DEF TypeOK, PlaceTypeOK, HandlersHaveArguments, Goto, argVars
<1> QED
  BY <1>1, <1>2, <1>3 DEF TypeOK

\* handle_exception with one.
LEMMA rollback_transaction_type ==
  ASSUME TypeOK, NEW c \in Conn, rollback_transaction(c) PROVE TypeOK'
<1> USE DEF rollback_transaction
<1>1. TableTypeOK'
  BY FrameType DEF TypeOK
<1>2. ServerTypeOK'
  BY DEF TypeOK, ServerTypeOK
<1>3. LinkTypeOK'
  BY DEF TypeOK, LinkTypeOK, Silent, fdVars
<1>4. PlaceTypeOK'
  BY DEF TypeOK, PlaceTypeOK, HandlersHaveArguments, Goto, argVars
<1> QED
  BY <1>1, <1>2, <1>3, <1>4 DEF TypeOK

\* A second LOGIN.
LEMMA LoginAgain_type ==
  ASSUME TypeOK, NEW c \in Conn, LoginAgain(c) PROVE TypeOK'
<1> USE DEF LoginAgain, LocalStep
<1>1. TableTypeOK' /\ ServerTypeOK'
  BY FrameType DEF TypeOK
<1>2. LinkTypeOK'
  BY SendType DEF TypeOK, LinkTypeOK, Reply
<1>3. PlaceTypeOK'
  BY ReadType DEF TypeOK, PlaceTypeOK, HandlersHaveArguments, LocalStep, argVars
<1> QED
  BY <1>1, <1>2, <1>3 DEF TypeOK

\* PUSH: what is pushed is a text of a client.
LEMMA handle_push_request_type ==
  ASSUME TypeOK, NEW c \in Conn, handle_push_request(c) PROVE TypeOK'
<1> USE DEF handle_push_request, LocalStep
<1>1. TableTypeOK' /\ ServerTypeOK'
  BY FrameType DEF TypeOK
<1>2. LinkTypeOK'
  <2>1. stack' \in [Conn -> Seq(Value)]
    <3>1. \A v \in PushTexts : Push(stack[c], v) \in Seq(Value)
      BY PushIsStack, ClientConnectionAssumption DEF TypeOK, LinkTypeOK
    <3> QED
      BY <3>1 DEF TypeOK, LinkTypeOK
  <2> QED
    BY <2>1, SendType DEF TypeOK, LinkTypeOK, Reply
<1>3. PlaceTypeOK'
  <2>1. pc[c] = "ready" /\ served' \in [Conn -> 0 .. MaxRequests]
    BY ReadType
  <2>2. \A d \in Conn \ {c} : stack'[d] = stack[d]
    BY DEF TypeOK, LinkTypeOK
  <2>3. UNCHANGED <<pc, table_name, key_name, unvisited>>
    BY DEF argVars
  <2> QED
    BY <2>1, <2>2, <2>3 DEF TypeOK, PlaceTypeOK, HandlersHaveArguments
<1> QED
  BY <1>1, <1>2, <1>3 DEF TypeOK

\* POP: a stack that is not empty has a rest.
LEMMA handle_pop_request_type ==
  ASSUME TypeOK, NEW c \in Conn, handle_pop_request(c) PROVE TypeOK'
<1> USE DEF handle_pop_request, LocalStep
<1>1. TableTypeOK' /\ ServerTypeOK'
  BY FrameType DEF TypeOK
<1>2. LinkTypeOK'
  <2>1. stack' \in [Conn -> Seq(Value)]
    BY PopIsStack, ZenonT(40) DEF TypeOK, LinkTypeOK
  <2> QED
    BY <2>1, SendType DEF TypeOK, LinkTypeOK, Reply
<1>3. PlaceTypeOK'
  <2>1. pc[c] = "ready" /\ served' \in [Conn -> 0 .. MaxRequests]
    BY ReadType
  <2>2. \A d \in Conn \ {c} : stack'[d] = stack[d]
    BY DEF TypeOK, LinkTypeOK
  <2>3. UNCHANGED <<pc, table_name, key_name, unvisited>>
    BY DEF argVars
  <2> QED
    BY <2>1, <2>2, <2>3 DEF TypeOK, PlaceTypeOK, HandlersHaveArguments
<1> QED
  BY <1>1, <1>2, <1>3 DEF TypeOK

\* TOP.
LEMMA handle_top_request_type ==
  ASSUME TypeOK, NEW c \in Conn, handle_top_request(c) PROVE TypeOK'
<1> USE DEF handle_top_request, LocalStep
<1>1. TableTypeOK' /\ ServerTypeOK'
  BY FrameType DEF TypeOK
<1>2. LinkTypeOK'
  BY SendType DEF TypeOK, LinkTypeOK, Reply
<1>3. PlaceTypeOK'
  BY ReadType DEF TypeOK, PlaceTypeOK, HandlersHaveArguments, LocalStep, argVars
<1> QED
  BY <1>1, <1>2, <1>3 DEF TypeOK

\* A request that handle_request does not know.
LEMMA reject_type ==
  ASSUME TypeOK, NEW c \in Conn, reject(c) PROVE TypeOK'
<1> USE DEF reject, LocalStep
<1>1. TableTypeOK' /\ ServerTypeOK'
  BY FrameType DEF TypeOK
<1>2. LinkTypeOK'
  BY SendType DEF TypeOK, LinkTypeOK, Reply
<1>3. PlaceTypeOK'
  BY ReadType DEF TypeOK, PlaceTypeOK, HandlersHaveArguments, LocalStep, argVars
<1> QED
  BY <1>1, <1>2, <1>3 DEF TypeOK

\* BYE.
LEMMA handle_bye_request_type ==
  ASSUME TypeOK, NEW c \in Conn, handle_bye_request(c) PROVE TypeOK'
<1> USE DEF handle_bye_request, delete_connection, LocalStep
<1>1. TableTypeOK' /\ ServerTypeOK'
  BY FrameType DEF TypeOK
<1>2. LinkTypeOK'
  BY SendType DEF TypeOK, LinkTypeOK, Reply
<1>3. PlaceTypeOK'
  BY DEF TypeOK, PlaceTypeOK, HandlersHaveArguments, Goto, argVars
<1> QED
  BY <1>1, <1>2, <1>3 DEF TypeOK

\* ADD, SUB, MUL and DIV: the result is an int.
LEMMA arithmetic_type ==
  ASSUME TypeOK, NEW c \in Conn, NEW op \in ArithOps, arithmetic(c, op) PROVE TypeOK'
<1> USE DEF arithmetic, LocalStep
<1> DEFINE res == ArithResult(op, stack[c])
<1>1. TableTypeOK' /\ ServerTypeOK'
  BY DEF TypeOK, TableTypeOK, ServerTypeOK, tableVars, serverVars
<1>2. res.stack \in Seq(Value)
  BY ArithResultIsStack DEF TypeOK, LinkTypeOK
<1>3. LinkTypeOK'
  <2>1. stack' \in [Conn -> Seq(Value)]
    BY <1>2 DEF TypeOK, LinkTypeOK
  <2>2. CASE res.outcome \in {"OK", "FAILED"} /\ send_message(c, res.outcome)
    BY <2>1, <2>2, SendType DEF TypeOK, LinkTypeOK, Reply
  <2>3. CASE delete_connection(c) /\ UNCHANGED <<rio_fd, flag, reply, up>>
    BY <2>1, <2>3 DEF TypeOK, LinkTypeOK, delete_connection, close_connection
  <2>4. CASE up' = FALSE /\ UNCHANGED <<fdVars, reply>>
    BY <2>1, <2>4 DEF TypeOK, LinkTypeOK, fdVars
  <2> QED
    BY <2>2, <2>3, <2>4
<1>4. PlaceTypeOK'
  <2>1. CASE UNCHANGED pc
    BY <2>1, ReadType DEF TypeOK, PlaceTypeOK, HandlersHaveArguments, argVars
  <2>2. CASE Goto(c, "done")
    BY <2>2, ReadType
    DEF TypeOK, PlaceTypeOK, HandlersHaveArguments, Goto, argVars
  <2> QED
    BY <2>1, <2>2 DEF delete_connection
<1> QED
  BY <1>1, <1>3, <1>4 DEF TypeOK

\* A request is read, and its table and key with it.
LEMMA Receive_type ==
  ASSUME TypeOK, NEW c \in Conn, Receive(c) PROVE TypeOK'
<1> USE DEF Receive
<1>1. TableTypeOK' /\ ServerTypeOK'
  BY FrameType DEF TypeOK
<1>2. LinkTypeOK'
  BY DEF TypeOK, LinkTypeOK, Silent, fdVars
<1>3. PlaceTypeOK'
  <2>1. PICK r \in {"CREATE", "GET", "SET", "BEGIN", "COMMIT"} :
          /\ read_message(c, r) /\ Goto(c, r)
          /\ IF r \in {"CREATE", "GET", "SET"}
             THEN \E t \in TableName : table_name' = [table_name EXCEPT ![c] = t]
             ELSE UNCHANGED table_name
          /\ IF r \in {"GET", "SET"}
             THEN \E k \in Key : key_name' = [key_name EXCEPT ![c] = k]
             ELSE UNCHANGED key_name
    OBVIOUS
  <2>2. /\ pc[c] = "ready" /\ served' \in [Conn -> 0 .. MaxRequests]
        /\ stack' = stack /\ unvisited' = unvisited
    BY ReadType, <2>1
  <2>3. /\ table_name' \in [Conn -> TableName \cup {Absent}]
        /\ key_name' \in [Conn -> Key \cup {Absent}]
        /\ r \in {"CREATE", "GET", "SET"} => table_name'[c] \in TableName
        /\ r \in {"GET", "SET"} => key_name'[c] \in Key
        /\ \A d \in Conn \ {c} :
             table_name'[d] = table_name[d] /\ key_name'[d] = key_name[d]
    BY <2>1 DEF TypeOK, PlaceTypeOK
  <2>4. /\ pc' \in [Conn -> Label] /\ pc'[c] = r
        /\ \A d \in Conn \ {c} : pc'[d] = pc[d]
    BY <2>1 DEF TypeOK, PlaceTypeOK, Goto
  <2>5. HandlersHaveArguments'
    BY <2>2, <2>3, <2>4 DEF TypeOK, PlaceTypeOK, HandlersHaveArguments
  <2> QED
    BY <2>2, <2>3, <2>4, <2>5 DEF TypeOK, PlaceTypeOK
<1> QED
  BY <1>1, <1>2, <1>3 DEF TypeOK

\* CREATE.
LEMMA handle_create_request_type ==
  ASSUME TypeOK, NEW c \in Conn, handle_create_request(c) PROVE TypeOK'
<1> USE DEF handle_create_request
<1>1. TableTypeOK'
  BY FrameType DEF TypeOK
<1>2. ServerTypeOK'
  BY DEF TypeOK, ServerTypeOK, serverVars, create_table, PlaceTypeOK,
         HandlersHaveArguments
<1>3. LinkTypeOK'
  BY SendType DEF TypeOK, LinkTypeOK, Reply, Finish
<1>4. PlaceTypeOK'
  BY BackType DEF TypeOK, PlaceTypeOK, HandlersHaveArguments, Finish
<1> QED
  BY <1>1, <1>2, <1>3, <1>4 DEF TypeOK

\* BEGIN.
LEMMA handle_begin_request_type ==
  ASSUME TypeOK, NEW c \in Conn, handle_begin_request(c) PROVE TypeOK'
<1> USE DEF handle_begin_request
<1>1. TableTypeOK'
  BY FrameType DEF TypeOK
<1>2. ServerTypeOK'
  BY DEF TypeOK, ServerTypeOK, serverVars, begin_transaction, LinkTypeOK
<1>3. LinkTypeOK'
  BY SendType DEF TypeOK, LinkTypeOK, Reply, Finish
<1>4. PlaceTypeOK'
  BY BackType DEF TypeOK, PlaceTypeOK, HandlersHaveArguments, Finish
<1> QED
  BY <1>1, <1>2, <1>3, <1>4 DEF TypeOK

\* COMMIT: the loop starts with the tables that were recorded.
LEMMA commit_begins_type ==
  ASSUME TypeOK, NEW c \in Conn, commit_begins(c) PROVE TypeOK'
<1> USE DEF commit_begins
<1>1. TableTypeOK'
  BY FrameType DEF TypeOK
<1>2. ServerTypeOK'
  BY DEF TypeOK, ServerTypeOK, serverVars
<1>3. LinkTypeOK'
  <2>1. CASE Finish(c, "FAILED")
    BY <2>1, SendType DEF TypeOK, LinkTypeOK, Reply, Finish
  <2>2. CASE Silent /\ UNCHANGED stack
    BY <2>2 DEF TypeOK, LinkTypeOK, Silent, fdVars
  <2> QED
    BY <2>1, <2>2
<1>4. PlaceTypeOK'
  <2>1. CASE Finish(c, "FAILED")
    BY <2>1, BackType DEF TypeOK, PlaceTypeOK, HandlersHaveArguments, Finish
  <2>2. CASE Goto(c, "commit") /\ ~Finish(c, "FAILED")
    <3>1. transaction_locks[id(c)] \subseteq TableName
      BY DEF TypeOK, ServerTypeOK, LinkTypeOK, id
    <3> QED
      BY <2>2, <3>1
      DEF TypeOK, PlaceTypeOK, HandlersHaveArguments, Goto, argVars
  <2> QED
    BY <2>1, <2>2
<1> QED
  BY <1>1, <1>2, <1>3, <1>4 DEF TypeOK

\* One table of that loop.
LEMMA commit_table_type ==
  ASSUME TypeOK, NEW c \in Conn, commit_table(c) PROVE TypeOK'
<1> USE DEF commit_table
<1>1. TableTypeOK'
  <2>1. PICK t \in TableName :
          commit_changes(t) \/ UNCHANGED <<m_data, m_temporary_changes>>
    BY DEF TypeOK, ServerTypeOK
  <2> QED
    BY <2>1, CommitType DEF TypeOK
<1>2. ServerTypeOK'
  BY FrameType DEF TypeOK 
<1>3. LinkTypeOK'
  <2>1. raced' \in BOOLEAN
    BY AccessType
  <2> QED
    BY <2>1 DEF TypeOK, LinkTypeOK, Silent, fdVars
<1>4. PlaceTypeOK'
  <2>1. PICK t \in unvisited[c] \cap tables :
          /\ table_name' = [table_name EXCEPT ![c] = t]
          /\ unvisited' = [unvisited EXCEPT ![c] = @ \ {t}]
    OBVIOUS
  <2>2. t \in TableName
    BY DEF TypeOK, ServerTypeOK
  <2> QED
    BY <2>1, <2>2 DEF TypeOK, PlaceTypeOK, HandlersHaveArguments, Goto, argVars
<1> QED
  BY <1>1, <1>2, <1>3, <1>4 DEF TypeOK

\* Its mutex is released.
LEMMA commit_unlock_type ==
  ASSUME TypeOK, NEW c \in Conn, commit_unlock(c) PROVE TypeOK'
<1> USE DEF commit_unlock
<1>1. TableTypeOK'
  BY DEF TypeOK, TableTypeOK, unlock
<1>2. ServerTypeOK'
  BY FrameType DEF TypeOK 
<1>3. LinkTypeOK'
  BY DEF TypeOK, LinkTypeOK, Silent, fdVars
<1>4. PlaceTypeOK'
  BY DEF TypeOK, PlaceTypeOK, HandlersHaveArguments, Goto, argVars
<1> QED
  BY <1>1, <1>2, <1>3, <1>4 DEF TypeOK

\* The loop has no tables left, and neither has the session.
LEMMA commit_ends_type ==
  ASSUME TypeOK, NEW c \in Conn, commit_ends(c) PROVE TypeOK'
<1> USE DEF commit_ends
<1>1. TableTypeOK'
  BY FrameType DEF TypeOK
<1>2. ServerTypeOK'
  BY DEF TypeOK, ServerTypeOK, end_transaction, LinkTypeOK
<1>3. LinkTypeOK'
  BY SendType DEF TypeOK, LinkTypeOK, Reply, Finish
<1>4. PlaceTypeOK'
  BY BackType DEF Finish
<1> QED
  BY <1>1, <1>2, <1>3, <1>4 DEF TypeOK

\* SET: the store is only reached with a value on the stack.
LEMMA set_checks_type ==
  ASSUME TypeOK, NEW c \in Conn, set_checks(c) PROVE TypeOK'
<1> USE DEF set_checks
<1>1. TableTypeOK' /\ ServerTypeOK'
  BY FrameType DEF TypeOK
<1>2. LinkTypeOK'
  <2>1. CASE Finish(c, "FAILED") \/ (send_and_close(c, "ERROR") /\ UNCHANGED stack)
    BY <2>1, SendType DEF TypeOK, LinkTypeOK, Reply, Finish
  <2>2. CASE Within(c, "set_lock") /\ UNCHANGED stack
    BY <2>2 DEF TypeOK, LinkTypeOK, Within, Silent, fdVars
  <2> QED
    BY <2>1, <2>2
<1>3. PlaceTypeOK'
  <2>1. CASE Back(c) /\ UNCHANGED stack
    BY <2>1, BackType DEF TypeOK, PlaceTypeOK, HandlersHaveArguments
  <2>2. CASE Within(c, "set_lock") /\ UNCHANGED stack /\ ~IsEmpty(stack[c])
    BY <2>2, WithinType DEF TypeOK, PlaceTypeOK, HandlersHaveArguments, IsEmpty
  <2> QED
    BY <2>1, <2>2 DEF Finish
<1> QED
  BY <1>1, <1>2, <1>3 DEF TypeOK

\* lock_table: what is recorded is the name of a table.
LEMMA set_trylock_type ==
  ASSUME TypeOK, NEW c \in Conn, set_trylock(c) PROVE TypeOK'
<1> USE DEF set_trylock
<1>1. TableTypeOK'
  BY DEF TypeOK, TableTypeOK, lock
<1>2. ServerTypeOK'
  <2>1. table_name[c] \in TableName /\ id(c) \in ClientId
    BY DEF TypeOK, LinkTypeOK, PlaceTypeOK, HandlersHaveArguments, id
  <2>2. CASE record_lock(table_name[c], id(c))
    <3>1. transaction_locks[id(c)] \cup {table_name[c]} \subseteq TableName
      BY <2>1 DEF TypeOK, ServerTypeOK
    <3>2. transaction_locks' \in [ClientId -> SUBSET TableName]
      BY <2>2, <3>1 DEF TypeOK, ServerTypeOK, record_lock
    <3> QED
      BY <2>2, <3>2 DEF TypeOK, ServerTypeOK, record_lock
  <2>3. CASE UNCHANGED serverVars
    BY <2>3 DEF TypeOK, ServerTypeOK, serverVars
  <2> QED
    BY <2>2, <2>3
<1>3. LinkTypeOK'
  BY DEF TypeOK, LinkTypeOK, Within, Silent, fdVars
<1>4. PlaceTypeOK'
  BY WithinType DEF TypeOK, PlaceTypeOK, HandlersHaveArguments
<1> QED
  BY <1>1, <1>2, <1>3, <1>4 DEF TypeOK

\* SET waits for the mutex of the table.
LEMMA set_wait_type ==
  ASSUME TypeOK, NEW c \in Conn, set_wait(c) PROVE TypeOK'
<1> USE DEF set_wait
<1>1. TableTypeOK'
  BY DEF TypeOK, TableTypeOK, lock
<1>2. ServerTypeOK'
  BY FrameType DEF TypeOK 
<1>3. LinkTypeOK'
  BY DEF TypeOK, LinkTypeOK, Within, Silent, fdVars
<1>4. PlaceTypeOK'
  BY WithinType DEF TypeOK, PlaceTypeOK, HandlersHaveArguments
<1> QED
  BY <1>1, <1>2, <1>3, <1>4 DEF TypeOK

\* SET looks the table up again.
LEMMA set_find_type ==
  ASSUME TypeOK, NEW c \in Conn, set_find(c) PROVE TypeOK'
<1> USE DEF set_find
<1>1. TableTypeOK' /\ ServerTypeOK'
  BY FrameType DEF TypeOK
<1>2. LinkTypeOK'
  BY DEF TypeOK, LinkTypeOK, Within, Silent, fdVars
<1>3. PlaceTypeOK'
  BY WithinType DEF TypeOK, PlaceTypeOK, HandlersHaveArguments
<1> QED
  BY <1>1, <1>2, <1>3 DEF TypeOK

\* SET takes a value from the stack, which is there, and stores it.
LEMMA set_store_type ==
  ASSUME TypeOK, NEW c \in Conn, set_store(c) PROVE TypeOK'
<1> USE DEF set_store
<1>1. TableTypeOK'
  <2>1. table_name[c] \in TableName /\ key_name[c] \in Key
    BY DEF TypeOK, PlaceTypeOK, HandlersHaveArguments
  <2>2. Top(stack[c]) \in Value
    BY PopIsStack
    DEF TypeOK, LinkTypeOK, PlaceTypeOK, HandlersHaveArguments, IsEmpty
  <2> QED
    BY <2>1, <2>2, SetType DEF TypeOK
<1>2. ServerTypeOK'
  BY FrameType DEF TypeOK 
<1>3. LinkTypeOK'
  <2>1. stack' \in [Conn -> Seq(Value)]
    BY PopIsStack
    DEF TypeOK, LinkTypeOK, PlaceTypeOK, HandlersHaveArguments, IsEmpty
  <2>2. raced' \in BOOLEAN
    BY AccessType
  <2>3. CASE Silent
    BY <2>1, <2>2, <2>3 DEF TypeOK, LinkTypeOK, Silent, fdVars
  <2>4. CASE send_message(c, "OK")
    BY <2>1, <2>2, <2>4, SendType DEF TypeOK, LinkTypeOK, Reply
  <2> QED
    BY <2>3, <2>4
<1>4. PlaceTypeOK'
  <2>1. CASE Goto(c, "set_commit")
    BY <2>1 DEF TypeOK, PlaceTypeOK, HandlersHaveArguments, Goto, argVars
  <2>2. CASE Goto(c, "set_end")
    BY <2>2 DEF TypeOK, PlaceTypeOK, HandlersHaveArguments, Goto, argVars
  <2> QED
    BY <2>1, <2>2
<1> QED
  BY <1>1, <1>2, <1>3, <1>4 DEF TypeOK

\* SET commits the table.
LEMMA set_commit_type ==
  ASSUME TypeOK, NEW c \in Conn, set_commit(c) PROVE TypeOK'
<1> USE DEF set_commit
<1>1. TableTypeOK'
  <2>1. table_name[c] \in TableName
    BY DEF TypeOK, PlaceTypeOK, HandlersHaveArguments
  <2> QED
    BY <2>1, CommitType DEF TypeOK
<1>2. ServerTypeOK'
  BY FrameType DEF TypeOK 
<1>3. LinkTypeOK'
  <2>1. raced' \in BOOLEAN
    BY AccessType
  <2> QED
    BY <2>1 DEF TypeOK, LinkTypeOK, Within, Silent, fdVars
<1>4. PlaceTypeOK'
  BY WithinType DEF TypeOK, PlaceTypeOK, HandlersHaveArguments
<1> QED
  BY <1>1, <1>2, <1>3, <1>4 DEF TypeOK

\* SET releases the mutex and answers.
LEMMA set_unlock_type ==
  ASSUME TypeOK, NEW c \in Conn, set_unlock(c) PROVE TypeOK'
<1> USE DEF set_unlock
<1>1. TableTypeOK'
  BY DEF TypeOK, TableTypeOK, unlock
<1>2. ServerTypeOK'
  BY FrameType DEF TypeOK 
<1>3. LinkTypeOK'
  BY SendType DEF TypeOK, LinkTypeOK, Reply
<1>4. PlaceTypeOK'
  BY DEF TypeOK, PlaceTypeOK, HandlersHaveArguments, Goto, argVars
<1> QED
  BY <1>1, <1>2, <1>3, <1>4 DEF TypeOK

\* The end of a SET.
LEMMA set_end_type ==
  ASSUME TypeOK, NEW c \in Conn, set_end(c) PROVE TypeOK'
<1> USE DEF set_end
<1>1. TableTypeOK' /\ ServerTypeOK'
  BY FrameType DEF TypeOK
<1>2. LinkTypeOK'
  <2>1. Silent
    BY DEF Within
  <2> QED
    BY <2>1 DEF TypeOK, LinkTypeOK, Silent, fdVars
<1>3. PlaceTypeOK'
  <2>1. CASE Back(c)
    BY <2>1, BackType DEF TypeOK, PlaceTypeOK, HandlersHaveArguments
  <2>2. CASE Within(c, "set_unlock_again")
    BY <2>2, WithinType DEF TypeOK, PlaceTypeOK, HandlersHaveArguments
  <2> QED
    BY <2>1, <2>2
<1> QED
  BY <1>1, <1>2, <1>3 DEF TypeOK

\* SET releases the mutex once more.
LEMMA set_unlock_again_type ==
  ASSUME TypeOK, NEW c \in Conn, set_unlock_again(c) PROVE TypeOK'
<1> USE DEF set_unlock_again
<1>1. TableTypeOK'
  BY DEF TypeOK, TableTypeOK, unlock
<1>2. ServerTypeOK'
  BY FrameType DEF TypeOK 
<1>3. LinkTypeOK'
  BY DEF TypeOK, LinkTypeOK, Silent, fdVars
<1>4. PlaceTypeOK'
  BY BackType DEF TypeOK, PlaceTypeOK, HandlersHaveArguments
<1> QED
  BY <1>1, <1>2, <1>3, <1>4 DEF TypeOK

\* GET finds its table or fails.
LEMMA get_checks_type ==
  ASSUME TypeOK, NEW c \in Conn, get_checks(c) PROVE TypeOK'
<1> USE DEF get_checks
<1>1. TableTypeOK' /\ ServerTypeOK'
  BY FrameType DEF TypeOK
<1>2. LinkTypeOK'
  <2>1. CASE Finish(c, "FAILED")
    BY <2>1, SendType DEF TypeOK, LinkTypeOK, Reply, Finish
  <2>2. CASE Silent /\ UNCHANGED stack
    BY <2>2 DEF TypeOK, LinkTypeOK, Silent, fdVars
  <2> QED
    BY <2>1, <2>2 DEF Within
<1>3. PlaceTypeOK'
  <2>1. CASE Finish(c, "FAILED")
    BY <2>1, BackType DEF TypeOK, PlaceTypeOK, HandlersHaveArguments, Finish
  <2>2. CASE (Within(c, "get_find") \/ Within(c, "get_wait")) /\ UNCHANGED stack
    BY <2>2, WithinType DEF TypeOK, PlaceTypeOK, HandlersHaveArguments
  <2> QED
    BY <2>1, <2>2
<1> QED
  BY <1>1, <1>2, <1>3 DEF TypeOK

\* GET waits for the mutex of the table.
LEMMA get_wait_type ==
  ASSUME TypeOK, NEW c \in Conn, get_wait(c) PROVE TypeOK'
<1> USE DEF get_wait
<1>1. TableTypeOK'
  BY DEF TypeOK, TableTypeOK, lock
<1>2. ServerTypeOK'
  BY FrameType DEF TypeOK 
<1>3. LinkTypeOK'
  BY DEF TypeOK, LinkTypeOK, Within, Silent, fdVars
<1>4. PlaceTypeOK'
  BY WithinType DEF TypeOK, PlaceTypeOK, HandlersHaveArguments
<1> QED
  BY <1>1, <1>2, <1>3, <1>4 DEF TypeOK

\* GET looks the table up again.
LEMMA get_find_type ==
  ASSUME TypeOK, NEW c \in Conn, get_find(c) PROVE TypeOK'
<1> USE DEF get_find
<1>1. TableTypeOK' /\ ServerTypeOK'
  BY FrameType DEF TypeOK
<1>2. LinkTypeOK'
  BY DEF TypeOK, LinkTypeOK, Within, Silent, fdVars
<1>3. PlaceTypeOK'
  BY WithinType DEF TypeOK, PlaceTypeOK, HandlersHaveArguments
<1> QED
  BY <1>1, <1>2, <1>3 DEF TypeOK

\* GET pushes an entry, which is a value, or misses.
LEMMA get_read_type ==
  ASSUME TypeOK, NEW c \in Conn, get_read(c) PROVE TypeOK'
<1> USE DEF get_read
<1>1. TableTypeOK' /\ ServerTypeOK'
  BY FrameType DEF TypeOK
<1>2. LinkTypeOK'
  <2>1. raced' \in BOOLEAN
    BY AccessType
  <2> DEFINE entry == Visible(table_name[c])[key_name[c]]
  <2>2. CASE /\ send_message(c, "OK") /\ entry # Absent
             /\ stack' = [stack EXCEPT ![c] = Push(@, entry)]
    <3>1. table_name[c] \in TableName /\ key_name[c] \in Key
      BY DEF TypeOK, PlaceTypeOK, HandlersHaveArguments
    <3>2. entry \in Value
      BY <2>2, <3>1, SMTT(30) DEF TypeOK, TableTypeOK, Visible, Overlay
    <3>3. Push(stack[c], entry) \in Seq(Value)
      BY <3>2, PushIsStack DEF TypeOK, LinkTypeOK
    <3>4. stack' \in [Conn -> Seq(Value)]
      BY <2>2, <3>3 DEF TypeOK, LinkTypeOK
    <3> QED
      BY <2>1, <2>2, <3>4, SendType DEF TypeOK, LinkTypeOK, Reply
  <2>3. CASE Silent /\ UNCHANGED stack
    BY <2>1, <2>3 DEF TypeOK, LinkTypeOK, Silent, fdVars
  <2> QED
    BY <2>2, <2>3
<1>3. PlaceTypeOK'
  <2>1. \A d \in Conn \ {c} : stack'[d] = stack[d]
    BY DEF TypeOK, LinkTypeOK
  <2>2. PICK label \in {"get_end", "get_miss"} : Goto(c, label)
    OBVIOUS
  <2>3. /\ pc[c] = "get_read" /\ pc' \in [Conn -> Label] /\ pc'[c] = label
        /\ \A d \in Conn \ {c} : pc'[d] = pc[d]
    BY <2>2 DEF TypeOK, PlaceTypeOK, Goto
  <2>4. UNCHANGED <<table_name, key_name, unvisited, served>>
    BY DEF argVars
  <2> QED
    BY <2>1, <2>3, <2>4 DEF TypeOK, PlaceTypeOK, HandlersHaveArguments
<1> QED
  BY <1>1, <1>2, <1>3 DEF TypeOK

\* The end of a GET that has found its entry.
LEMMA get_end_type ==
  ASSUME TypeOK, NEW c \in Conn, get_end(c) PROVE TypeOK'
<1> USE DEF get_end
<1>1. TableTypeOK' /\ ServerTypeOK'
  BY FrameType DEF TypeOK
<1>2. LinkTypeOK'
  <2>1. Silent
    BY DEF Within
  <2> QED
    BY <2>1 DEF TypeOK, LinkTypeOK, Silent, fdVars
<1>3. PlaceTypeOK'
  <2>1. CASE Back(c)
    BY <2>1, BackType DEF TypeOK, PlaceTypeOK, HandlersHaveArguments
  <2>2. CASE Within(c, "get_unlock")
    BY <2>2, WithinType DEF TypeOK, PlaceTypeOK, HandlersHaveArguments
  <2> QED
    BY <2>1, <2>2
<1> QED
  BY <1>1, <1>2, <1>3 DEF TypeOK

\* GET releases the mutex.
LEMMA get_unlock_type ==
  ASSUME TypeOK, NEW c \in Conn, get_unlock(c) PROVE TypeOK'
<1> USE DEF get_unlock
<1>1. TableTypeOK'
  BY DEF TypeOK, TableTypeOK, unlock
<1>2. ServerTypeOK'
  BY FrameType DEF TypeOK 
<1>3. LinkTypeOK'
  BY DEF TypeOK, LinkTypeOK, Silent, fdVars
<1>4. PlaceTypeOK'
  BY BackType DEF TypeOK, PlaceTypeOK, HandlersHaveArguments
<1> QED
  BY <1>1, <1>2, <1>3, <1>4 DEF TypeOK

\* The end of a GET that has not.
LEMMA get_miss_type ==
  ASSUME TypeOK, NEW c \in Conn, get_miss(c) PROVE TypeOK'
<1> USE DEF get_miss
<1>1. TableTypeOK' /\ ServerTypeOK'
  BY FrameType DEF TypeOK
<1>2. LinkTypeOK'
  BY DEF TypeOK, LinkTypeOK, Within, Silent, fdVars
<1>3. PlaceTypeOK'
  <2>1. Within(c, "get_miss_flag") \/ Within(c, "get_miss_unlock")
    OBVIOUS
  <2> QED
    BY <2>1, WithinType DEF TypeOK, PlaceTypeOK, HandlersHaveArguments
<1> QED
  BY <1>1, <1>2, <1>3 DEF TypeOK

\* GET releases the mutex after a miss.
LEMMA get_miss_unlock_type ==
  ASSUME TypeOK, NEW c \in Conn, get_miss_unlock(c) PROVE TypeOK'
<1> USE DEF get_miss_unlock
<1>1. TableTypeOK'
  BY DEF TypeOK, TableTypeOK, unlock
<1>2. ServerTypeOK'
  BY FrameType DEF TypeOK 
<1>3. LinkTypeOK'
  BY DEF TypeOK, LinkTypeOK, Within, Silent, fdVars
<1>4. PlaceTypeOK'
  BY WithinType DEF TypeOK, PlaceTypeOK, HandlersHaveArguments
<1> QED
  BY <1>1, <1>2, <1>3, <1>4 DEF TypeOK

\* GET drops the record of a table it may have locked.
LEMMA get_miss_flag_type ==
  ASSUME TypeOK, NEW c \in Conn, get_miss_flag(c) PROVE TypeOK'
<1> USE DEF get_miss_flag
<1>1. TableTypeOK'
  <2>1. CASE unlock_table(table_name[c], id(c))
    BY <2>1 DEF TypeOK, TableTypeOK, unlock_table, unlock
  <2>2. CASE UNCHANGED m_mutex
    BY <2>2 DEF TypeOK, TableTypeOK
  <2> QED
    BY <2>1, <2>2
<1>2. ServerTypeOK'
  <2>1. CASE unlock_table(table_name[c], id(c))
    <3>1. id(c) \in ClientId
      BY DEF TypeOK, LinkTypeOK, id
    <3> QED
      BY <2>1, <3>1 DEF TypeOK, ServerTypeOK, unlock_table
  <2>2. CASE UNCHANGED serverVars
    BY <2>2 DEF TypeOK, ServerTypeOK, serverVars
  <2> QED
    BY <2>1, <2>2
<1>3. LinkTypeOK'
  <2>1. CASE Finish(c, "FAILED")
    BY <2>1, SendType DEF TypeOK, LinkTypeOK, Reply, Finish
  <2>2. CASE Silent /\ UNCHANGED stack
    BY <2>2 DEF TypeOK, LinkTypeOK, Silent, fdVars
  <2> QED
    BY <2>1, <2>2
<1>4. PlaceTypeOK'
  <2>1. unvisited[c] = {}
    BY DEF TypeOK, PlaceTypeOK, HandlersHaveArguments
  <2>2. CASE Finish(c, "FAILED")
    BY <2>1, <2>2, BackType DEF Finish
  <2>3. CASE Fail(c) /\ UNCHANGED stack
    BY <2>1, <2>3, LeaveType DEF Fail
  <2> QED
    BY <2>2, <2>3
<1> QED
  BY <1>1, <1>2, <1>3, <1>4 DEF TypeOK

\* The initial states have their types.
LEMMA InitType == ASSUME Init PROVE TypeOK
<1> USE DEF Init
<1>1. TableTypeOK
  BY TableAssumption DEF TableTypeOK, TableInit
<1>2. ServerTypeOK
  BY ServerAssumption DEF ServerTypeOK, ServerInit
<1>3. LinkTypeOK
  <2>1. << >> \in Seq(Value)
    OBVIOUS
  <2> QED
    BY <2>1 DEF LinkTypeOK
<1>4. PlaceTypeOK
  BY ClientConnectionAssumption
  DEF PlaceTypeOK, HandlersHaveArguments
<1> QED
  BY <1>1, <1>2, <1>3, <1>4 DEF TypeOK

\* A step of the session c that waits for its client.
LEMMA ServeType ==
  ASSUME TypeOK, NEW c \in Conn, Serve(c) PROVE TypeOK'
BY Accept_type, ThreadRefused_type, Login_type, NotLogin_type, BadInput_type,
   Receive_type, LoginAgain_type, reject_type, handle_bye_request_type,
   handle_push_request_type, handle_pop_request_type, handle_top_request_type,
   arithmetic_type
DEF Serve, handle_arithmetic_request

\* A step of the session c on its own.
LEMMA HandleType ==
  ASSUME TypeOK, NEW c \in Conn, Handle(c) PROVE TypeOK'
BY CloseOnException_type, rollback_transaction_type,
   handle_create_request_type, handle_begin_request_type, commit_begins_type,
   commit_table_type, commit_unlock_type, commit_ends_type,
   set_checks_type, set_trylock_type, set_wait_type, set_find_type,
   set_store_type, set_commit_type, set_unlock_type, set_end_type,
   set_unlock_again_type, get_checks_type, get_wait_type, get_find_type,
   get_read_type, get_end_type, get_unlock_type, get_miss_type,
   get_miss_unlock_type, get_miss_flag_type
DEF Handle

\* Nothing changes but whether the process is alive.
LEMMA StutterType ==
  ASSUME TypeOK, up' \in BOOLEAN, raced' \in BOOLEAN,
         UNCHANGED <<tableVars, serverVars, pc, fdVars, stack, argVars, served, reply>>
  PROVE  TypeOK'
<1>1. TableTypeOK' /\ ServerTypeOK'
  BY FrameType DEF TypeOK
<1>2. LinkTypeOK'
  BY DEF TypeOK, LinkTypeOK, fdVars
<1>3. PlaceTypeOK'
  BY DEF TypeOK, PlaceTypeOK, HandlersHaveArguments, argVars
<1> QED
  BY <1>1, <1>2, <1>3 DEF TypeOK

\* Every step preserves the types.
LEMMA NextType == ASSUME TypeOK, [Next]_vars PROVE TypeOK'
<1>1. CASE \E c \in Conn : Serve(c) \/ Handle(c)
  BY <1>1, ServeType, HandleType
<1>2. CASE Segfault
  BY <1>2, StutterType DEF Segfault
<1>3. CASE UNCHANGED vars
  <2>1. up \in BOOLEAN /\ raced \in BOOLEAN
    BY DEF TypeOK, LinkTypeOK
  <2> QED
    BY <1>3, <2>1, StutterType DEF vars
<1> QED
  BY <1>1, <1>2, <1>3 DEF Next, Terminating

\* TYPE CORRECTNESS.  In every reachable state every variable has its type: in
\* particular each operand and result is an int or a text that was pushed, no
\* handler runs without the table, key and value it needs, and a session that
\* is not committing has no table left to commit.
THEOREM TypeCorrect == Spec => []TypeOK
<1>1. Init => TypeOK
  BY InitType
<1>2. TypeOK /\ [Next]_vars => TypeOK'
  BY NextType
<1> QED
  BY <1>1, <1>2, PTL DEF Spec

-----------------------------------------------------------------------------
(* The invariants that hold whatever the heap and the faults.  What a step *)
(* of a session does is first summed up action by action, in terms of the  *)
(* few things the invariants are about; that a step preserves each of them *)
(* then follows from the summary.                                          *)

\* The labels at which a thread holds the server's mutex between two steps.
Holding == CommitLoop \cup {"rollback_self"}

\* The labels of a handler that has found its table.
Found == (SetLabels \ {"SET"}) \cup (GetLabels \ {"GET"})

\* The server's mutex is taken when free, kept, or released by its holder.
MovesMutex(c) ==
  \/ pc[c] \notin Holding /\ pc'[c] \notin Holding /\ mutex' = mutex
  \/ pc[c] \notin Holding /\ pc'[c] \in Holding /\ mutex = Free /\ mutex' = c
  \/ pc[c] \in Holding /\ pc'[c] \in Holding /\ mutex' = mutex
  \/ pc[c] \in Holding /\ pc'[c] \notin Holding /\ mutex' = Free

\* No table is lost; a name is recorded after it was found; the loop of a
\* commit visits what was recorded.
KeepsNames(c) ==
  /\ tables \subseteq tables'
  /\ pc'[c] \in Found => /\ table_name'[c] = table_name[c]
                         /\ pc[c] \in Found \/ table_name[c] \in tables
  /\ unvisited'[c] \subseteq unvisited[c] \cup transaction_locks[id(c)]
  /\ \A client \in ClientId : \A t \in transaction_locks'[client] :
       \/ t \in transaction_locks[client]
       \/ pc[c] = "set_lock" /\ t = table_name[c]

\* A session keeps its descriptor, closes it, or gets one that is not open.
MovesDescriptor(c) ==
  m_client_fd'[c] \in {m_client_fd[c], NoFd} \cup (Fd \ OpenFds)

Unmoved(d) ==
  /\ pc'[d] = pc[d] /\ m_client_fd'[d] = m_client_fd[d]
  /\ table_name'[d] = table_name[d] /\ unvisited'[d] = unvisited[d]

Footprint(c) ==
  /\ \A d \in Conn \ {c} : Unmoved(d)
  /\ MovesMutex(c) /\ KeepsNames(c) /\ MovesDescriptor(c)

\* The types that the summary needs.
Mappings ==
  /\ pc \in [Conn -> Label]
  /\ m_client_fd \in [Conn -> ClientId]
  /\ table_name \in [Conn -> TableName \cup {Absent}]
  /\ unvisited \in [Conn -> SUBSET TableName]
  /\ transaction_locks \in [ClientId -> SUBSET TableName]

-----------------------------------------------------------------------------

\* What a reply does to the descriptors.
LEMMA SendDescriptor ==
  ASSUME Mappings, NEW c \in Conn, NEW r
  PROVE  send_message(c, r) \/ send_and_close(c, r) =>
           /\ m_client_fd'[c] \in {m_client_fd[c], NoFd}
           /\ \A d \in Conn \ {c} : m_client_fd'[d] = m_client_fd[d]
BY DEF Mappings, send_message, send_and_close, Written, Lost, Killed, close_connection

\* The labels and the parts of the summary are expanded from here on.
USE DEF Footprint, Unmoved, MovesMutex, KeepsNames, MovesDescriptor, Holding, Found,
        CommitLoop, SetLabels, SetLocked, GetLabels, GetLocked

\* The steps of a session that wait for its client leave the summary true.
LEMMA ServeFootprint ==
  ASSUME Mappings, NEW c \in Conn, Serve(c) PROVE Footprint(c)
<1> USE SendDescriptor
        DEF Mappings, Goto, LocalStep, read_message, Silent, serverVars, fdVars, argVars
<1>1. CASE Accept(c)
  BY <1>1 DEF Accept, accepts
<1>2. CASE ThreadRefused(c)
  BY <1>2 DEF ThreadRefused, delete_connection, close_connection
<1>3. CASE Login(c)
  BY <1>3 DEF Login
<1>4. CASE NotLogin(c)
  BY <1>4 DEF NotLogin, delete_connection
<1>5. CASE BadInput(c)
  BY <1>5 DEF BadInput
<1>6. CASE Receive(c)
  BY <1>6 DEF Receive
<1>7. CASE LoginAgain(c)
  BY <1>7 DEF LoginAgain
<1>8. CASE reject(c)
  BY <1>8 DEF reject
<1>9. CASE handle_bye_request(c)
  BY <1>9 DEF handle_bye_request, delete_connection
<1>10. CASE handle_push_request(c)
  BY <1>10 DEF handle_push_request
<1>11. CASE handle_pop_request(c)
  BY <1>11 DEF handle_pop_request
<1>12. CASE handle_top_request(c)
  BY <1>12 DEF handle_top_request
<1>13. CASE handle_arithmetic_request(c)
  BY <1>13 DEF handle_arithmetic_request, arithmetic, delete_connection, close_connection
<1> QED
  BY <1>1, <1>2, <1>3, <1>4, <1>5, <1>6, <1>7, <1>8, <1>9, <1>10, <1>11, <1>12,
     <1>13 DEF Serve

\* ... and so do the steps it takes on its own.
LEMMA HandleFootprint ==
  ASSUME Mappings, NEW c \in Conn, Handle(c) PROVE Footprint(c)
<1> USE SendDescriptor
        DEF Mappings, Guard, Goto, Within, Leave, Back, Fail, Finish, Silent,
            serverVars, fdVars, argVars
<1>1. CASE CloseOnException(c)
  BY <1>1 DEF CloseOnException, delete_connection
<1>2. CASE rollback_transaction(c)
  BY <1>2 DEF rollback_transaction
<1>3. CASE handle_create_request(c)
  BY <1>3 DEF handle_create_request, create_table
<1>4. CASE handle_begin_request(c)
  BY <1>4 DEF handle_begin_request, begin_transaction
<1>5. CASE commit_begins(c)
  BY <1>5 DEF commit_begins
<1>6. CASE commit_table(c)
  BY <1>6 DEF commit_table
<1>7. CASE commit_unlock(c)
  BY <1>7 DEF commit_unlock
<1>8. CASE commit_ends(c)
  BY <1>8 DEF commit_ends, end_transaction
<1>9. CASE set_checks(c)
  BY <1>9 DEF set_checks
<1>10. CASE set_trylock(c)
  BY <1>10 DEF set_trylock, record_lock
<1>11. CASE set_wait(c)
  BY <1>11 DEF set_wait
<1>12. CASE set_find(c)
  BY <1>12 DEF set_find
<1>13. CASE set_store(c)
  BY <1>13 DEF set_store
<1>14. CASE set_commit(c)
  BY <1>14 DEF set_commit
<1>15. CASE set_unlock(c)
  BY <1>15 DEF set_unlock
<1>16. CASE set_end(c)
  BY <1>16 DEF set_end
<1>17. CASE set_unlock_again(c)
  BY <1>17 DEF set_unlock_again
<1>18. CASE get_checks(c)
  BY <1>18 DEF get_checks
<1>19. CASE get_wait(c)
  BY <1>19 DEF get_wait
<1>20. CASE get_find(c)
  BY <1>20 DEF get_find
<1>21. CASE get_read(c)
  BY <1>21 DEF get_read
<1>22. CASE get_end(c)
  BY <1>22 DEF get_end
<1>23. CASE get_unlock(c)
  BY <1>23 DEF get_unlock
<1>24. CASE get_miss(c)
  BY <1>24 DEF get_miss
<1>25. CASE get_miss_unlock(c)
  BY <1>25 DEF get_miss_unlock
<1>26. CASE get_miss_flag(c)
  BY <1>26 DEF get_miss_flag, unlock_table
<1> QED
  BY <1>1, <1>2, <1>3, <1>4, <1>5, <1>6, <1>7, <1>8, <1>9, <1>10, <1>11, <1>12,
     <1>13, <1>14, <1>15, <1>16, <1>17, <1>18, <1>19, <1>20, <1>21, <1>22,
     <1>23, <1>24, <1>25, <1>26 DEF Handle

-----------------------------------------------------------------------------
(* What the summary preserves.                                             *)

\* No two open sessions share a descriptor, and so a client id.
DescriptorsAreDistinct ==
  \A c, d \in Conn : m_client_fd[c] = m_client_fd[d] /\ c # d => m_client_fd[c] = NoFd

\* The invariants that hold whatever the heap and the faults.
Safe ==
  TypeOK /\ MutexHeldByCommitOrRollback /\ CommitFindsTables /\ DescriptorsAreDistinct

\* TypeOK gives the types that the summary needs.
LEMMA TypeMappings == TypeOK => Mappings
BY DEF TypeOK, LinkTypeOK, PlaceTypeOK, ServerTypeOK, Mappings

\* The mutex has one holder, and a thread is its holder where it should be.
LEMMA KeepsMutex ==
  ASSUME MutexHeldByCommitOrRollback, NEW c \in Conn, Footprint(c)
  PROVE  MutexHeldByCommitOrRollback'
BY TableAssumption DEF MutexHeldByCommitOrRollback

\* What commit_transaction and the handlers look up is still there.
LEMMA KeepsTables ==
  ASSUME Mappings, CommitFindsTables, NEW c \in Conn, Footprint(c)
  PROVE  CommitFindsTables'
<1> USE DEF CommitFindsTables
<1>1. \A client \in ClientId : transaction_locks'[client] \subseteq tables'
  BY pc[c] = "set_lock" => table_name[c] \in tables
<1>2. \A d \in Conn : unvisited'[d] \subseteq tables'
  BY id(c) \in ClientId DEF Mappings, id
<1>3. \A d \in Conn : pc'[d] \in Found => table_name'[d] \in tables'
  OBVIOUS
<1> QED
  BY <1>1, <1>2, <1>3

\* A descriptor is given to a session only while no other has it.
LEMMA KeepsDescriptors ==
  ASSUME Mappings, DescriptorsAreDistinct, NEW c \in Conn, Footprint(c)
  PROVE  DescriptorsAreDistinct'
<1>1. \A d \in Conn \ {c} : m_client_fd'[d] = m_client_fd'[c] => m_client_fd'[c] = NoFd
  BY DEF OpenFds, DescriptorsAreDistinct
<1> QED
  BY <1>1 DEF DescriptorsAreDistinct, Mappings

\* Safe holds of the initial states, where no session has begun.
LEMMA InitSafe == Init => Safe
<1> SUFFICES ASSUME Init PROVE Safe
  OBVIOUS
<1>1. TypeOK
  BY InitType
<1>2. MutexHeldByCommitOrRollback
  BY TableAssumption DEF Init, ServerInit, MutexHeldByCommitOrRollback
<1>3. CommitFindsTables /\ DescriptorsAreDistinct
  BY DEF Init, ServerInit, CommitFindsTables, DescriptorsAreDistinct
<1> QED
  BY <1>1, <1>2, <1>3 DEF Safe

\* Every step preserves it.
LEMMA NextSafe == Safe /\ [Next]_vars => Safe'
<1> SUFFICES ASSUME Safe, [Next]_vars PROVE Safe'
  OBVIOUS
<1>1. TypeOK' /\ Mappings
  BY NextType, TypeMappings DEF Safe
<1>2. CASE up /\ \E c \in Conn : Serve(c) \/ Handle(c)
  <2>1. PICK c \in Conn : Serve(c) \/ Handle(c)
    BY <1>2
  <2>2. Footprint(c)
    BY <1>1, <2>1, ServeFootprint, HandleFootprint
  <2>3. MutexHeldByCommitOrRollback'
    BY <2>2, KeepsMutex DEF Safe
  <2>4. CommitFindsTables'
    BY <1>1, <2>2, KeepsTables DEF Safe
  <2>5. DescriptorsAreDistinct'
    BY <1>1, <2>2, KeepsDescriptors DEF Safe
  <2> QED
    BY <1>1, <2>3, <2>4, <2>5 DEF Safe
<1>3. CASE Segfault \/ UNCHANGED vars
  BY <1>1, <1>3 DEF Safe, Segfault, vars, serverVars, fdVars, argVars,
     MutexHeldByCommitOrRollback, CommitFindsTables, DescriptorsAreDistinct
<1> QED
  BY <1>2, <1>3 DEF Next, Terminating

\* Together they are an invariant of the server.
LEMMA AlwaysSafe == Spec => []Safe
BY InitSafe, NextSafe, PTL DEF Spec

\* COMMIT IS ATOMIC.  Only the loop of a commit, or a rollback that can never
\* go on, holds the server's mutex between two steps, and these hold it: no
\* other BEGIN, COMMIT, CREATE or lookup of a table comes in between.
THEOREM CommitIsAtomic == Spec => []MutexHeldByCommitOrRollback
BY AlwaysSafe, PTL DEF Safe

\* COMMIT FINDS ITS TABLES.  The iterator that commit_transaction dereferences
\* without a test is never end(), though the names it looks up may have been
\* recorded by an earlier session with the same descriptor.
THEOREM CommitIsSafe == Spec => []CommitFindsTables
BY AlwaysSafe, PTL DEF Safe
=============================================================================
