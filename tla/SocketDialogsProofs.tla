------------------------ MODULE SocketDialogsProofs -------------------------
(***************************************************************************)
(* Proofs about triggers, dialogs and the system calls made through them,  *)
(* for every number of triggers, executors, dialogs, sockets, operations   *)
(* and addresses.                                                          *)
(***************************************************************************)
EXTENDS SocketDialogs, SequenceTheorems, TLAPS

Conns == {"idle", "listening", "connecting", "connected", "refused"}
Descriptors == [name : Names \cup {<<>>}, flags : SUBSET {"O_NONBLOCK"}, conn : Conns]
StartedOps == [kind : Kinds, executor : Executors, socket : Sockets]
DialogStates == [executor : Executors \cup {Nil}, socket : Sockets \cup {Nil}]

\* While connect() is in the kernel, what it will submit is complete: nothing else runs
\* in this thread meanwhile.
CallOK ==
  calling # Nil =>
    LET d == calling[2]
    IN /\ calling \in Ops \X Dialogs
       /\ dialog[d].executor # Nil /\ dialog[d].socket # Nil

\* The inductive invariant.
DialogInv == DialogTypeOK /\ CallOK

-----------------------------------------------------------------------------
(* Addresses.                                                              *)

\* A default constructed address is AddrSize zeros, all of them counted.
LEMMA ZeroAddress ==
  /\ [i \in 1 .. AddrSize |-> 0] \in Seq(Nat)
  /\ Len([i \in 1 .. AddrSize |-> 0]) = AddrSize
  /\ AsSpan(MakeAddress) = [i \in 1 .. AddrSize |-> 0]
<1> DEFINE z == [i \in 1 .. AddrSize |-> 0]
<1>1. AddrSize \in Nat
  BY DialogAssumption
<1>2. z \in Seq(Nat) /\ Len(z) = AddrSize
  BY <1>1
<1>3. SubSeq(z, 1, AddrSize) = z
  <2>1. \A i \in 1 .. AddrSize : z[i] \in Nat
    OBVIOUS
  <2> HIDE DEF z
  <2>2. /\ SubSeq(z, 1, AddrSize) \in Seq(Nat)
        /\ Len(SubSeq(z, 1, AddrSize)) = IF 1 <= AddrSize THEN AddrSize - 1 + 1 ELSE 0
        /\ \A i \in 1 .. AddrSize - 1 + 1 : SubSeq(z, 1, AddrSize)[i] = z[1 + i - 1]
    BY <1>1, <2>1, SubSeqProperties
  <2>3. Len(SubSeq(z, 1, AddrSize)) = AddrSize
    BY <1>1, <2>2
  <2>4. \A i \in 1 .. AddrSize : SubSeq(z, 1, AddrSize)[i] = z[i]
    BY <1>1, <2>2
  <2> QED BY <1>2, <2>2, <2>3, <2>4, SeqEqual
<1> QED BY <1>2, <1>3 DEF AsSpan, MakeAddress

\* The span of an option made from an address is that address.
LEMMA SpanOfOption ==
  ASSUME NEW a \in Addresses
  PROVE  AsSpan(Option(a)) = a
<1> DEFINE f == [i \in 1 .. AddrSize |-> IF i <= Len(a) THEN a[i] ELSE 0]
           s == SubSeq(f, 1, Len(a))
<1>1. a \in Seq(Nat) /\ Len(a) \in 1 .. AddrSize /\ AddrSize \in Nat
  BY DialogAssumption
<1>2. Len(a) \in Int /\ \A i \in 1 .. Len(a) : f[i] = a[i] /\ a[i] \in Nat
  BY <1>1, LenProperties
<1>3. AsSpan(Option(a)) = s
  BY DEF AsSpan, Option
<1> HIDE DEF f
<1>4. /\ s \in Seq(Nat) /\ Len(s) = IF 1 <= Len(a) THEN Len(a) - 1 + 1 ELSE 0
      /\ \A i \in 1 .. Len(a) - 1 + 1 : s[i] = f[1 + i - 1]
  BY <1>2, SubSeqProperties
<1>5. Len(s) = Len(a) /\ \A i \in 1 .. Len(a) : s[i] = a[i]
  BY <1>1, <1>2, <1>4
<1> HIDE DEF s
<1> QED BY <1>1, <1>3, <1>4, <1>5, SeqEqual

-----------------------------------------------------------------------------
(* Steps, by what they change.                                             *)

\* The steps that leave ownership and operations alone.
Calls ==
  \/ \E d \in Dialogs : Listen(d) \/ Shutdown(d) \/ Getsockopt(d)
  \/ \E d \in Dialogs, address \in {Option(a) : a \in Addresses} \cup {MakeAddress} : Bind(d, address)
  \/ \E s \in Sockets : Settle(s)

\* Such a step keeps every descriptor's flags, and what it writes has its type.
LEMMA CallsKernel ==
  ASSUME DialogTypeOK, Calls
  PROVE  /\ UNCHANGED <<executor_, dialog, op, error, calling>>
         /\ kernel' \in [Sockets -> Descriptors]
         /\ \A s \in Sockets : kernel'[s].flags = kernel[s].flags
<1>0. /\ kernel \in [Sockets -> Descriptors]
      /\ dialog \in [Dialogs -> DialogStates]
  BY DEF DialogTypeOK, Descriptors, Conns, DialogStates
<1>1. ASSUME NEW d \in Dialogs, CanCall(d) PROVE dialog[d].socket \in Sockets
  BY <1>0, <1>1 DEF CanCall, DialogStates
<1>2. ASSUME NEW s \in Sockets, NEW c \in Conns, kernel' = [kernel EXCEPT ![s].conn = c]
      PROVE  kernel' \in [Sockets -> Descriptors] /\ \A t \in Sockets : kernel'[t].flags = kernel[t].flags
  BY <1>0, <1>2 DEF Descriptors
<1>3. ASSUME NEW d \in Dialogs, Listen(d) \/ Shutdown(d) \/ Getsockopt(d)
      PROVE  /\ UNCHANGED <<executor_, dialog, op, error, calling>>
             /\ kernel' \in [Sockets -> Descriptors] /\ \A t \in Sockets : kernel'[t].flags = kernel[t].flags
  <2>1. /\ UNCHANGED <<executor_, dialog, op, error, calling>>
        /\ \E c \in Conns : kernel' = [kernel EXCEPT ![dialog[d].socket].conn = c]
        /\ CanCall(d)
    BY <1>3 DEF Listen, Shutdown, Getsockopt, SocketListen, SocketShutdown, SocketOption, Conns
  <2> QED BY <1>1, <1>2, <2>1
<1>4. ASSUME NEW d \in Dialogs, NEW address \in {Option(a) : a \in Addresses} \cup {MakeAddress},
             Bind(d, address)
      PROVE  /\ UNCHANGED <<executor_, dialog, op, error, calling>>
             /\ kernel' \in [Sockets -> Descriptors] /\ \A t \in Sockets : kernel'[t].flags = kernel[t].flags
  <2>1. AsSpan(address) \in Names
    BY SpanOfOption, ZeroAddress DEF Names
  <2>2. /\ kernel' = [kernel EXCEPT ![dialog[d].socket].name = AsSpan(address)]
        /\ CanCall(d) /\ UNCHANGED <<executor_, dialog, op, error, calling>>
    BY <1>4 DEF Bind, SocketBind
  <2>3. dialog[d].socket \in Sockets
    BY <1>1, <2>2
  <2> QED BY <1>0, <2>1, <2>2, <2>3 DEF Descriptors
<1>5. ASSUME NEW s \in Sockets, Settle(s)
      PROVE  /\ UNCHANGED <<executor_, dialog, op, error, calling>>
             /\ kernel' \in [Sockets -> Descriptors] /\ \A t \in Sockets : kernel'[t].flags = kernel[t].flags
  <2>1. /\ UNCHANGED <<executor_, dialog, op, error, calling>>
        /\ \E c \in Conns : kernel' = [kernel EXCEPT ![s].conn = c]
    BY <1>5 DEF Settle, Conns
  <2> QED BY <1>2, <2>1
<1> QED BY <1>0, <1>3, <1>4, <1>5 DEF Calls

\* The effect of connect() returning: the connection of the socket moves on; unless it
\* was interrupted, the operation is submitted, and only a refused connection is blamed.
LEMMA ConnectReturnsEffect ==
  ASSUME DialogInv, ConnectReturns
  PROVE  /\ UNCHANGED <<executor_, dialog>>
         /\ kernel' \in [Sockets -> Descriptors]
         /\ \A t \in Sockets : kernel'[t].flags = kernel[t].flags
         /\ \/ UNCHANGED <<op, error, calling>>
            \/ /\ calling \in Ops \X Dialogs /\ calling' = Nil
               /\ Submit(calling[1], calling[2], "connect")
               /\ error' \in [Sockets -> {Nil, "EFAIL"}]
               /\ \A t \in Sockets : error'[t] = error[t] \/ kernel'[t].conn = "idle"
<1> DEFINE o == calling[1]
           d == calling[2]
           s == dialog[d].socket
<1>1. /\ calling \in Ops \X Dialogs /\ o \in Ops /\ d \in Dialogs /\ s \in Sockets
      /\ kernel \in [Sockets -> Descriptors] /\ error \in [Sockets -> {Nil, "EFAIL"}]
  <2>1. calling # Nil
    BY DEF ConnectReturns
  <2>2. /\ calling \in Ops \X Dialogs /\ dialog \in [Dialogs -> DialogStates] /\ s # Nil
        /\ kernel \in [Sockets -> Descriptors] /\ error \in [Sockets -> {Nil, "EFAIL"}]
    BY <2>1 DEF DialogInv, CallOK, DialogTypeOK, Descriptors, Conns, DialogStates
  <2> QED BY <2>2 DEF DialogStates
<1>2. PICK answer \in ConnectAnswers(kernel[s].conn) :
         /\ kernel' = [kernel EXCEPT ![s].conn = answer[2]]
         /\ IF answer[1] = "EINTR"
              THEN UNCHANGED <<op, error, calling>>
              ELSE /\ error' = [error EXCEPT ![s] =
                                  IF answer[1] \in InProgress \cup {"ok"} THEN @ ELSE "EFAIL"]
                   /\ Submit(o, d, "connect")
                   /\ calling' = Nil
  BY DEF ConnectReturns
<1>3. kernel[s].conn \in Conns
  BY <1>1 DEF Descriptors
<1>4. /\ answer[2] \in Conns
      /\ answer[1] \in InProgress \cup {"ok", "EINTR"} \/ answer[2] = "idle"
  <2>1. /\ kernel[s].conn = "idle" => answer[2] \in {"connected", "connecting", "idle"}
        /\ kernel[s].conn = "idle" => answer[1] \in {"ok", "EINPROGRESS", "EINTR", "EAGAIN"} \/ answer[2] = "idle"
    BY DEF ConnectAnswers
  <2>2. kernel[s].conn = "connecting" => answer = <<"EALREADY", "connecting">>
    BY DEF ConnectAnswers
  <2>3. kernel[s].conn = "connected" => answer = <<"EISCONN", "connected">>
    BY DEF ConnectAnswers
  <2>4. kernel[s].conn = "listening" => answer = <<"EISCONN", "listening">>
    BY DEF ConnectAnswers
  <2>5. kernel[s].conn = "refused" => answer = <<"ECONNREFUSED", "idle">>
    BY DEF ConnectAnswers
  <2> QED BY <1>3, <2>1, <2>2, <2>3, <2>4, <2>5 DEF Conns, InProgress
<1>5. /\ kernel' \in [Sockets -> Descriptors]
      /\ \A t \in Sockets : kernel'[t].flags = kernel[t].flags
      /\ kernel'[s].conn = answer[2]
  BY <1>1, <1>2, <1>4 DEF Descriptors
<1>6. ASSUME answer[1] # "EINTR"
      PROVE  /\ error' \in [Sockets -> {Nil, "EFAIL"}]
             /\ \A t \in Sockets : error'[t] = error[t] \/ kernel'[t].conn = "idle"
  BY <1>1, <1>2, <1>4, <1>5, <1>6
<1>7. UNCHANGED <<executor_, dialog>>
  BY DEF ConnectReturns
<1> QED BY <1>1, <1>2, <1>5, <1>6, <1>7

\* What submit writes has its type.
LEMMA SubmitStep ==
  ASSUME DialogInv, NEW o \in Ops, NEW d \in Dialogs, NEW kind \in Kinds,
         dialog[d].executor # Nil, dialog[d].socket # Nil,
         Submit(o, d, kind)
  PROVE  op' \in [Ops -> StartedOps \cup {NoOp}]
<1> DEFINE new == [kind |-> kind, executor |-> dialog[d].executor, socket |-> dialog[d].socket]
<1>1. /\ op \in [Ops -> StartedOps \cup {NoOp}] /\ dialog \in [Dialogs -> DialogStates]
  BY DEF DialogInv, DialogTypeOK, StartedOps, DialogStates
<1>2. new \in StartedOps
  BY <1>1 DEF StartedOps, DialogStates
<1>3. op' = [op EXCEPT ![o] = new]
  BY DEF Submit
<1> HIDE DEF new
<1> QED BY <1>1, <1>2, <1>3

\* Every step keeps the types and what connect needs.
LEMMA DialogStep == DialogInv /\ [DialogNext]_dialogVars => DialogInv'
<1> SUFFICES ASSUME DialogInv, [DialogNext]_dialogVars PROVE DialogInv'
  OBVIOUS
<1>0. /\ executor_ \in [Triggers -> Executors \cup {Nil}]
      /\ dialog \in [Dialogs -> DialogStates]
      /\ op \in [Ops -> StartedOps \cup {NoOp}]
      /\ kernel \in [Sockets -> Descriptors]
      /\ error \in [Sockets -> {Nil, "EFAIL"}]
      /\ calling \in (Ops \X Dialogs) \cup {Nil}
      /\ CallOK
      /\ Nil \notin Executors /\ Nil \notin Sockets /\ Nil \notin Kinds
  BY DialogAssumption
     DEF DialogInv, DialogTypeOK, DialogStates, StartedOps, Descriptors, Conns, Kinds
<1>t. ASSUME /\ executor_' \in [Triggers -> Executors \cup {Nil}]
             /\ dialog' \in [Dialogs -> DialogStates]
             /\ op' \in [Ops -> StartedOps \cup {NoOp}]
             /\ kernel' \in [Sockets -> Descriptors]
             /\ error' \in [Sockets -> {Nil, "EFAIL"}]
             /\ calling' \in (Ops \X Dialogs) \cup {Nil}
      PROVE  DialogTypeOK'
  BY <1>t DEF DialogTypeOK, DialogStates, StartedOps, Descriptors, Conns
<1>i. ASSUME Idle, calling' = calling PROVE CallOK'
  BY <1>i DEF Idle, CallOK
<1>1. ASSUME NEW g \in Triggers, NEW e \in Executors, Construct(g, e) PROVE DialogInv'
  <2>1. /\ Idle /\ executor_[g] = Nil /\ executor_' = [executor_ EXCEPT ![g] = e]
        /\ UNCHANGED <<dialog, op, kernel, error, calling>>
    BY <1>1 DEF Construct
  <2>2. executor_' \in [Triggers -> Executors \cup {Nil}]
    BY <1>0, <2>1
  <2> QED BY <1>0, <1>t, <1>i, <2>1, <2>2 DEF DialogInv
<1>2. ASSUME NEW g \in Triggers, NEW h \in Triggers, Move(g, h) PROVE DialogInv'
  <2>1. /\ Idle /\ executor_' = [executor_ EXCEPT ![g] = executor_[h], ![h] = Nil]
        /\ UNCHANGED <<dialog, op, kernel, error, calling>>
    BY <1>2 DEF Move
  <2>2. executor_' \in [Triggers -> Executors \cup {Nil}]
    BY <1>0, <2>1
  <2> QED BY <1>0, <1>t, <1>i, <2>1, <2>2 DEF DialogInv
<1>3. ASSUME NEW g \in Triggers, Destroy(g) PROVE DialogInv'
  <2>1. /\ Idle /\ executor_' = [executor_ EXCEPT ![g] = Nil]
        /\ UNCHANGED <<dialog, op, kernel, error, calling>>
    BY <1>3 DEF Destroy
  <2>2. executor_' \in [Triggers -> Executors \cup {Nil}]
    BY <1>0, <2>1
  <2> QED BY <1>0, <1>t, <1>i, <2>1, <2>2 DEF DialogInv
<1>4. ASSUME NEW g \in Triggers, NEW d \in Dialogs, NEW s \in Sockets, Emplace(g, d, s)
      PROVE  DialogInv'
  <2>1. /\ Idle /\ executor_[g] # Nil
        /\ dialog' = [dialog EXCEPT ![d] = [executor |-> executor_[g], socket |-> s]]
        /\ error' = [error EXCEPT ![s] = Nil]
        /\ kernel' = [kernel EXCEPT ![s] = Fcntl(NewSocket, NewSocket.flags \cup {"O_NONBLOCK"})]
        /\ UNCHANGED <<executor_, op, calling>>
    BY <1>4 DEF Emplace, Push
  <2>2. Fcntl(NewSocket, NewSocket.flags \cup {"O_NONBLOCK"}) \in Descriptors
    BY DEF Fcntl, NewSocket, Descriptors, Conns
  <2>3. [executor |-> executor_[g], socket |-> s] \in DialogStates
    BY <1>0 DEF DialogStates
  <2>4. /\ dialog' \in [Dialogs -> DialogStates] /\ kernel' \in [Sockets -> Descriptors]
        /\ error' \in [Sockets -> {Nil, "EFAIL"}]
    BY <1>0, <2>1, <2>2, <2>3
  <2> QED BY <1>0, <1>t, <1>i, <2>1, <2>4 DEF DialogInv
<1>5. ASSUME NEW d \in Dialogs, NEW other \in Dialogs, CopyDialog(d, other) PROVE DialogInv'
  <2>1. /\ Idle /\ dialog' = [dialog EXCEPT ![d] = dialog[other]]
        /\ UNCHANGED <<executor_, op, kernel, error, calling>>
    BY <1>5 DEF CopyDialog
  <2>2. dialog' \in [Dialogs -> DialogStates]
    BY <1>0, <2>1
  <2> QED BY <1>0, <1>t, <1>i, <2>1, <2>2 DEF DialogInv
<1>6. ASSUME NEW d \in Dialogs, DropDialog(d) PROVE DialogInv'
  <2>1. /\ Idle /\ dialog' = [dialog EXCEPT ![d] = NoDialog]
        /\ UNCHANGED <<executor_, op, kernel, error, calling>>
    BY <1>6 DEF DropDialog
  <2>2. dialog' \in [Dialogs -> DialogStates]
    BY <1>0, <2>1 DEF NoDialog, DialogStates
  <2> QED BY <1>0, <1>t, <1>i, <2>1, <2>2 DEF DialogInv
<1>7. CASE Calls
  <2>1. UNCHANGED <<executor_, dialog, op, error, calling>> /\ kernel' \in [Sockets -> Descriptors]
    BY <1>7, CallsKernel DEF DialogInv
  <2>2. CallOK'
    BY <1>0, <2>1 DEF CallOK
  <2> QED BY <1>0, <1>t, <2>1, <2>2 DEF DialogInv
<1>8. ASSUME NEW o \in Ops, NEW d \in Dialogs, NEW kind \in Kinds, Start(o, d, kind) PROVE DialogInv'
  <2>1. /\ Idle /\ dialog[d].socket # Nil /\ GetExecutor(d) /\ Submit(o, d, kind)
        /\ UNCHANGED <<executor_, dialog, kernel, error, calling>>
    BY <1>8 DEF Start, CanCall
  <2>2. op' \in [Ops -> StartedOps \cup {NoOp}]
    BY <2>1, SubmitStep DEF GetExecutor
  <2> QED BY <1>0, <1>t, <1>i, <2>1, <2>2 DEF DialogInv
<1>9. ASSUME NEW o \in Ops, NEW d \in Dialogs, ConnectCalls(o, d) PROVE DialogInv'
  <2>1. /\ dialog[d].socket # Nil /\ GetExecutor(d) /\ calling' = <<o, d>>
        /\ UNCHANGED <<executor_, dialog, op, kernel, error>>
    BY <1>9 DEF ConnectCalls, CanCall
  <2>2. CallOK'
    BY <2>1 DEF CallOK, GetExecutor
  <2> QED BY <1>0, <1>t, <2>1, <2>2 DEF DialogInv
<1>10. CASE ConnectReturns
  <2>1. /\ UNCHANGED <<executor_, dialog>> /\ kernel' \in [Sockets -> Descriptors]
        /\ \/ UNCHANGED <<op, error, calling>>
           \/ /\ calling \in Ops \X Dialogs /\ calling' = Nil
              /\ Submit(calling[1], calling[2], "connect")
              /\ error' \in [Sockets -> {Nil, "EFAIL"}]
    BY <1>10, ConnectReturnsEffect
  <2>2. CASE UNCHANGED <<op, error, calling>>
    <3>1. CallOK'
      BY <1>0, <2>1, <2>2 DEF CallOK
    <3> QED BY <1>0, <1>t, <2>1, <2>2, <3>1 DEF DialogInv
  <2>3. CASE /\ calling \in Ops \X Dialogs /\ calling' = Nil
             /\ Submit(calling[1], calling[2], "connect")
             /\ error' \in [Sockets -> {Nil, "EFAIL"}]
    <3>1. /\ calling # Nil /\ calling[1] \in Ops /\ calling[2] \in Dialogs /\ "connect" \in Kinds
      BY <1>10, <2>3 DEF ConnectReturns, Kinds
    <3>2. dialog[calling[2]].executor # Nil /\ dialog[calling[2]].socket # Nil
      BY <1>0, <3>1 DEF CallOK
    <3>3. op' \in [Ops -> StartedOps \cup {NoOp}]
      BY <2>1, <2>3, <3>1, <3>2, SubmitStep
    <3>4. CallOK'
      BY <2>3 DEF CallOK
    <3> QED BY <1>0, <1>t, <2>1, <2>3, <3>3, <3>4 DEF DialogInv
  <2> QED BY <2>1, <2>2, <2>3
<1>11. ASSUME NEW g \in Triggers, NEW o \in Ops, Complete(g, o) PROVE DialogInv'
  <2>1. /\ Idle /\ op' = [op EXCEPT ![o] = NoOp]
        /\ UNCHANGED <<executor_, dialog, kernel, error, calling>>
    BY <1>11 DEF Complete
  <2>2. op' \in [Ops -> StartedOps \cup {NoOp}]
    BY <1>0, <2>1
  <2> QED BY <1>0, <1>t, <1>i, <2>1, <2>2 DEF DialogInv
<1>12. ASSUME NEW g \in Triggers, NEW o \in Ops, NEW d \in Dialogs, NEW s \in Sockets,
              CompleteAccept(g, o, d, s)
       PROVE  DialogInv'
  <2> DEFINE fresh == SocketAccept(op[o].socket)
             new == [executor |-> op[o].executor, socket |-> s]
  <2>1. /\ Idle /\ op[o].kind = "accept" /\ op' = [op EXCEPT ![o] = NoOp]
        /\ dialog' = [dialog EXCEPT ![d] = new]
        /\ error' = [error EXCEPT ![s] = Nil]
        /\ kernel' = [kernel EXCEPT ![s] = Fcntl(fresh, fresh.flags \cup {"O_NONBLOCK"})]
        /\ UNCHANGED <<executor_, calling>>
    BY <1>12 DEF CompleteAccept, Push
  <2>2. op[o] \in StartedOps
    BY <1>0, <2>1, DialogAssumption DEF NoOp
  <2>3. kernel[op[o].socket].name \in Names \cup {<<>>}
    BY <1>0, <2>2 DEF StartedOps, Descriptors
  <2>4. Fcntl(fresh, fresh.flags \cup {"O_NONBLOCK"}) \in Descriptors
    BY <2>3 DEF SocketAccept, Fcntl, NewSocket, Descriptors, Conns
  <2>5. new \in DialogStates
    BY <2>2 DEF StartedOps, DialogStates
  <2> HIDE DEF fresh, new
  <2>6. /\ dialog' \in [Dialogs -> DialogStates] /\ kernel' \in [Sockets -> Descriptors]
        /\ error' \in [Sockets -> {Nil, "EFAIL"}]
    BY <1>0, <2>1, <2>4, <2>5
  <2>7. op' \in [Ops -> StartedOps \cup {NoOp}]
    BY <1>0, <2>1
  <2> QED BY <1>0, <1>t, <1>i, <2>1, <2>6, <2>7 DEF DialogInv
<1>13. CASE UNCHANGED dialogVars
  BY <1>13 DEF dialogVars, DialogInv, DialogTypeOK, CallOK
<1> QED
  BY <1>1, <1>2, <1>3, <1>4, <1>5, <1>6, <1>7, <1>8, <1>9, <1>10, <1>11, <1>12, <1>13
     DEF DialogNext, Calls

\* The inductive invariant holds at the start.
LEMMA DialogInvInit == DialogInit => DialogInv
<1> SUFFICES ASSUME DialogInit PROVE DialogInv
  OBVIOUS
<1>1. DialogTypeOK
  BY DEF DialogInit, DialogTypeOK, NoDialog, NewSocket
<1> QED BY <1>1 DEF DialogInit, DialogInv, CallOK

\* The inductive invariant holds in every reachable state.
LEMMA DialogInvCorrect == DialogSpec => []DialogInv
BY DialogInvInit, DialogStep, PTL DEF DialogSpec

\* The type invariant: in particular what bind passes to the kernel is one of the
\* addresses, for every size of the storage.
THEOREM DialogTypeCorrect == DialogSpec => []DialogTypeOK
<1>1. DialogInv => DialogTypeOK
  BY DEF DialogInv
<1> QED BY <1>1, DialogInvCorrect, PTL

-----------------------------------------------------------------------------
(* Descriptors that do not block.                                          *)

\* A step that opens no descriptor and keeps the flags keeps NeverBlocks.
LEMMA KeepsFlags ==
  ASSUME NeverBlocks,
         \A t \in Sockets : Open(t)' => Open(t) /\ kernel'[t].flags = kernel[t].flags
  PROVE  NeverBlocks'
BY DEF NeverBlocks

\* A step that pushes one descriptor, and opens no other one.
LEMMA PushStep ==
  ASSUME NeverBlocks, NEW s \in Sockets, NEW descriptor, Push(s, descriptor),
         kernel \in [Sockets -> Descriptors], descriptor \in Descriptors,
         \A t \in Sockets : t # s /\ Open(t)' => Open(t)
  PROVE  NeverBlocks'
<1> DEFINE new == Fcntl(descriptor, descriptor.flags \cup {"O_NONBLOCK"})
<1>1. "O_NONBLOCK" \in new.flags
  BY DEF Fcntl, Descriptors
<1>2. kernel' = [kernel EXCEPT ![s] = new]
  BY DEF Push
<1> HIDE DEF new
<1>3. kernel'[s] = new /\ \A t \in Sockets : t # s => kernel'[t] = kernel[t]
  BY <1>2
<1> QED BY <1>1, <1>3 DEF NeverBlocks

\* No step makes an open socket blocking.
LEMMA NeverBlocksStep == DialogInv /\ NeverBlocks /\ [DialogNext]_dialogVars => NeverBlocks'
<1> SUFFICES ASSUME DialogInv, NeverBlocks, [DialogNext]_dialogVars PROVE NeverBlocks'
  OBVIOUS
<1>0. /\ dialog \in [Dialogs -> DialogStates]
      /\ op \in [Ops -> StartedOps \cup {NoOp}]
      /\ kernel \in [Sockets -> Descriptors]
      /\ Nil \notin Sockets
  BY DialogAssumption
     DEF DialogInv, DialogTypeOK, DialogStates, StartedOps, Descriptors, Conns
<1>1. ASSUME UNCHANGED <<dialog, op, kernel>> PROVE NeverBlocks'
  BY <1>1, KeepsFlags DEF Open
<1>2. ASSUME NEW g \in Triggers, NEW e \in Executors, Construct(g, e) PROVE NeverBlocks'
  BY <1>1, <1>2 DEF Construct
<1>3. ASSUME NEW g \in Triggers, NEW h \in Triggers, Move(g, h) PROVE NeverBlocks'
  BY <1>1, <1>3 DEF Move
<1>4. ASSUME NEW g \in Triggers, Destroy(g) PROVE NeverBlocks'
  BY <1>1, <1>4 DEF Destroy
<1>5. ASSUME NEW g \in Triggers, NEW d \in Dialogs, NEW s \in Sockets, Emplace(g, d, s)
      PROVE  NeverBlocks'
  <2>1. /\ dialog' = [dialog EXCEPT ![d] = [executor |-> executor_[g], socket |-> s]]
        /\ op' = op /\ Push(s, NewSocket)
    BY <1>5 DEF Emplace
  <2>2. NewSocket \in Descriptors
    BY DEF NewSocket, Descriptors, Conns
  <2>3. \A c \in Dialogs : dialog'[c].socket = s \/ dialog'[c].socket = dialog[c].socket
    BY <1>0, <2>1
  <2>4. \A t \in Sockets : t # s /\ Open(t)' => Open(t)
    BY <2>1, <2>3 DEF Open
  <2> QED BY <1>0, <2>1, <2>2, <2>4, PushStep
<1>6. ASSUME NEW d \in Dialogs, NEW other \in Dialogs, CopyDialog(d, other) PROVE NeverBlocks'
  <2>1. /\ dialog' = [dialog EXCEPT ![d] = dialog[other]] /\ op' = op /\ kernel' = kernel
    BY <1>6 DEF CopyDialog
  <2>2. \A c \in Dialogs : \E b \in Dialogs : dialog'[c].socket = dialog[b].socket
    BY <1>0, <2>1
  <2> QED BY <2>1, <2>2, KeepsFlags DEF Open
<1>7. ASSUME NEW d \in Dialogs, DropDialog(d) PROVE NeverBlocks'
  <2>1. /\ dialog' = [dialog EXCEPT ![d] = NoDialog] /\ op' = op /\ kernel' = kernel
    BY <1>7 DEF DropDialog
  <2>2. \A c \in Dialogs : dialog'[c].socket = Nil \/ dialog'[c].socket = dialog[c].socket
    BY <1>0, <2>1 DEF NoDialog
  <2> QED BY <1>0, <2>1, <2>2, KeepsFlags DEF Open
<1>8. CASE Calls
  <2>1. /\ UNCHANGED <<dialog, op>> /\ \A t \in Sockets : kernel'[t].flags = kernel[t].flags
    BY <1>8, CallsKernel DEF DialogInv
  <2> QED BY <2>1, KeepsFlags DEF Open
<1>9. ASSUME NEW o \in Ops, NEW d \in Dialogs, Submit(o, d, "connect") \/ (\E kind \in Kinds : Submit(o, d, kind)),
             UNCHANGED dialog, \A t \in Sockets : kernel'[t].flags = kernel[t].flags
      PROVE  NeverBlocks'
  <2>1. \A p \in Ops : op'[p].socket = op[p].socket \/ op'[p].socket = dialog[d].socket
    BY <1>0, <1>9 DEF Submit
  <2> QED BY <1>9, <2>1, KeepsFlags DEF Open
<1>10. ASSUME NEW o \in Ops, NEW d \in Dialogs, NEW kind \in Kinds, Start(o, d, kind) PROVE NeverBlocks'
  <2>1. Submit(o, d, kind) /\ UNCHANGED <<dialog, kernel>>
    BY <1>10 DEF Start
  <2> QED BY <1>9, <2>1
<1>11. ASSUME NEW o \in Ops, NEW d \in Dialogs, ConnectCalls(o, d) PROVE NeverBlocks'
  BY <1>1, <1>11 DEF ConnectCalls
<1>12. CASE ConnectReturns
  <2>1. /\ UNCHANGED dialog /\ \A t \in Sockets : kernel'[t].flags = kernel[t].flags
        /\ \/ UNCHANGED op
           \/ calling \in Ops \X Dialogs /\ Submit(calling[1], calling[2], "connect")
    BY <1>12, ConnectReturnsEffect
  <2>2. CASE UNCHANGED op
    BY <2>1, <2>2, KeepsFlags DEF Open
  <2>3. CASE calling \in Ops \X Dialogs /\ Submit(calling[1], calling[2], "connect")
    <3>1. calling[1] \in Ops /\ calling[2] \in Dialogs
      BY <2>3
    <3> QED BY <1>9, <2>1, <2>3, <3>1
  <2> QED BY <2>1, <2>2, <2>3
<1>13. ASSUME NEW g \in Triggers, NEW o \in Ops, Complete(g, o) PROVE NeverBlocks'
  <2>1. op' = [op EXCEPT ![o] = NoOp] /\ UNCHANGED <<dialog, kernel>>
    BY <1>13 DEF Complete
  <2>2. \A p \in Ops : op'[p].socket = Nil \/ op'[p].socket = op[p].socket
    BY <1>0, <2>1 DEF NoOp
  <2> QED BY <1>0, <2>1, <2>2, KeepsFlags DEF Open
<1>14. ASSUME NEW g \in Triggers, NEW o \in Ops, NEW d \in Dialogs, NEW s \in Sockets,
              CompleteAccept(g, o, d, s)
       PROVE  NeverBlocks'
  <2> DEFINE fresh == SocketAccept(op[o].socket)
  <2>1. /\ op[o].kind = "accept" /\ op' = [op EXCEPT ![o] = NoOp]
        /\ dialog' = [dialog EXCEPT ![d] = [executor |-> op[o].executor, socket |-> s]]
        /\ Push(s, fresh)
    BY <1>14 DEF CompleteAccept
  <2>2. op[o] \in StartedOps
    BY <1>0, <2>1, DialogAssumption DEF NoOp
  <2>3. fresh \in Descriptors
    BY <1>0, <2>2 DEF SocketAccept, NewSocket, Descriptors, Conns, StartedOps
  <2> HIDE DEF fresh
  <2>4. /\ \A c \in Dialogs : dialog'[c].socket = s \/ dialog'[c].socket = dialog[c].socket
        /\ \A p \in Ops : op'[p].socket = Nil \/ op'[p].socket = op[p].socket
    BY <1>0, <2>1 DEF NoOp
  <2>5. \A t \in Sockets : t # s /\ Open(t)' => Open(t)
    BY <1>0, <2>4 DEF Open
  <2> QED BY <1>0, <2>1, <2>3, <2>5, PushStep
<1>15. CASE UNCHANGED dialogVars
  BY <1>1, <1>15 DEF dialogVars
<1> QED
  BY <1>2, <1>3, <1>4, <1>5, <1>6, <1>7, <1>8, <1>10, <1>11, <1>12, <1>13, <1>14, <1>15
     DEF DialogNext, Calls

\* Every socket a dialog or an operation holds is non-blocking, accepted ones and
\* descriptors that are used again included.
THEOREM SocketsNeverBlock == DialogSpec => []NeverBlocks
<1>1. DialogInit => NeverBlocks
  BY DialogAssumption DEF DialogInit, NeverBlocks, Open, NoDialog, NoOp
<1> QED BY <1>1, NeverBlocksStep, DialogInvCorrect, PTL DEF DialogSpec

-----------------------------------------------------------------------------
(* Errors of connect.                                                      *)

\* connect never stores an error for a connection that is being made or was made,
\* however often it is interrupted and whenever the kernel settles it.
THEOREM ConnectBlamesFailures == DialogSpec => BlamesFailuresOnly
<1> DEFINE Blames == \A s \in Sockets :
                       error[s] = Nil /\ error'[s] # Nil => kernel'[s].conn \notin {"connecting", "connected"}
<1>1. DialogInv /\ [DialogNext]_dialogVars => [Blames]_dialogVars
  <2> SUFFICES ASSUME DialogInv, DialogNext PROVE Blames \/ UNCHANGED dialogVars
    OBVIOUS
  <2>0. error \in [Sockets -> {Nil, "EFAIL"}]
    BY DEF DialogInv, DialogTypeOK
  <2>1. ASSUME UNCHANGED error \/ (\E s \in Sockets : error' = [error EXCEPT ![s] = Nil])
        PROVE  Blames
    BY <2>0, <2>1
  <2>2. CASE ConnectReturns
    <3>1. \A t \in Sockets : error'[t] = error[t] \/ kernel'[t].conn = "idle"
      BY <2>2, ConnectReturnsEffect
    <3> QED BY <3>1
  <2>3. CASE Calls
    BY <2>1, <2>3, CallsKernel DEF DialogInv
  <2> HIDE DEF Blames
  <2>4. ASSUME NEW g \in Triggers, NEW d \in Dialogs, NEW s \in Sockets, Emplace(g, d, s) PROVE Blames
    BY <2>1, <2>4 DEF Emplace
  <2>5. ASSUME NEW g \in Triggers, NEW o \in Ops, NEW d \in Dialogs, NEW s \in Sockets,
               CompleteAccept(g, o, d, s)
        PROVE  Blames
    BY <2>1, <2>5 DEF CompleteAccept
  <2>6. ASSUME \/ \E g \in Triggers, e \in Executors : Construct(g, e)
               \/ \E g, h \in Triggers : Move(g, h)
               \/ \E g \in Triggers : Destroy(g)
               \/ \E d, other \in Dialogs : CopyDialog(d, other)
               \/ \E d \in Dialogs : DropDialog(d)
               \/ \E o \in Ops, d \in Dialogs, kind \in Kinds : Start(o, d, kind)
               \/ \E o \in Ops, d \in Dialogs : ConnectCalls(o, d)
               \/ \E g \in Triggers, o \in Ops : Complete(g, o)
        PROVE  UNCHANGED error
    BY <2>6 DEF Construct, Move, Destroy, CopyDialog, DropDialog, Start, ConnectCalls, Complete
  <2> QED BY <2>1, <2>2, <2>3, <2>4, <2>5, <2>6 DEF DialogNext, Calls
<1> HIDE DEF Blames
<1>2. DialogSpec => [][Blames]_dialogVars
  BY <1>1, DialogInvCorrect, PTL DEF DialogSpec
<1> QED BY <1>2, PTL DEF BlamesFailuresOnly, Blames

=============================================================================
