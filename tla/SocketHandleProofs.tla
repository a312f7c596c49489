------------------------- MODULE SocketHandleProofs -------------------------
(***************************************************************************)
(* For any number of threads, handles and descriptors: the locking         *)
(* discipline of swap, the types that rest on it, and the refinement of    *)
(* SocketOwnership.                                                        *)
(***************************************************************************)
EXTENDS SocketHandle, TLAPS

Critical == {"unlock"} \cup Swapping

\* A thread in a swap has two different handles to work on, and what it has loaded
\* or exchanged is of the kind of the member it swaps.
SwapShape ==
  \A t \in Threads :
    /\ InSwap(t) => lhs[t] \in Handles /\ rhs[t] \in Handles /\ lhs[t] # rhs[t]
    /\ pc[t] \in {"socket_exchange", "socket_store"} => val[t] \in Descriptors \cup {Nil}
    /\ pc[t] = "socket_store" => tmp[t] \in Descriptors \cup {Nil}
    /\ pc[t] \in {"error_exchange", "error_store"} => val[t] \in Errors \cup {Nil}
    /\ pc[t] = "error_store" => tmp[t] \in Errors \cup {Nil}

\* A thread past the lock holds exactly the mutexes of its two handles.
Exclusion ==
  /\ \A t \in Threads : pc[t] \in Critical => mtx[lhs[t]] = t /\ mtx[rhs[t]] = t
  /\ \A h \in Handles : mtx[h] # Nil =>
       pc[mtx[h]] \in Critical /\ (h = lhs[mtx[h]] \/ h = rhs[mtx[h]])

LockInv == HandleTypeOK /\ SwapShape /\ Exclusion

\* Every step keeps the types and the shape of a swap.
LEMMA ShapeKept == HandleTypeOK /\ SwapShape /\ HandleNext => HandleTypeOK' /\ SwapShape'
<1> SUFFICES ASSUME HandleTypeOK, SwapShape, NEW t \in Threads, UserStep(t) \/ SwapStep(t)
             PROVE  HandleTypeOK' /\ SwapShape'
  BY DEF HandleNext
<1> USE HandleNilAssumption DEF HandleTypeOK, SwapShape, InSwap, Swapping, Places
<1>1. ASSUME NEW h \in Handles, NEW d \in Descriptors, Construct(t, h, d)
      PROVE  HandleTypeOK' /\ SwapShape'
  BY <1>1 DEF Construct
<1>2. ASSUME NEW h \in Handles, Destroy(t, h)
      PROVE  HandleTypeOK' /\ SwapShape'
  BY <1>2 DEF Destroy
<1>3. ASSUME NEW h \in Handles, NEW e \in Errors \cup {Nil}, SetError(t, h, e)
      PROVE  HandleTypeOK' /\ SwapShape'
  BY <1>3 DEF SetError
<1>4. ASSUME NEW h \in Handles, NEW g \in Handles,
             MoveAssign(t, h, g) \/ MoveConstruct(t, h, g)
      PROVE  HandleTypeOK' /\ SwapShape'
  <2>1. h # g /\ Enter(t, h, g)
    BY <1>4 DEF MoveAssign, MoveConstruct
  <2> QED BY <2>1 DEF Enter
<1>5. CASE CloseDescriptor(t)
  BY <1>5 DEF CloseDescriptor
<1>6. CASE Lock(t)
  BY <1>6 DEF Lock
<1>7. CASE SocketLoad(t)
  BY <1>7 DEF SocketLoad
<1>8. CASE SocketExchange(t)
  BY <1>8 DEF SocketExchange
<1>9. CASE SocketStore(t)
  BY <1>9 DEF SocketStore
<1>10. CASE ErrorLoad(t)
  BY <1>10 DEF ErrorLoad
<1>11. CASE ErrorExchange(t)
  BY <1>11 DEF ErrorExchange
<1>12. CASE ErrorStore(t)
  BY <1>12 DEF ErrorStore
<1>13. CASE Unlock(t)
  BY <1>13 DEF Unlock
<1> QED
  BY <1>1, <1>2, <1>3, <1>4, <1>5, <1>6, <1>7, <1>8, <1>9, <1>10, <1>11, <1>12, <1>13
     DEF UserStep, SwapStep

\* Every step keeps the mutexes in the hands of the threads past the lock.
LEMMA ExclusionKept == LockInv /\ HandleNext => Exclusion'
<1> SUFFICES ASSUME LockInv, NEW t \in Threads, UserStep(t) \/ SwapStep(t)
             PROVE  Exclusion'
  BY DEF HandleNext
<1> USE HandleNilAssumption DEF LockInv, HandleTypeOK, SwapShape, InSwap, Swapping, Places,
                                Critical, Exclusion
<1>1. ASSUME UNCHANGED <<mtx, lhs, rhs>>,
             \A u \in Threads : pc'[u] \in Critical <=> pc[u] \in Critical
      PROVE  Exclusion'
  BY <1>1
<1>2. CASE UserStep(t)
  <2>1. /\ mtx' = mtx /\ pc[t] = "idle"
        /\ \/ UNCHANGED <<pc, lhs, rhs>>
           \/ pc' = [pc EXCEPT ![t] = "idle"] /\ UNCHANGED <<lhs, rhs>>
           \/ pc' = [pc EXCEPT ![t] = "closing"] /\ UNCHANGED <<lhs, rhs>>
           \/ /\ pc' = [pc EXCEPT ![t] = "lock"]
              /\ \E h, g \in Handles : /\ lhs' = [lhs EXCEPT ![t] = h]
                                       /\ rhs' = [rhs EXCEPT ![t] = g]
    BY <1>2 DEF UserStep, Construct, Destroy, SetError, MoveAssign, MoveConstruct, Enter
  <2>2. \A u \in Threads : pc[u] \in Critical =>
          u # t /\ pc'[u] = pc[u] /\ lhs'[u] = lhs[u] /\ rhs'[u] = rhs[u]
    BY <2>1
  <2>3. \A u \in Threads : pc'[u] \in Critical => pc[u] \in Critical
    BY <2>1
  <2> QED BY <2>1, <2>2, <2>3
<1>3. CASE CloseDescriptor(t)
  BY <1>1, <1>3 DEF CloseDescriptor
<1>4. CASE Lock(t)
  BY <1>4 DEF Lock
<1>5. CASE SocketLoad(t)
  BY <1>1, <1>5 DEF SocketLoad
<1>6. CASE SocketExchange(t)
  BY <1>1, <1>6 DEF SocketExchange
<1>7. CASE SocketStore(t)
  BY <1>1, <1>7 DEF SocketStore
<1>8. CASE ErrorLoad(t)
  BY <1>1, <1>8 DEF ErrorLoad
<1>9. CASE ErrorExchange(t)
  BY <1>1, <1>9 DEF ErrorExchange
<1>10. CASE ErrorStore(t)
  BY <1>1, <1>10 DEF ErrorStore
<1>11. CASE Unlock(t)
  <2>1. \A u \in Threads : u # t /\ pc[u] \in Critical =>
          /\ lhs[u] # lhs[t] /\ lhs[u] # rhs[t]
          /\ rhs[u] # lhs[t] /\ rhs[u] # rhs[t]
    BY <1>11 DEF Unlock
  <2> QED BY <1>11, <2>1 DEF Unlock
<1> QED
  BY <1>2, <1>3, <1>4, <1>5, <1>6, <1>7, <1>8, <1>9, <1>10, <1>11 DEF SwapStep

\* The invariant holds throughout.
LEMMA LockInvCorrect == HandleSpec => []LockInv
<1>1. HandleInit => LockInv
  BY HandleNilAssumption
     DEF HandleInit, LockInv, HandleTypeOK, SwapShape, Exclusion, InSwap, Swapping, Places,
         Critical
<1>2. LockInv /\ [HandleNext]_handleVars => LockInv'
  <2>1. LockInv /\ HandleNext => LockInv'
    BY ShapeKept, ExclusionKept DEF LockInv
  <2>2. LockInv /\ UNCHANGED handleVars => LockInv'
    BY DEF LockInv, HandleTypeOK, SwapShape, Exclusion, InSwap, handleVars
  <2> QED BY <2>1, <2>2
<1> QED BY <1>1, <1>2, PTL DEF HandleSpec

\* A descriptor never ends up as an error code or the reverse, though swaps pass both
\* through the same locals.
THEOREM HandleTypesCorrect == HandleSpec => []HandleTypeOK
<1>1. LockInv => HandleTypeOK
  BY DEF LockInv
<1> QED BY <1>1, LockInvCorrect, PTL

-----------------------------------------------------------------------------
(* Swaps implement SocketOwnership. *)

Owners == [h \in Handles |-> Owned(h)]

Storing(t, h) == pc[t] = "socket_store" /\ rhs[t] = h

\* What Owners stands for: at most one thread is about to store to a handle.
OwnersAre ==
  \A h \in Handles :
    /\ \A t \in Threads : Storing(t, h) => Owners[h] = tmp[t]
    /\ (\A t \in Threads : ~Storing(t, h)) => Owners[h] = socket[h]

\* An open descriptor has one owner or one thread that closes it.
OneOwner ==
  /\ \A h \in Handles : Owners[h] # Nil => Owners[h] \in open /\ Owners[h] \notin Closing
  /\ \A h, g \in Handles : Owners[h] = Owners[g] /\ Owners[h] # Nil => h = g
  /\ \A t \in Threads : pc[t] = "closing" => val[t] \in open
  /\ \A t, u \in Threads : pc[t] = "closing" /\ pc[u] = "closing" /\ val[t] = val[u] => t = u

\* A place without a handle is empty, the source of a move is a handle, and what a
\* thread has loaded from it is still there when it is exchanged.
SwapFacts ==
  /\ \A h \in Handles : h \notin live /\ Untouched(h) => socket[h] = Nil
  /\ \A t \in Threads : InSwap(t) => rhs[t] \in live
  /\ \A t \in Threads : pc[t] = "socket_exchange" => val[t] = socket[rhs[t]]

OwnInv == LockInv /\ OneOwner /\ SwapFacts

\* Both mutexes are held at the store, so the thread that Owned chooses is the only one.
LEMMA OwnersKnown == LockInv => OwnersAre
<1> SUFFICES ASSUME LockInv, NEW h \in Handles
             PROVE  /\ \A t \in Threads : Storing(t, h) => Owners[h] = tmp[t]
                    /\ (\A t \in Threads : ~Storing(t, h)) => Owners[h] = socket[h]
  BY DEF OwnersAre
<1>1. ASSUME NEW t \in Threads, Storing(t, h)
      PROVE  Owners[h] = tmp[t]
  <2> DEFINE c == CHOOSE u \in Threads : pc[u] = "socket_store" /\ rhs[u] = h
  <2>1. c \in Threads /\ pc[c] = "socket_store" /\ rhs[c] = h
    BY <1>1 DEF Storing
  <2>2. c = t
    BY <1>1, <2>1 DEF Storing, LockInv, Exclusion, Critical, Swapping
  <2> QED BY <1>1, <2>2 DEF Storing, Owners, Owned
<1>2. (\A t \in Threads : ~Storing(t, h)) => Owners[h] = socket[h]
  BY DEF Storing, Owners, Owned
<1> QED BY <1>1, <1>2

\* The same of the state after a step.
LEMMA OwnersKnownNext == LockInv' => OwnersAre'
  BY OwnersKnown, PTL

\* The facts about swaps are kept by every step.
LEMMA SwapFactsKept == OwnInv /\ HandleNext => SwapFacts'
<1> SUFFICES ASSUME OwnInv, NEW t \in Threads, UserStep(t) \/ SwapStep(t)
             PROVE  SwapFacts'
  BY DEF HandleNext
<1> USE HandleNilAssumption DEF OwnInv, LockInv, HandleTypeOK, SwapShape, Exclusion, InSwap,
                                Swapping, Places, Critical, Untouched, SwapFacts
<1>1. ASSUME NEW h \in Handles, NEW d \in Descriptors, Construct(t, h, d)
      PROVE  SwapFacts'
  BY <1>1 DEF Construct
<1>2. ASSUME NEW h \in Handles, Destroy(t, h)
      PROVE  SwapFacts'
  BY <1>2 DEF Destroy
<1>3. ASSUME NEW h \in Handles, NEW e \in Errors \cup {Nil}, SetError(t, h, e)
      PROVE  SwapFacts'
  BY <1>3 DEF SetError
<1>4. ASSUME NEW h \in Handles, NEW g \in Handles,
             MoveAssign(t, h, g) \/ MoveConstruct(t, h, g)
      PROVE  SwapFacts'
  <2>1. h # g /\ pc[t] = "idle" /\ g \in live /\ Enter(t, h, g)
    BY <1>4 DEF MoveAssign, MoveConstruct
  <2>2. h \in live \/ Untouched(h)
    BY <1>4 DEF MoveAssign, MoveConstruct
  <2> QED BY <2>1, <2>2 DEF Enter
<1>5. CASE CloseDescriptor(t)
  BY <1>5 DEF CloseDescriptor
<1>6. CASE Lock(t)
  BY <1>6 DEF Lock
<1>7. CASE SocketLoad(t)
  BY <1>7 DEF SocketLoad
<1>8. CASE SocketExchange(t)
  BY <1>8 DEF SocketExchange
<1>9. CASE SocketStore(t)
  BY <1>9 DEF SocketStore
<1>10. CASE ErrorLoad(t)
  BY <1>10 DEF ErrorLoad
<1>11. CASE ErrorExchange(t)
  BY <1>11 DEF ErrorExchange
<1>12. CASE ErrorStore(t)
  BY <1>12 DEF ErrorStore
<1>13. CASE Unlock(t)
  BY <1>13 DEF Unlock
<1> QED
  BY <1>1, <1>2, <1>3, <1>4, <1>5, <1>6, <1>7, <1>8, <1>9, <1>10, <1>11, <1>12, <1>13
     DEF UserStep, SwapStep

\* Steps that change neither the descriptor of a handle nor who closes what.
Quiet(t) == \/ Lock(t) \/ SocketLoad(t) \/ SocketStore(t)
            \/ ErrorLoad(t) \/ ErrorExchange(t) \/ ErrorStore(t) \/ Unlock(t)
            \/ \E h \in Handles : \E e \in Errors \cup {Nil} : SetError(t, h, e)
            \/ \E h, g \in Handles : MoveAssign(t, h, g) \/ MoveConstruct(t, h, g)

\* A quiet step keeps the closing threads and what they close.
LEMMA QuietClosing ==
  ASSUME OwnInv, NEW t \in Threads, Quiet(t)
  PROVE  /\ open' = open /\ Closing' = Closing
         /\ \A u \in Threads : pc'[u] = "closing" <=> pc[u] = "closing"
         /\ \A u \in Threads : pc[u] = "closing" => val'[u] = val[u]
<1>1. /\ open' = open
      /\ \A u \in Threads : pc'[u] = "closing" <=> pc[u] = "closing"
      /\ \A u \in Threads : pc[u] = "closing" => val'[u] = val[u]
  BY DEF OwnInv, LockInv, HandleTypeOK, Quiet, Lock, SocketLoad, SocketStore, ErrorLoad,
         ErrorExchange, ErrorStore, Unlock, SetError, MoveAssign, MoveConstruct, Enter
<1> QED BY <1>1 DEF Closing

\* A quiet step keeps the owners: the store puts in the handle what tmp stood for.
LEMMA QuietOwners ==
  ASSUME OwnInv, LockInv', NEW t \in Threads, Quiet(t)
  PROVE  Owners' = Owners
<1>1. OwnersAre /\ OwnersAre'
  BY OwnersKnown, OwnersKnownNext DEF OwnInv
<1> SUFFICES ASSUME NEW h \in Handles
             PROVE  Owners'[h] = Owners[h]
  BY DEF Owners
<1>2. CASE SocketStore(t)
  <2>1. \A u \in Threads : Storing(u, h)' => Storing(u, h) /\ tmp'[u] = tmp[u] /\ u # t
    BY <1>2 DEF SocketStore, Storing, OwnInv, LockInv, HandleTypeOK
  <2>2. \A u \in Threads : Storing(u, h) => Storing(u, h)' \/ u = t
    BY <1>2 DEF SocketStore, Storing, OwnInv, LockInv, HandleTypeOK
  <2>3. socket' = [socket EXCEPT ![rhs[t]] = tmp[t]] /\ (Storing(t, h) <=> rhs[t] = h)
    BY <1>2 DEF SocketStore, Storing
  <2>4. Storing(t, h) => \A u \in Threads : Storing(u, h) => u = t
    BY DEF Storing, OwnInv, LockInv, Exclusion, Critical, Swapping
  <2>5. socket \in [Handles -> Descriptors \cup {Nil}] /\ t \in Threads
    BY DEF OwnInv, LockInv, HandleTypeOK
  <2>6. CASE Storing(t, h)
    <3>1. Owners[h] = tmp[t] /\ socket'[h] = tmp[t]
      BY <1>1, <2>3, <2>5, <2>6 DEF OwnersAre
    <3>2. \A u \in Threads : ~Storing(u, h)'
      BY <2>1, <2>4, <2>6
    <3> QED BY <1>1, <3>1, <3>2 DEF OwnersAre
  <2>7. CASE ~Storing(t, h)
    <3>1. socket'[h] = socket[h] /\ \A u \in Threads : Storing(u, h)' <=> Storing(u, h)
      BY <2>1, <2>2, <2>3, <2>5, <2>7
    <3> QED BY <1>1, <2>1, <3>1 DEF OwnersAre
  <2> QED BY <2>6, <2>7
<1>3. CASE ~SocketStore(t)
  <2>1. /\ socket' = socket
        /\ \A u \in Threads : /\ Storing(u, h)' <=> Storing(u, h)
                              /\ Storing(u, h) => tmp'[u] = tmp[u]
    BY <1>3 DEF Storing, OwnInv, LockInv, HandleTypeOK, Quiet, Lock, SocketLoad, ErrorLoad,
           ErrorExchange, ErrorStore, Unlock, SetError, MoveAssign, MoveConstruct, Enter
  <2> QED BY <1>1, <2>1 DEF OwnersAre
<1> QED BY <1>2, <1>3

\* A new descriptor has no owner yet, and its handle owned nothing.
LEMMA ConstructOwners ==
  ASSUME OwnInv, LockInv', NEW t \in Threads, NEW h \in Handles, NEW d \in Descriptors,
         Construct(t, h, d)
  PROVE  Owners[h] = Nil /\ Owners' = [Owners EXCEPT ![h] = d] /\ Closing' = Closing
<1>1. OwnersAre /\ OwnersAre'
  BY OwnersKnown, OwnersKnownNext DEF OwnInv
<1>2. \A u \in Threads : ~Storing(u, h) /\ ~Storing(u, h)'
  BY DEF Construct, Untouched, InSwap, Swapping, Storing
<1>3. \A g \in Handles \ {h} : Owners'[g] = Owners[g]
  BY <1>1 DEF Construct, OwnersAre, Storing, OwnInv, LockInv, HandleTypeOK
<1>4. Owners[h] = Nil /\ Owners'[h] = d
  BY <1>1, <1>2 DEF Construct, OwnersAre, OwnInv, SwapFacts, LockInv, HandleTypeOK
<1> QED BY <1>3, <1>4 DEF Construct, Closing, Owners

\* The handle that is destroyed was not in a swap: its own descriptor is closed.
LEMMA DestroyOwners ==
  ASSUME OwnInv, LockInv', NEW t \in Threads, NEW h \in Handles, Destroy(t, h)
  PROVE  Owners[h] = socket[h] /\ Owners' = [Owners EXCEPT ![h] = Nil]
<1>1. OwnersAre /\ OwnersAre'
  BY OwnersKnown, OwnersKnownNext DEF OwnInv
<1>2. \A u \in Threads, g \in Handles : Storing(u, g)' <=> Storing(u, g)
  BY DEF Destroy, Storing, OwnInv, LockInv, HandleTypeOK
<1>3. \A u \in Threads : ~Storing(u, h)
  BY DEF Destroy, Untouched, InSwap, Swapping, Storing
<1>4. \A g \in Handles \ {h} : Owners'[g] = Owners[g]
  BY <1>1, <1>2 DEF Destroy, OwnersAre, OwnInv, LockInv, HandleTypeOK
<1>5. Owners[h] = socket[h] /\ Owners'[h] = Nil
  BY <1>1, <1>2, <1>3 DEF Destroy, OwnersAre, OwnInv, LockInv, HandleTypeOK
<1> QED BY <1>4, <1>5 DEF Owners

\* The exchange of a swap is where two handles exchange their descriptors.
LEMMA ExchangeOwners ==
  ASSUME OwnInv, LockInv', NEW t \in Threads, SocketExchange(t)
  PROVE  /\ Owners' = [Owners EXCEPT ![lhs[t]] = Owners[rhs[t]], ![rhs[t]] = Owners[lhs[t]]]
         /\ Closing' = Closing
<1>1. OwnersAre /\ OwnersAre'
  BY OwnersKnown, OwnersKnownNext DEF OwnInv
<1>2. lhs[t] \in Handles /\ rhs[t] \in Handles /\ lhs[t] # rhs[t]
  BY DEF SocketExchange, OwnInv, LockInv, SwapShape, InSwap, Swapping
<1>3. \A u \in Threads : u # t =>
        /\ ~Storing(u, lhs[t]) /\ ~Storing(u, rhs[t])
        /\ ~Storing(u, lhs[t])' /\ ~Storing(u, rhs[t])'
  BY DEF SocketExchange, OwnInv, LockInv, HandleTypeOK, Exclusion, Critical, Swapping, Storing
<1>4. ~Storing(t, lhs[t]) /\ ~Storing(t, rhs[t]) /\ ~Storing(t, lhs[t])'
      /\ Storing(t, rhs[t])'
  BY <1>2 DEF SocketExchange, OwnInv, LockInv, HandleTypeOK, Storing
<1>5. Owners[lhs[t]] = socket[lhs[t]] /\ Owners[rhs[t]] = socket[rhs[t]]
  BY <1>1, <1>2, <1>3, <1>4 DEF OwnersAre
<1>6. Owners'[lhs[t]] = val[t] /\ Owners'[rhs[t]] = socket[lhs[t]]
  BY <1>1, <1>2, <1>3, <1>4 DEF OwnersAre, SocketExchange, OwnInv, LockInv, HandleTypeOK
<1>7. val[t] = socket[rhs[t]]
  BY DEF OwnInv, SwapFacts, SocketExchange
<1>8. \A h \in Handles \ {lhs[t], rhs[t]} : Owners'[h] = Owners[h]
  <2> TAKE h \in Handles \ {lhs[t], rhs[t]}
  <2>1. \A u \in Threads : /\ Storing(u, h)' <=> Storing(u, h)
                           /\ Storing(u, h) => tmp'[u] = tmp[u]
    BY DEF SocketExchange, OwnInv, LockInv, HandleTypeOK, Storing
  <2>2. socket'[h] = socket[h]
    BY DEF SocketExchange, OwnInv, LockInv, HandleTypeOK
  <2> QED BY <1>1, <2>1, <2>2 DEF OwnersAre
<1>9. Closing' = Closing
  BY DEF Closing, SocketExchange, OwnInv, LockInv, HandleTypeOK
<1> QED BY <1>2, <1>5, <1>6, <1>7, <1>8, <1>9 DEF Owners

\* Every step keeps one owner per descriptor and is a step of SocketOwnership.
LEMMA OwnershipKept ==
  ASSUME OwnInv, LockInv', HandleNext
  PROVE  OneOwner' /\ [Promise!OwnNext]_(Promise!ownVars)
<1> PICK t \in Threads : UserStep(t) \/ SwapStep(t)
  BY DEF HandleNext
<1> USE HandleNilAssumption
<1>1. CASE Quiet(t)
  <2>1. /\ open' = open /\ Closing' = Closing /\ Owners' = Owners
        /\ \A u \in Threads : pc'[u] = "closing" <=> pc[u] = "closing"
        /\ \A u \in Threads : pc[u] = "closing" => val'[u] = val[u]
    BY <1>1, QuietClosing, QuietOwners
  <2>2. OneOwner'
    BY <2>1 DEF OneOwner, OwnInv
  <2>3. UNCHANGED Promise!ownVars
    BY <2>1 DEF Promise!ownVars, Owners
  <2> QED BY <2>2, <2>3
<1>2. ASSUME NEW h \in Handles, NEW d \in Descriptors, Construct(t, h, d)
      PROVE  OneOwner' /\ Promise!OwnNext
  <2>1. Owners[h] = Nil /\ Owners' = [Owners EXCEPT ![h] = d] /\ Closing' = Closing
    BY <1>2, ConstructOwners
  <2>2. d \notin open /\ d # Nil /\ open' = open \cup {d} /\ UNCHANGED <<pc, val>>
    BY <1>2 DEF Construct
  <2>3. \A u \in Threads : pc[u] = "closing" => val[u] # d
    BY <2>2 DEF OwnInv, OneOwner
  <2>4. d \notin Closing
    BY <2>3 DEF Closing
  <2>5. OneOwner'
    <3>1. Owners'[h] = d /\ \A g \in Handles \ {h} : Owners'[g] = Owners[g]
      BY <2>1 DEF Owners
    <3>2. \A g \in Handles \ {h} : Owners[g] # d
      BY <2>2 DEF OneOwner, OwnInv
    <3> QED BY <2>1, <2>2, <2>4, <3>1, <3>2 DEF OneOwner, OwnInv
  <2>6. Promise!Acquire(h, d)
    BY <2>1, <2>2 DEF Promise!Acquire, Owners
  <2> QED BY <2>5, <2>6 DEF Promise!OwnNext
<1>3. ASSUME NEW h \in Handles, Destroy(t, h)
      PROVE  OneOwner' /\ [Promise!OwnNext]_(Promise!ownVars)
  <2>1. Owners[h] = socket[h] /\ Owners' = [Owners EXCEPT ![h] = Nil]
    BY <1>3, DestroyOwners
  <2>2. /\ open' = open /\ pc[t] = "idle"
        /\ val' = [val EXCEPT ![t] = socket[h]]
        /\ pc' = [pc EXCEPT ![t] = IF socket[h] = Nil THEN "idle" ELSE "closing"]
    BY <1>3 DEF Destroy
  <2>3. CASE socket[h] = Nil
    <3>1. /\ \A u \in Threads : pc'[u] = "closing" <=> pc[u] = "closing"
          /\ \A u \in Threads : pc[u] = "closing" => val'[u] = val[u]
      BY <2>2, <2>3 DEF OwnInv, LockInv, HandleTypeOK
    <3>2. Closing' = Closing
      BY <3>1 DEF Closing
    <3>3. Owners' = Owners
      BY <2>1, <2>3 DEF Owners
    <3>4. OneOwner'
      BY <2>2, <3>1, <3>2, <3>3 DEF OneOwner, OwnInv
    <3>5. UNCHANGED Promise!ownVars
      BY <2>2, <3>2, <3>3 DEF Promise!ownVars, Owners
    <3> QED BY <3>4, <3>5
  <2>4. CASE socket[h] # Nil
    <3>1. /\ \A u \in Threads : pc'[u] = "closing" <=> (pc[u] = "closing" \/ u = t)
          /\ \A u \in Threads : u # t => val'[u] = val[u]
          /\ val'[t] = Owners[h]
      BY <2>1, <2>2, <2>4 DEF OwnInv, LockInv, HandleTypeOK
    <3>2. Closing' = Closing \cup {Owners[h]}
      BY <2>2, <3>1 DEF Closing
    <3>3. Owners[h] \in open /\ Owners[h] \notin Closing
      BY <2>1, <2>4 DEF OwnInv, OneOwner
    <3>4. \A u \in Threads : pc[u] = "closing" => val[u] # Owners[h]
      BY <3>3 DEF Closing
    <3>5. \A g \in Handles : Owners'[g] # Nil => g # h /\ Owners'[g] = Owners[g]
      BY <2>1 DEF Owners
    <3>6. \A g \in Handles \ {h} : Owners[g] # Nil => Owners[g] # Owners[h]
      BY DEF OwnInv, OneOwner
    <3>7. OneOwner'
      BY <2>2, <3>1, <3>2, <3>3, <3>4, <3>5, <3>6 DEF OneOwner, OwnInv
    <3>8. Promise!Drop(h)
      BY <2>1, <2>2, <2>4, <3>2 DEF Promise!Drop, Owners
    <3> QED BY <3>7, <3>8 DEF Promise!OwnNext
  <2> QED BY <2>3, <2>4
<1>4. CASE SocketExchange(t)
  <2>1. /\ Owners' = [Owners EXCEPT ![lhs[t]] = Owners[rhs[t]], ![rhs[t]] = Owners[lhs[t]]]
        /\ Closing' = Closing
    BY <1>4, ExchangeOwners
  <2>2. lhs[t] \in Handles /\ rhs[t] \in Handles /\ lhs[t] # rhs[t]
    BY <1>4 DEF SocketExchange, OwnInv, LockInv, SwapShape, InSwap, Swapping
  <2>3. /\ open' = open /\ val' = val
        /\ \A u \in Threads : pc'[u] = "closing" <=> pc[u] = "closing"
    BY <1>4 DEF SocketExchange, OwnInv, LockInv, HandleTypeOK
  <2>4. /\ Owners'[lhs[t]] = Owners[rhs[t]] /\ Owners'[rhs[t]] = Owners[lhs[t]]
        /\ \A h \in Handles \ {lhs[t], rhs[t]} : Owners'[h] = Owners[h]
    BY <2>1, <2>2 DEF Owners
  <2>5. OneOwner'
    <3>1. \A h \in Handles : \E g \in Handles : Owners'[h] = Owners[g]
      BY <2>2, <2>4
    <3>2. \A h \in Handles : Owners'[h] # Nil => Owners'[h] \in open /\ Owners'[h] \notin Closing
      BY <3>1 DEF OneOwner, OwnInv
    <3>3. \A h, g \in Handles : Owners'[h] = Owners'[g] /\ Owners'[h] # Nil => h = g
      <4> SUFFICES ASSUME NEW h \in Handles, NEW g \in Handles,
                          Owners'[h] = Owners'[g], Owners'[h] # Nil
                   PROVE  h = g
        OBVIOUS
      <4>1. \A i, j \in Handles : Owners[i] = Owners[j] /\ Owners[i] # Nil => i = j
        BY DEF OneOwner, OwnInv
      <4>2. CASE h = lhs[t]
        BY <2>2, <2>4, <4>1, <4>2
      <4>3. CASE h = rhs[t]
        BY <2>2, <2>4, <4>1, <4>3
      <4>4. CASE h \notin {lhs[t], rhs[t]}
        BY <2>2, <2>4, <4>1, <4>4
      <4> QED BY <4>2, <4>3, <4>4
    <3> QED BY <2>1, <2>3, <3>2, <3>3 DEF OneOwner, OwnInv
  <2>6. Promise!Exchange(lhs[t], rhs[t])
    BY <2>1, <2>2, <2>3 DEF Promise!Exchange, Owners
  <2> QED BY <2>2, <2>5, <2>6 DEF Promise!OwnNext
<1>5. CASE CloseDescriptor(t)
  <2>1. /\ pc[t] = "closing" /\ open' = open \ {val[t]} /\ UNCHANGED <<socket, tmp, rhs>>
        /\ \A u \in Threads : pc'[u] = "closing" <=> (pc[u] = "closing" /\ u # t)
        /\ \A u \in Threads : u # t => val'[u] = val[u]
    BY <1>5 DEF CloseDescriptor, OwnInv, LockInv, HandleTypeOK
  <2>2. Owners' = Owners
    <3>1. OwnersAre /\ OwnersAre'
      BY OwnersKnown, OwnersKnownNext DEF OwnInv
    <3>2. \A u \in Threads, h \in Handles : Storing(u, h)' <=> Storing(u, h)
      BY <1>5 DEF CloseDescriptor, Storing, OwnInv, LockInv, HandleTypeOK
    <3>3. \A h \in Handles : Owners'[h] = Owners[h]
      BY <2>1, <3>1, <3>2 DEF OwnersAre
    <3> QED BY <3>3 DEF Owners
  <2>3. /\ val[t] \in open /\ val[t] \in Descriptors
        /\ \A u \in Threads : pc[u] = "closing" /\ u # t => val[u] # val[t]
    BY <2>1 DEF OwnInv, OneOwner, LockInv, HandleTypeOK
  <2>4. Closing' = Closing \ {val[t]} /\ val[t] \in Closing
    BY <2>1, <2>3 DEF Closing
  <2>5. OneOwner'
    <3>1. \A h \in Handles : Owners[h] # Nil => Owners[h] \in open /\ Owners[h] # val[t]
      BY <2>4 DEF OneOwner, OwnInv
    <3>2. \A h \in Handles : Owners'[h] # Nil => Owners'[h] \in open' /\ Owners'[h] \notin Closing'
      BY <2>1, <2>2, <2>4, <3>1 DEF OneOwner, OwnInv
    <3>3. \A u \in Threads : pc'[u] = "closing" => val'[u] \in open'
      BY <2>1, <2>3 DEF OneOwner, OwnInv
    <3>4. \A u, v \in Threads : pc'[u] = "closing" /\ pc'[v] = "closing" /\ val'[u] = val'[v]
                                 => u = v
      BY <2>1 DEF OneOwner, OwnInv
    <3> QED BY <2>2, <3>2, <3>3, <3>4 DEF OneOwner, OwnInv
  <2>6. Promise!Shut(val[t])
    BY <2>1, <2>2, <2>3, <2>4 DEF Promise!Shut, Owners
  <2> QED BY <2>3, <2>5, <2>6 DEF Promise!OwnNext
<1> QED BY <1>1, <1>2, <1>3, <1>4, <1>5 DEF UserStep, SwapStep, Quiet

\* Swaps, moves and destructions of any number of handles by any number of threads,
\* interleaved access by access, implement one owner per open descriptor: a swap takes
\* effect at the exchange of its first swap_atomic, and close() runs once.
THEOREM SwapsImplementOwnership == HandleSpec => SwapsAreAtomic
<1>1. HandleInit => OwnInv /\ Promise!OwnInit
  <2> SUFFICES ASSUME HandleInit
               PROVE  OwnInv /\ Promise!OwnInit
    OBVIOUS
  <2>1. LockInv
    BY HandleNilAssumption
       DEF HandleInit, LockInv, HandleTypeOK, SwapShape, Exclusion, InSwap, Swapping, Places,
           Critical
  <2>2. Owners = [h \in Handles |-> Nil] /\ Closing = {}
    BY DEF HandleInit, Owners, Owned, Closing
  <2>3. OneOwner /\ SwapFacts
    BY <2>2 DEF HandleInit, OneOwner, SwapFacts, InSwap, Swapping
  <2> QED BY <2>1, <2>2, <2>3 DEF HandleInit, OwnInv, Promise!OwnInit, Owners
<1>2. OwnInv /\ LockInv' /\ [HandleNext]_handleVars =>
        OwnInv' /\ [Promise!OwnNext]_(Promise!ownVars)
  <2>1. OwnInv /\ LockInv' /\ HandleNext => OwnInv' /\ [Promise!OwnNext]_(Promise!ownVars)
    BY OwnershipKept, SwapFactsKept DEF OwnInv
  <2>2. OwnInv /\ LockInv' /\ UNCHANGED handleVars =>
          OwnInv' /\ UNCHANGED Promise!ownVars
    <3> SUFFICES ASSUME OwnInv, LockInv', UNCHANGED handleVars
                 PROVE  OwnInv' /\ UNCHANGED Promise!ownVars
      OBVIOUS
    <3>1. UNCHANGED <<socket, live, open, pc, lhs, rhs, val, tmp>>
      BY DEF handleVars
    <3>2. Owners' = Owners /\ Closing' = Closing
      BY <3>1 DEF Owners, Owned, Closing
    <3>3. OneOwner' /\ SwapFacts'
      BY <3>1, <3>2 DEF OwnInv, OneOwner, SwapFacts, InSwap, Untouched
    <3> QED BY <3>1, <3>2, <3>3 DEF OwnInv, Promise!ownVars, Owners
  <2> QED BY <2>1, <2>2
<1> QED
  BY <1>1, <1>2, LockInvCorrect, PTL DEF HandleSpec, SwapsAreAtomic, Promise!OwnSpec

-----------------------------------------------------------------------------
(* Errors survive swaps. *)

ErrorHalf == {"error_exchange", "error_store"}

\* Between the load and the store of the errors, what the source of the swap should
\* hold is in the thread's locals.
ErrorLocals ==
  \A t \in Threads :
    /\ pc[t] = "error_exchange" => val[t] = due[rhs[t]]
    /\ pc[t] = "error_store" => tmp[t] = due[rhs[t]]

ErrorInv == LockInv /\ ErrorSurvivesSwap /\ ErrorLocals

\* No two threads in the second half of a swap work on the same handle.
LEMMA ErrorStepsExclude ==
  ASSUME LockInv, NEW t \in Threads, NEW u \in Threads, t # u,
         pc[t] \in Swapping, pc[u] \in Swapping
  PROVE  lhs[t] # rhs[u] /\ rhs[t] # rhs[u]
BY DEF LockInv, Exclusion, Critical, Swapping

\* A step that leaves the errors and the threads in the second half of a swap alone.
LEMMA ErrorsUndisturbed ==
  ASSUME ErrorSurvivesSwap, ErrorLocals, UNCHANGED <<error, due>>,
         \A u \in Threads : pc[u] \in ErrorHalf =>
           pc'[u] = pc[u] /\ rhs'[u] = rhs[u] /\ val'[u] = val[u] /\ tmp'[u] = tmp[u],
         \A u \in Threads : pc'[u] \in ErrorHalf => pc'[u] = pc[u]
  PROVE  ErrorSurvivesSwap' /\ ErrorLocals'
<1>1. \A h \in Handles : Overtaken(h)' <=> Overtaken(h)
  BY DEF Overtaken, ErrorHalf
<1> QED BY <1>1 DEF ErrorSurvivesSwap, ErrorLocals, ErrorHalf

\* Every step keeps the errors where they should be.
LEMMA ErrorsKept == ErrorInv /\ HandleNext => ErrorSurvivesSwap' /\ ErrorLocals'
<1> SUFFICES ASSUME ErrorInv, NEW t \in Threads, UserStep(t) \/ SwapStep(t)
             PROVE  ErrorSurvivesSwap' /\ ErrorLocals'
  BY DEF HandleNext
<1>0. /\ error \in [Handles -> Errors \cup {Nil}] /\ due \in [Handles -> Errors \cup {Nil}]
      /\ pc \in [Threads -> Places] /\ SwapShape /\ LockInv
      /\ lhs \in [Threads -> Handles \cup {Nil}] /\ rhs \in [Threads -> Handles \cup {Nil}]
      /\ val \in [Threads -> Descriptors \cup Errors \cup {Nil}]
      /\ tmp \in [Threads -> Descriptors \cup Errors \cup {Nil}]
      /\ ErrorSurvivesSwap /\ ErrorLocals
  BY DEF ErrorInv, LockInv, HandleTypeOK
<1>1. ASSUME NEW h \in Handles, NEW x, ~Overtaken(h),
             error' = [error EXCEPT ![h] = x], due' = [due EXCEPT ![h] = x],
             UNCHANGED <<rhs, tmp>>,
             \A u \in Threads : pc[u] \in ErrorHalf \/ pc'[u] \in ErrorHalf =>
               pc'[u] = pc[u] /\ val'[u] = val[u]
      PROVE  ErrorSurvivesSwap' /\ ErrorLocals'
  <2>1. \A g \in Handles : Overtaken(g)' <=> Overtaken(g)
    BY <1>1 DEF Overtaken, ErrorHalf
  <2>2. ErrorSurvivesSwap'
    BY <1>0, <1>1, <2>1 DEF ErrorSurvivesSwap
  <2>3. \A u \in Threads : pc[u] \in ErrorHalf => rhs[u] # h /\ rhs[u] \in Handles
    BY <1>0, <1>1 DEF Overtaken, ErrorHalf, SwapShape, InSwap, Swapping
  <2> QED BY <1>0, <1>1, <2>2, <2>3 DEF ErrorLocals, ErrorHalf
<1>2. ASSUME NEW h \in Handles, Untouched(h) PROVE ~Overtaken(h)
  BY <1>2 DEF Untouched, Overtaken, InSwap, Swapping
<1>3. ASSUME NEW h \in Handles, NEW d \in Descriptors, Construct(t, h, d)
      PROVE  ErrorSurvivesSwap' /\ ErrorLocals'
  BY <1>1, <1>2, <1>3 DEF Construct
<1>4. ASSUME NEW h \in Handles, Destroy(t, h)
      PROVE  ErrorSurvivesSwap' /\ ErrorLocals'
  <2>1. \A u \in Threads : pc[u] \in ErrorHalf \/ pc'[u] \in ErrorHalf =>
          pc'[u] = pc[u] /\ val'[u] = val[u]
    BY <1>0, <1>4 DEF Destroy, ErrorHalf
  <2> QED BY <1>1, <1>2, <1>4, <2>1 DEF Destroy
<1>5. ASSUME NEW h \in Handles, NEW x \in Errors \cup {Nil}, SetError(t, h, x)
      PROVE  ErrorSurvivesSwap' /\ ErrorLocals'
  <2>1. CASE Overtaken(h)
    <3>1. /\ due' = due /\ error' = [error EXCEPT ![h] = x]
          /\ UNCHANGED <<pc, rhs, val, tmp>>
      BY <1>5, <2>1 DEF SetError
    <3>2. \A g \in Handles : Overtaken(g)' <=> Overtaken(g)
      BY <3>1 DEF Overtaken
    <3> QED BY <1>0, <2>1, <3>1, <3>2 DEF ErrorSurvivesSwap, ErrorLocals
  <2>2. CASE ~Overtaken(h)
    BY <1>1, <1>5, <2>2 DEF SetError
  <2> QED BY <2>1, <2>2
<1>6. ASSUME NEW h \in Handles, NEW g \in Handles,
             MoveAssign(t, h, g) \/ MoveConstruct(t, h, g)
      PROVE  ErrorSurvivesSwap' /\ ErrorLocals'
  <2>1. pc[t] = "idle" /\ Enter(t, h, g)
    BY <1>6 DEF MoveAssign, MoveConstruct
  <2> QED BY <1>0, <2>1, ErrorsUndisturbed DEF Enter, ErrorHalf
<1>7. CASE CloseDescriptor(t) \/ Lock(t) \/ Unlock(t)
  BY <1>0, <1>7, ErrorsUndisturbed DEF CloseDescriptor, Lock, Unlock, ErrorHalf
<1>8. CASE SocketLoad(t) \/ SocketExchange(t) \/ SocketStore(t)
  BY <1>0, <1>8, ErrorsUndisturbed DEF SocketLoad, SocketExchange, SocketStore, ErrorHalf
<1>9. CASE ErrorLoad(t)
  <2>1. /\ pc[t] = "error_load" /\ rhs[t] \in Handles /\ UNCHANGED <<error, due, rhs, tmp>>
        /\ pc'[t] = "error_exchange" /\ val'[t] = error[rhs[t]]
        /\ \A u \in Threads : u # t => pc'[u] = pc[u] /\ val'[u] = val[u]
    BY <1>0, <1>9 DEF ErrorLoad, SwapShape, InSwap, Swapping
  <2>2. ~Overtaken(rhs[t])
    BY <1>0, <2>1, ErrorStepsExclude DEF Overtaken, Swapping
  <2>3. \A g \in Handles : Overtaken(g) => Overtaken(g)'
    BY <2>1 DEF Overtaken
  <2> QED BY <1>0, <2>1, <2>2, <2>3 DEF ErrorSurvivesSwap, ErrorLocals
<1>10. CASE ErrorExchange(t)
  <2> DEFINE l == lhs[t]
             r == rhs[t]
  <2>1. /\ pc[t] = "error_exchange" /\ l \in Handles /\ r \in Handles /\ l # r
        /\ error'[l] = val[t] /\ \A g \in Handles : g # l => error'[g] = error[g]
        /\ due'[l] = due[r] /\ due'[r] = due[l]
        /\ \A g \in Handles : g # l /\ g # r => due'[g] = due[g]
        /\ \A u \in Threads : u # t => pc'[u] = pc[u] /\ tmp'[u] = tmp[u]
        /\ pc'[t] = "error_store" /\ tmp'[t] = error[l] /\ UNCHANGED <<rhs, val>>
    BY <1>0, <1>10 DEF ErrorExchange, SwapShape, InSwap, Swapping
  <2>2. \A u \in Threads : u # t /\ pc[u] \in ErrorHalf =>
          rhs[u] # l /\ rhs[u] # r /\ rhs[u] \in Handles
    BY <1>0, <2>1, ErrorStepsExclude DEF ErrorHalf, Swapping, SwapShape, InSwap
  <2>3. /\ ~Overtaken(l) /\ Overtaken(r) /\ error[l] = due[l] /\ val[t] = due[r]
        /\ \A g \in Handles : Overtaken(g)' <=> Overtaken(g)
    <3>1. ~Overtaken(l)
      BY <2>1, <2>2 DEF Overtaken, ErrorHalf
    <3>2. Overtaken(r)
      BY <2>1 DEF Overtaken
    <3>3. \A u \in Threads : (pc[u] \in ErrorHalf)' <=> pc[u] \in ErrorHalf
      BY <2>1 DEF ErrorHalf
    <3>4. ASSUME NEW g \in Handles PROVE Overtaken(g)' <=> Overtaken(g)
      <4>1. Overtaken(g) <=> \E u \in Threads : pc[u] \in ErrorHalf /\ rhs[u] = g
        BY DEF Overtaken, ErrorHalf
      <4>2. Overtaken(g)' <=> \E u \in Threads : (pc[u] \in ErrorHalf)' /\ rhs'[u] = g
        BY DEF Overtaken, ErrorHalf
      <4> QED BY <2>1, <3>3, <4>1, <4>2
    <3>5. error[l] = due[l] /\ val[t] = due[r]
      BY <1>0, <2>1, <3>1 DEF ErrorSurvivesSwap, ErrorLocals
    <3> QED BY <3>1, <3>2, <3>4, <3>5
  <2>4. ErrorSurvivesSwap'
    BY <1>0, <2>1, <2>3 DEF ErrorSurvivesSwap
  <2>5. ErrorLocals'
    BY <1>0, <2>1, <2>2, <2>3 DEF ErrorLocals, ErrorHalf
  <2> QED BY <2>4, <2>5
<1>11. CASE ErrorStore(t)
  <2>1. /\ pc[t] = "error_store" /\ rhs[t] \in Handles
        /\ error'[rhs[t]] = tmp[t] /\ \A g \in Handles : g # rhs[t] => error'[g] = error[g]
        /\ \A u \in Threads : u # t => pc'[u] = pc[u]
        /\ pc'[t] = "unlock" /\ UNCHANGED <<rhs, val, tmp, due>>
    BY <1>0, <1>11 DEF ErrorStore, SwapShape, InSwap, Swapping
  <2>2. \A g \in Handles : Overtaken(g) => g = rhs[t] \/ Overtaken(g)'
    BY <2>1 DEF Overtaken
  <2> QED BY <1>0, <2>1, <2>2 DEF ErrorSurvivesSwap, ErrorLocals
<1> QED
  BY <1>3, <1>4, <1>5, <1>6, <1>7, <1>8, <1>9, <1>10, <1>11 DEF UserStep, SwapStep

\* However many threads set errors, swap and move handles, each handle has the error
\* it would have if swaps were one step, except the source while its swap overtakes it.
THEOREM ErrorsSurvive == HandleSpec => []ErrorSurvivesSwap
<1>1. HandleInit => ErrorSurvivesSwap /\ ErrorLocals
  BY DEF HandleInit, ErrorSurvivesSwap, ErrorLocals
<1>2. ErrorInv /\ LockInv' /\ [HandleNext]_handleVars => ErrorInv'
  <2>1. ErrorInv /\ LockInv' /\ HandleNext => ErrorInv'
    BY ErrorsKept DEF ErrorInv
  <2>2. ErrorInv /\ LockInv' /\ UNCHANGED handleVars => ErrorInv'
    BY DEF ErrorInv, ErrorSurvivesSwap, ErrorLocals, Overtaken, handleVars
  <2> QED BY <2>1, <2>2
<1>3. ErrorInv => ErrorSurvivesSwap
  BY DEF ErrorInv
<1>4. HandleSpec => []LockInv
  BY LockInvCorrect
<1>5. LockInv /\ ErrorSurvivesSwap /\ ErrorLocals => ErrorInv
  BY DEF ErrorInv
<1> QED BY <1>1, <1>2, <1>3, <1>4, <1>5, PTL DEF HandleSpec

=============================================================================
