---------------------------- MODULE SocketHandle ----------------------------
(***************************************************************************)
(* socket_handle: an atomic descriptor and an atomic error code, and a     *)
(* mutex that only swap takes.  Moves are swaps.  A swap is the six atomic *)
(* accesses of its two swap_atomic calls, made with both mutexes held;     *)
(* set_error and the readers take no mutex and run between any two of them.*)
(*                                                                         *)
(* The program keeps C++'s rules for lifetimes: it does not construct or   *)
(* destroy a handle while another thread is in a swap of it.               *)
(***************************************************************************)
CONSTANTS
  Threads,
  Handles,       \* the places a socket_handle can be constructed in
  Descriptors,   \* what ::socket and ::accept can return
  Errors,        \* error codes other than 0
  Nil            \* INVALID_SOCKET, no error, and no holder of a mutex

ASSUME HandleNilAssumption ==
  Nil \notin Threads /\ Nil \notin Descriptors /\ Nil \notin Errors

VARIABLES
  socket,        \* socket_
  error,         \* error_
  mtx,           \* holder of mtx_
  live,          \* the handles that are constructed
  open,          \* kernel: the open descriptors
  pc,            \* what a thread does next
  lhs, rhs,      \* the handles of its swap
  val,           \* what the load of swap_atomic returned; the descriptor to close
  tmp,           \* what its exchange returned
  due            \* history: the error each handle would have if swaps were one step

handleVars == <<socket, error, mtx, live, open, pc, lhs, rhs, val, tmp, due>>

Swapping == {"socket_load", "socket_exchange", "socket_store",
             "error_load", "error_exchange", "error_store"}
Places == {"idle", "lock", "unlock", "closing"} \cup Swapping

\* The descriptors, error codes and program points a handle and a thread can hold.
HandleTypeOK ==
  /\ socket \in [Handles -> Descriptors \cup {Nil}]
  /\ error \in [Handles -> Errors \cup {Nil}]
  /\ mtx \in [Handles -> Threads \cup {Nil}]
  /\ live \subseteq Handles
  /\ open \subseteq Descriptors
  /\ pc \in [Threads -> Places]
  /\ lhs \in [Threads -> Handles \cup {Nil}] /\ rhs \in [Threads -> Handles \cup {Nil}]
  /\ val \in [Threads -> Descriptors \cup Errors \cup {Nil}]
  /\ tmp \in [Threads -> Descriptors \cup Errors \cup {Nil}]
  /\ due \in [Handles -> Errors \cup {Nil}]

HandleInit ==
  /\ socket = [h \in Handles |-> Nil]
  /\ error = [h \in Handles |-> Nil]
  /\ mtx = [h \in Handles |-> Nil]
  /\ due = [h \in Handles |-> Nil]
  /\ live = {} /\ open = {}
  /\ pc = [t \in Threads |-> "idle"]
  /\ lhs = [t \in Threads |-> Nil] /\ rhs = [t \in Threads |-> Nil]
  /\ val = [t \in Threads |-> Nil] /\ tmp = [t \in Threads |-> Nil]

InSwap(t) == pc[t] \in {"lock", "unlock"} \cup Swapping

Untouched(h) == \A t \in Threads : InSwap(t) => h # lhs[t] /\ h # rhs[t]

-----------------------------------------------------------------------------
(* Construction and destruction. *)

\* socket_handle(domain, type, protocol) and socket_handle(native): a descriptor
\* that no handle owns.  On failure the constructor throws and there is no handle.
Construct(t, h, d) ==
  /\ pc[t] = "idle" /\ h \notin live /\ Untouched(h)
  /\ d \in Descriptors \ open
  /\ open' = open \cup {d}
  /\ socket' = [socket EXCEPT ![h] = d]
  /\ error' = [error EXCEPT ![h] = Nil]
  /\ due' = [due EXCEPT ![h] = Nil]
  /\ live' = live \cup {h}
  /\ UNCHANGED <<mtx, pc, lhs, rhs, val, tmp>>

\* close(): exchange, then the system call unless there was no descriptor.
Destroy(t, h) ==
  /\ pc[t] = "idle" /\ h \in live /\ Untouched(h)
  /\ live' = live \ {h}
  /\ socket' = [socket EXCEPT ![h] = Nil]
  /\ error' = [error EXCEPT ![h] = Nil]
  /\ due' = [due EXCEPT ![h] = Nil]
  /\ val' = [val EXCEPT ![t] = socket[h]]
  /\ pc' = [pc EXCEPT ![t] = IF socket[h] = Nil THEN "idle" ELSE "closing"]
  /\ UNCHANGED <<mtx, open, lhs, rhs, tmp>>

CloseDescriptor(t) ==
  /\ pc[t] = "closing"
  /\ open' = open \ {val[t]}
  /\ val' = [val EXCEPT ![t] = Nil]
  /\ pc' = [pc EXCEPT ![t] = "idle"]
  /\ UNCHANGED <<socket, error, mtx, live, lhs, rhs, tmp, due>>

\* A swap has loaded the error of h and is going to store another one there.
Overtaken(h) ==
  \E t \in Threads : pc[t] \in {"error_exchange", "error_store"} /\ rhs[t] = h

\* The error 0 (Nil) clears.  What is set on a handle that a swap overtakes is lost.
SetError(t, h, e) ==
  /\ pc[t] = "idle" /\ h \in live
  /\ error' = [error EXCEPT ![h] = e]
  /\ due' = IF Overtaken(h) THEN due ELSE [due EXCEPT ![h] = e]
  /\ UNCHANGED <<socket, mtx, live, open, pc, lhs, rhs, val, tmp>>

-----------------------------------------------------------------------------
(* Moves and swaps. *)

Enter(t, h, g) ==
  /\ pc' = [pc EXCEPT ![t] = "lock"]
  /\ lhs' = [lhs EXCEPT ![t] = h]
  /\ rhs' = [rhs EXCEPT ![t] = g]
  /\ UNCHANGED <<socket, error, mtx, live, open, val, tmp, due>>

\* h = std::move(g), which is swap(h, g); on a handle and itself it does nothing.
MoveAssign(t, h, g) ==
  /\ pc[t] = "idle" /\ h # g
  /\ h \in live /\ g \in live
  /\ Enter(t, h, g)

\* A default constructed handle is swapped with g before anyone else can name it.
MoveConstruct(t, h, g) ==
  /\ pc[t] = "idle"
  /\ h \notin live /\ Untouched(h) /\ g \in live
  /\ Enter(t, h, g)

\* A plausible mistake: no lock.
LockNothing(t) ==
  /\ pc[t] = "lock"
  /\ pc' = [pc EXCEPT ![t] = "socket_load"]
  /\ UNCHANGED <<socket, error, mtx, live, open, lhs, rhs, val, tmp, due>>

\* std::scoped_lock is taken to lock both or wait without holding either.
Lock(t) ==
  /\ pc[t] = "lock"
  /\ mtx[lhs[t]] = Nil /\ mtx[rhs[t]] = Nil
  /\ mtx' = [mtx EXCEPT ![lhs[t]] = t, ![rhs[t]] = t]
  /\ pc' = [pc EXCEPT ![t] = "socket_load"]
  /\ UNCHANGED <<socket, error, live, open, lhs, rhs, val, tmp, due>>

\* swap_atomic(lhs.socket_, rhs.socket_): load, exchange, store.
SocketLoad(t) ==
  /\ pc[t] = "socket_load"
  /\ val' = [val EXCEPT ![t] = socket[rhs[t]]]
  /\ pc' = [pc EXCEPT ![t] = "socket_exchange"]
  /\ UNCHANGED <<socket, error, mtx, live, open, lhs, rhs, tmp, due>>

SocketExchange(t) ==
  /\ pc[t] = "socket_exchange"
  /\ tmp' = [tmp EXCEPT ![t] = socket[lhs[t]]]
  /\ socket' = [socket EXCEPT ![lhs[t]] = val[t]]
  /\ pc' = [pc EXCEPT ![t] = "socket_store"]
  /\ UNCHANGED <<error, mtx, live, open, lhs, rhs, val, due>>

SocketStore(t) ==
  /\ pc[t] = "socket_store"
  /\ socket' = [socket EXCEPT ![rhs[t]] = tmp[t]]
  /\ pc' = [pc EXCEPT ![t] = "error_load"]
  /\ UNCHANGED <<error, mtx, live, open, lhs, rhs, val, tmp, due>>

\* swap_atomic(lhs.error_, rhs.error_)
ErrorLoad(t) ==
  /\ pc[t] = "error_load"
  /\ val' = [val EXCEPT ![t] = error[rhs[t]]]
  /\ pc' = [pc EXCEPT ![t] = "error_exchange"]
  /\ UNCHANGED <<socket, error, mtx, live, open, lhs, rhs, tmp, due>>

\* A plausible mistake: the exchange reads the wrong member.
ErrorExchangeCrossed(t) ==
  /\ pc[t] = "error_exchange"
  /\ tmp' = [tmp EXCEPT ![t] = socket[lhs[t]]]
  /\ error' = [error EXCEPT ![lhs[t]] = val[t]]
  /\ pc' = [pc EXCEPT ![t] = "error_store"]
  /\ UNCHANGED <<socket, mtx, live, open, lhs, rhs, val, due>>

ErrorExchange(t) ==
  /\ pc[t] = "error_exchange"
  /\ tmp' = [tmp EXCEPT ![t] = error[lhs[t]]]
  /\ error' = [error EXCEPT ![lhs[t]] = val[t]]
  /\ due' = [due EXCEPT ![lhs[t]] = due[rhs[t]], ![rhs[t]] = due[lhs[t]]]
  /\ pc' = [pc EXCEPT ![t] = "error_store"]
  /\ UNCHANGED <<socket, mtx, live, open, lhs, rhs, val>>

\* A plausible mistake: the old value of lhs is forgotten.
ErrorStoreLoaded(t) ==
  /\ pc[t] = "error_store"
  /\ error' = [error EXCEPT ![rhs[t]] = val[t]]
  /\ pc' = [pc EXCEPT ![t] = "unlock"]
  /\ UNCHANGED <<socket, mtx, live, open, lhs, rhs, val, tmp, due>>

ErrorStore(t) ==
  /\ pc[t] = "error_store"
  /\ error' = [error EXCEPT ![rhs[t]] = tmp[t]]
  /\ pc' = [pc EXCEPT ![t] = "unlock"]
  /\ UNCHANGED <<socket, mtx, live, open, lhs, rhs, val, tmp, due>>

\* The end of the swap; a move construction now has its handle.
Unlock(t) ==
  /\ pc[t] = "unlock"
  /\ mtx' = [mtx EXCEPT ![lhs[t]] = Nil, ![rhs[t]] = Nil]
  /\ live' = live \cup {lhs[t]}
  /\ pc' = [pc EXCEPT ![t] = "idle"]
  /\ lhs' = [lhs EXCEPT ![t] = Nil] /\ rhs' = [rhs EXCEPT ![t] = Nil]
  /\ val' = [val EXCEPT ![t] = Nil] /\ tmp' = [tmp EXCEPT ![t] = Nil]
  /\ UNCHANGED <<socket, error, open, due>>

-----------------------------------------------------------------------------
SwapStep(t) == \/ Lock(t)
               \/ SocketLoad(t) \/ SocketExchange(t) \/ SocketStore(t)
               \/ ErrorLoad(t) \/ ErrorExchange(t) \/ ErrorStore(t)
               \/ Unlock(t) \/ CloseDescriptor(t)

UserStep(t) ==
  \E h \in Handles :
    \/ \E d \in Descriptors : Construct(t, h, d)
    \/ Destroy(t, h)
    \/ \E e \in Errors \cup {Nil} : SetError(t, h, e)
    \/ \E g \in Handles : MoveAssign(t, h, g) \/ MoveConstruct(t, h, g)

HandleNext == \E t \in Threads : UserStep(t) \/ SwapStep(t)

HandleSpec == HandleInit /\ [][HandleNext]_handleVars

-----------------------------------------------------------------------------
(* Properties. *)

\* The descriptor h stands for: between the exchange and the store of a swap both
\* handles hold the same value, and the other one is in the thread's tmp.
Owned(h) ==
  IF \E t \in Threads : pc[t] = "socket_store" /\ rhs[t] = h
    THEN tmp[CHOOSE t \in Threads : pc[t] = "socket_store" /\ rhs[t] = h]
    ELSE socket[h]

Closing == {val[t] : t \in {u \in Threads : pc[u] = "closing"}}

Promise == INSTANCE SocketOwnership WITH
             owns <- [h \in Handles |-> Owned(h)], dropped <- Closing

\* Swaps, moves and destructions of handles by several threads, interleaved access
\* by access, leave each open descriptor one owner and close it once.
SwapsAreAtomic == Promise!OwnSpec

\* Every handle has the error it would have if swaps were one step, except the
\* source of a swap that has loaded its error and not yet stored the other one.
\* With the exception in SetError this says how much the missing lock in set_error
\* costs: one update of that handle, and no error of any other handle or time.
ErrorSurvivesSwap == \A h \in Handles : ~Overtaken(h) => error[h] = due[h]

=============================================================================
