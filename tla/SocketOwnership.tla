--------------------------- MODULE SocketOwnership ---------------------------
(***************************************************************************)
(* What socket_handle promises: every open descriptor has one owner, which *)
(* an exchange of two handles changes in one step, and is closed once, by  *)
(* the destruction of its owner.                                           *)
(***************************************************************************)
CONSTANTS Handles, Descriptors, Nil

VARIABLES
  owns,      \* the descriptor a handle owns, or Nil
  open,      \* the descriptors the process has open
  dropped    \* those whose owner is gone and that are being closed

ownVars == <<owns, open, dropped>>

OwnInit == owns = [h \in Handles |-> Nil] /\ open = {} /\ dropped = {}

Acquire(h, d) == /\ owns[h] = Nil /\ d \in Descriptors \ open
                 /\ owns' = [owns EXCEPT ![h] = d]
                 /\ open' = open \cup {d}
                 /\ UNCHANGED dropped

Exchange(h, g) == /\ owns' = [owns EXCEPT ![h] = owns[g], ![g] = owns[h]]
                  /\ UNCHANGED <<open, dropped>>

Drop(h) == /\ owns[h] # Nil
           /\ dropped' = dropped \cup {owns[h]}
           /\ owns' = [owns EXCEPT ![h] = Nil]
           /\ UNCHANGED open

Shut(d) == /\ d \in dropped \cap open
           /\ dropped' = dropped \ {d} /\ open' = open \ {d}
           /\ UNCHANGED owns

OwnNext == \/ \E h \in Handles : Drop(h) \/ \E d \in Descriptors : Acquire(h, d)
           \/ \E h, g \in Handles : Exchange(h, g)
           \/ \E d \in Descriptors : Shut(d)

OwnSpec == OwnInit /\ [][OwnNext]_ownVars

=============================================================================
