---------------------------- MODULE StoreForward ----------------------------
(***************************************************************************)
(* What the sampling client promises about its samples, without sockets,   *)
(* databases or program counters.  A sample is first held in memory        *)
(* (volatile); from there it is handed to the network, put in the durable  *)
(* store, or lost.  A stored sample is never lost: it leaves the store     *)
(* only after it was handed over, and the store is served oldest first.    *)
(* Handing a stored sample over twice is allowed (at least once), handing  *)
(* over a sample that was never taken is not.                              *)
(***************************************************************************)
EXTENDS Naturals

CONSTANT Sample     \* the sample numbers, in the order the samples are taken

VARIABLES
  volatile,     \* the sample in memory, as a set of at most one element
  durable,      \* the samples in the store
  delivered,    \* the samples handed over in full at least once
  lost          \* the samples that were neither handed over nor stored

vars == <<volatile, durable, delivered, lost>>

Taken == volatile \cup durable \cup delivered \cup lost

Oldest(n) == n \in durable /\ \A m \in durable : n <= m

-----------------------------------------------------------------------------

Init ==
  /\ volatile = {}
  /\ durable = {}
  /\ delivered = {}
  /\ lost = {}

\* A new sample is read; the one before it is settled by then.
Take(n) ==
  /\ volatile = {}
  /\ \A m \in Taken : m < n
  /\ volatile' = {n}
  /\ UNCHANGED <<durable, delivered, lost>>

\* The sample in memory goes straight to the network.
HandOverFresh(n) ==
  /\ n \in volatile
  /\ volatile' = {}
  /\ delivered' = delivered \cup {n}
  /\ UNCHANGED <<durable, lost>>

\* The sample in memory goes to the store.
Persist(n) ==
  /\ n \in volatile
  /\ volatile' = {}
  /\ durable' = durable \cup {n}
  /\ UNCHANGED <<delivered, lost>>

\* The sample in memory can be stored nowhere, or the process dies with it.
Lose(n) ==
  /\ n \in volatile
  /\ volatile' = {}
  /\ lost' = lost \cup {n}
  /\ UNCHANGED <<durable, delivered>>

\* The oldest stored sample goes to the network and stays in the store.
HandOverOldest(n) ==
  /\ Oldest(n)
  /\ delivered' = delivered \cup {n}
  /\ UNCHANGED <<volatile, durable, lost>>

\* The oldest stored sample leaves the store: it must have been handed over.
Release(n) ==
  /\ Oldest(n)
  /\ n \in delivered
  /\ durable' = durable \ {n}
  /\ UNCHANGED <<volatile, delivered, lost>>

Next ==
  \E n \in Sample :
    \/ Take(n)
    \/ HandOverFresh(n)
    \/ Persist(n)
    \/ Lose(n)
    \/ HandOverOldest(n)
    \/ Release(n)

Spec == Init /\ [][Next]_vars

=============================================================================
