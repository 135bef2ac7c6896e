--------------------------- MODULE SnapshotStore ---------------------------
(***************************************************************************)
(* What the shared node cache of the proxy-engine StatefulSet promises,    *)
(* without locks, files, temporary names or crashes.                       *)
(*                                                                         *)
(* One register holds the recorded snapshot.  A Pod that is starting may   *)
(* record one that it fetched during this start, and it goes into service  *)
(* with a snapshot that was recorded at some moment of this start: never   *)
(* with one that nobody recorded, nor with one that was already gone when  *)
(* it began.  A snapshot that has been superseded never comes back, and a  *)
(* start never records one older than what it could read when it began.    *)
(*                                                                         *)
(* Snapshots are numbered in the order in which they were fetched.         *)
(***************************************************************************)
EXTENDS Integers

CONSTANT Pods

VARIABLES
  snap,    \* the recorded snapshot
  past,    \* every snapshot recorded so far
  base,    \* base[p]: the snapshot recorded when p's current start began
  window,  \* window[p]: every snapshot recorded during p's current start,
           \* {} while p serves
  view     \* view[p]: the snapshot p serves, Absent while p is starting

Absent == 0

vars == <<snap, past, base, window, view>>

Init ==
  /\ snap = Absent
  /\ past = {}
  /\ base = [p \in Pods |-> Absent]
  /\ window = [p \in Pods |-> {Absent}]
  /\ view = [p \in Pods |-> Absent]

(* A Pod, serving or not, starts (again).                                  *)
Begin(p) ==
  /\ base' = [base EXCEPT ![p] = snap]
  /\ window' = [window EXCEPT ![p] = {snap}]
  /\ view' = [view EXCEPT ![p] = Absent]
  /\ UNCHANGED <<snap, past>>

(* A starting Pod records a snapshot that is new to the register and newer *)
(* than the one it held when the start began; every starting Pod may come  *)
(* to see it.                                                              *)
Publish(p) ==
  /\ view[p] = Absent
  /\ snap' \in Nat \ past
  /\ snap' > base[p]
  /\ past' = past \cup {snap'}
  /\ window' = [q \in Pods |-> window[q] \cup
                                 IF view[q] = Absent THEN {snap'} ELSE {}]
  /\ UNCHANGED <<base, view>>

(* A starting Pod goes into service with a snapshot of its window.         *)
Serve(p) ==
  /\ view[p] = Absent
  /\ \E v \in window[p] \ {Absent} : view' = [view EXCEPT ![p] = v]
  /\ base' = [base EXCEPT ![p] = Absent]
  /\ window' = [window EXCEPT ![p] = {}]
  /\ UNCHANGED <<snap, past>>

Next ==
  \E p \in Pods : \/ Begin(p)
                  \/ Publish(p)
                  \/ Serve(p)

Spec == Init /\ [][Next]_vars
=============================================================================
