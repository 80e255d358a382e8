----------------------------- MODULE TaskQueue -----------------------------
(***************************************************************************)
(* What EventLoop promises to those who queue functors on it, without      *)
(* to_do_list_, the swap, the flag and the eventfd: every loop has one     *)
(* FIFO queue of functors and runs them one at a time.                     *)
(***************************************************************************)
EXTENDS Sequences

CONSTANTS Loops, Funcs

VARIABLES
  pending,  (* per loop: functors queued and not started, in order          *)
  running   (* per loop: the functor being run, as a sequence of length 0,1 *)

vars == <<pending, running>>

Init ==
  /\ pending = [l \in Loops |-> <<>>]
  /\ running = [l \in Loops |-> <<>>]

Queue(l, f) ==
  /\ pending' = [pending EXCEPT ![l] = Append(@, f)]
  /\ UNCHANGED running

Start(l) ==
  /\ running[l] = <<>>
  /\ pending[l] # <<>>
  /\ running' = [running EXCEPT ![l] = <<Head(pending[l])>>]
  /\ pending' = [pending EXCEPT ![l] = Tail(@)]

Return(l) ==
  /\ running[l] # <<>>
  /\ running' = [running EXCEPT ![l] = <<>>]
  /\ UNCHANGED pending

Next ==
  \E l \in Loops : Start(l) \/ Return(l) \/ \E f \in Funcs : Queue(l, f)

Spec == Init /\ [][Next]_vars
=============================================================================
