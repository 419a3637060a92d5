---------------------------- MODULE CallbackQueue ----------------------------
(***************************************************************************)
(* What IOLoop promises to the callers of add_callback: one queue, in the  *)
(* order of the calls; every callback is run once, one at a time, by the   *)
(* thread that runs the loop.  Callbacks is the set of callables.          *)
(***************************************************************************)
EXTENDS Sequences

CONSTANTS Callbacks,  \* the callables that clients pass to add_callback
          None        \* "no callback is running"

VARIABLES queue,      \* callbacks accepted and not yet run, oldest first
          running     \* the callback being run, or None

qvars == <<queue, running>>

Init == queue = <<>> /\ running = None

Add(c) == queue' = Append(queue, c) /\ UNCHANGED running

Run == /\ running = None
       /\ queue # <<>>
       /\ running' = Head(queue)
       /\ queue' = Tail(queue)

Finish == running # None /\ running' = None /\ UNCHANGED queue

Next == (\E c \in Callbacks : Add(c)) \/ Run \/ Finish

Spec == Init /\ [][Next]_qvars
=============================================================================
