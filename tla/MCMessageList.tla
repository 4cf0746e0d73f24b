---------------------------- MODULE MCMessageList ----------------------------
(* Listings for TLC: the whole discussion has three threads, the target in    *)
(* the last one; an idea has two threads without the target, a search one     *)
(* thread with it.  The whole discussion has the target: a jump to a message  *)
(* it lacks starts again for ever, which JumpEnds does not speak of.          *)
EXTENDS MessageList

MCListing ==
    [all    |-> [n |-> 6, roots |-> {0, 2, 3}, target |-> 5],
     idea   |-> [n |-> 3, roots |-> {0, 2}, target |-> -1],
     search |-> [n |-> 2, roots |-> {0}, target |-> 1]]
=============================================================================
