--------------------------- MODULE AsyncDispatch ---------------------------
(***************************************************************************)
(* What a command thread promises to the code that posts to it, without    *)
(* its queue, its semaphore or its locks: while it is open it accepts      *)
(* commands 1, 2, 3, ...; it dispatches them one at a time in the order in *)
(* which it accepted them; and it closes only once every accepted command  *)
(* has been dispatched.  The camera stack relies on the last clause when   *)
(* mm_camera_cmd_thread_release() is followed by a memset of the object    *)
(* that the callback works on.                                             *)
(***************************************************************************)
EXTENDS Naturals

CONSTANT MaxCmds        \* bound on the commands accepted in one session, a number

VARIABLES
    open,               \* the thread accepts commands
    accepted,           \* commands accepted so far in this session
    dispatched          \* commands whose callback has been called

vars == <<open, accepted, dispatched>>

Init == open = FALSE /\ accepted = 0 /\ dispatched = 0

\* A new session starts with nothing accepted.
Open == ~open /\ open' = TRUE /\ accepted' = 0 /\ dispatched' = 0

Accept == /\ open
          /\ accepted < MaxCmds
          /\ accepted' = accepted + 1
          /\ UNCHANGED <<open, dispatched>>

\* The callback is called for the oldest command not yet dispatched.
Dispatch == /\ open
            /\ dispatched < accepted
            /\ dispatched' = dispatched + 1
            /\ UNCHANGED <<open, accepted>>

Close == /\ open
         /\ dispatched = accepted
         /\ open' = FALSE
         /\ UNCHANGED <<accepted, dispatched>>

Next == Open \/ Accept \/ Dispatch \/ Close

Spec == Init /\ [][Next]_vars

=============================================================================
