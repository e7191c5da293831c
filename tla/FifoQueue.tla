------------------------------ MODULE FifoQueue ------------------------------
(***************************************************************************)
(* What the mailbox of a service promises to the rest of skynet: messages  *)
(* leave in the order they came in, none is lost or invented, a length is  *)
(* the number of messages waiting, and the mailbox is scheduled (it is in  *)
(* the global queue or owned by a worker) from the first push on until a   *)
(* pop has found it empty.                                                 *)
(***************************************************************************)
EXTENDS Naturals, Sequences

CONSTANTS Msg,      \* the messages
          NoMsg     \* the answer of a pop that finds nothing

VARIABLES msgs,     \* the messages waiting, oldest first
          got,      \* what the last pop returned
          len,      \* what the last length query returned
          busy      \* the mailbox is scheduled

vars == <<msgs, got, len, busy>>

Init == msgs = <<>> /\ got = NoMsg /\ len = 0 /\ busy = TRUE

Push(m) == /\ msgs' = Append(msgs, m)
           /\ busy' = TRUE
           /\ UNCHANGED <<got, len>>

PopMessage == /\ msgs # <<>>
              /\ got' = Head(msgs)
              /\ msgs' = Tail(msgs)
              /\ UNCHANGED <<len, busy>>

PopEmpty == /\ msgs = <<>>
            /\ got' = NoMsg
            /\ busy' = FALSE
            /\ UNCHANGED <<msgs, len>>

Length == len' = Len(msgs) /\ UNCHANGED <<msgs, got, busy>>

Next == (\E m \in Msg : Push(m)) \/ PopMessage \/ PopEmpty \/ Length

Spec == Init /\ [][Next]_vars
=============================================================================
