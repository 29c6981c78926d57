---------------------------- MODULE BlockDevice -----------------------------
(***************************************************************************)
(* What the buffer cache promises to the application that calls os_read    *)
(* and os_write: a device of blocks where a read returns what was written  *)
(* last, however the bytes travel between buffers and disk.                *)
(***************************************************************************)
CONSTANTS Block, Data, NoRequest, NoReply

VARIABLES
    store,        \* what the application finds in each block
    request,      \* the call that is being served
    reply         \* what the last read returned

vars == <<store, request, reply>>

Request == [op: {"read"}, block: Block]
             \union [op: {"write"}, block: Block, data: Data]

Init ==
    /\ store \in [Block -> Data]
    /\ request = NoRequest
    /\ reply = NoReply

Submit ==
    /\ request = NoRequest
    /\ request' \in Request
    /\ UNCHANGED <<store, reply>>

Write ==
    /\ request # NoRequest
    /\ request.op = "write"
    /\ store' = [store EXCEPT ![request.block] = request.data]
    /\ request' = NoRequest
    /\ UNCHANGED reply

Read ==
    /\ request # NoRequest
    /\ request.op = "read"
    /\ reply' = [block |-> request.block, data |-> store[request.block]]
    /\ request' = NoRequest
    /\ UNCHANGED store

Next == Submit \/ Write \/ Read

Spec == Init /\ [][Next]_vars
=============================================================================
