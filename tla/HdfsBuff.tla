------------------------------ MODULE HdfsBuff ------------------------------
(***************************************************************************)
(* The memory of the buffer a reply of HDFS is received into: HdfsBuffer   *)
(* has a calculate_mem of its own, and AEvHdfs::_receiv_respond releases   *)
(* and accepts in turn.                                                    *)
(***************************************************************************)
EXTENDS Buff

CONSTANTS
    Chunk,    \* what _receiv_respond releases
    MaxReply  \* bound: the bytes of a reply

VARIABLE rbuffer

Init == rbuffer = Release(NewMem, Chunk)

\* _receiv_respond: a read has brought n bytes, and the next one is started.
ReceivRespond ==
    \E n \in 1..Avail(rbuffer) :
        /\ rbuffer.top + n <= MaxReply
        /\ ~Overflows(rbuffer)
        /\ rbuffer' = Release(Accept(rbuffer, n), Chunk)

Spec == Init /\ [][ReceivRespond]_rbuffer

-----------------------------------------------------------------------------
\* What the comment on release() says: it allocates as much free space as it
\* is asked for, so that what async_read_some may fill is allocated.
ReleaseAllocates == rbuffer.size <= rbuffer.reserved

=============================================================================
