------------------------------ MODULE JsonlStream ------------------------------
(***************************************************************************)
(* The JSONL writer on its own: a client sends any records, then closes    *)
(* the channel; the disk may fail and the writer may panic at any point.   *)
(***************************************************************************)
EXTENDS JsonlWriter

CONSTANTS
    InitialFiles,   \* files a run may open: left by earlier runs, accepted by resume_scan
    MaxSends        \* bound: records the client sends

ASSUME InitialFilesAssumption ==
    InitialFiles \subseteq {f \in File : f.tail = "ok" /\ ~f.fused}
ASSUME MaxSendsAssumption == MaxSends \in Nat

StreamInit ==
    /\ tx = TRUE /\ chan = <<>> /\ writer = "recv"
    /\ line = <<>> /\ buf = <<>> /\ poisoned = FALSE /\ ioErrors = 0
    /\ disk \in InitialFiles /\ opened = disk.recs
    /\ sent = <<>>

ClientSends == \E r \in Record : Len(sent) < MaxSends /\ Send(r)

(* The stream has ended; nothing more happens. *)
StreamEnded == ~tx /\ ~Receiving /\ UNCHANGED writerVars

StreamNext ==
    \/ ClientSends
    \/ SendClosed
    \/ DropTx
    \/ WriterStep
    \/ WriterFault
    \/ StreamEnded

StreamSpec == StreamInit /\ [][StreamNext]_writerVars

(* A blocking thread of the runtime runs the writer until it returns; the  *)
(* main task drops its sender once every scan is joined.                   *)
StreamFairSpec == StreamSpec /\ WF_writerVars(WriterStep) /\ WF_writerVars(DropTx)

-------------------------------------------------------------------------------
(* A writer of this closed system has started; no process ends under it. *)
StreamTypeOK == WriterTypeOK /\ writer # "off"

(* Once the senders are gone the writer task comes to an end. *)
WriterEnds == ~tx ~> ~Receiving

===============================================================================
