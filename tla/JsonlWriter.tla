------------------------------ MODULE JsonlWriter ------------------------------
(***************************************************************************)
(* The JSONL stream of a fleet audit: the bounded mpsc channel the main    *)
(* task sends reports into, the blocking writer task that drains it        *)
(* through a BufWriter, and the output file.                               *)
(*                                                                         *)
(* The file is the sequence of its complete records and the state of its   *)
(* last line: "ok" (newline-terminated or empty), "torn" (a prefix of a    *)
(* record) or "bare" (a whole record without its newline).  `fused` is set *)
(* when bytes of a record land behind an unterminated line.                *)
(***************************************************************************)
EXTENDS ExitContract, Sequences

CONSTANTS
    Address,        \* input addresses of hosts, as typed on the command line
    Reports,        \* the reports a scan may return
    ChannelCap      \* capacity of the mpsc channel (256 in the code)

ASSUME ReportsAssumption == Reports \subseteq Report
ASSUME ChannelCapAssumption == ChannelCap \in Nat \ {0}

(* One line of the file: an AgentReport with its input_address. *)
Record == [host : Address, report : Reports]

Tail_ == {"ok", "torn", "bare"}
File == [recs : Seq(Record), tail : Tail_, fused : BOOLEAN]
EmptyFile == [recs |-> <<>>, tail |-> "ok", fused |-> FALSE]

VARIABLES
    tx,         \* is the sender half of the channel alive?
    chan,       \* records in the channel
    writer,     \* "off", "recv", "write", "done" or "panicked"
    line,       \* the record the writer holds: <<>> or <<r>>
    buf,        \* records in the BufWriter, not handed to the kernel yet
    poisoned,   \* a write has failed: drain, never append again
    ioErrors,   \* io_errors of the writer task
    disk,       \* the output file
    opened,     \* history: the records of the file when it was opened
    sent        \* history: the records the channel accepted in this run

writerVars == <<tx, chan, writer, line, buf, poisoned, ioErrors, disk, opened, sent>>

Receiving == writer \in {"recv", "write"}

(* Bytes of the records in s follow whatever the file ends with. *)
AppendTo(d, s) ==
    IF s = <<>> THEN d
    ELSE [recs |-> d.recs \o s, tail |-> "ok", fused |-> d.fused \/ d.tail # "ok"]

(* Where a write of s may stop: after n whole records, inside the next one, *)
(* or just before a newline.                                               *)
Cuts(s) == {c \in [n : 0 .. Len(s), tail : Tail_] :
              /\ c.n = 0 => c.tail # "bare"
              /\ c.n = Len(s) => c.tail = "bare"}

PartialWrite(d, s, c) ==
    [recs  |-> d.recs \o SubSeq(s, 1, c.n),
     tail  |-> c.tail,
     fused |-> d.fused \/ (d.tail # "ok" /\ (c.n > 0 \/ c.tail # "ok"))]

Rest(s, c) == SubSeq(s, c.n + 1, Len(s))

(* BufWriter::drop retries what a failed flush left behind; these bytes   *)
(* continue the torn record, they do not start a new one.                 *)
AfterDrop(d, s) ==
    {d} \cup (IF s = <<>> THEN {}
              ELSE {[recs |-> d.recs \o s, tail |-> "ok", fused |-> d.fused]})

(* What an abrupt end of the process may leave of a write in progress. *)
CrashFiles == {disk} \cup (IF Receiving /\ ~poisoned /\ buf \o line # <<>>
                           THEN {PartialWrite(disk, buf \o line, c) : c \in Cuts(buf \o line)}
                           ELSE {})

(* The process exits or is killed: a writer that still runs ends with it. *)
ProcessEnds ==
    /\ disk' \in CrashFiles
    /\ writer' = IF Receiving THEN "off" ELSE writer
    /\ line' = <<>>
    /\ UNCHANGED <<tx, chan, buf, poisoned, ioErrors, opened, sent>>

-------------------------------------------------------------------------------
(* The main task's side. *)

(* tx.send(report).await completes: there is room and the receiver lives. *)
Send(r) ==
    /\ tx /\ Receiving
    /\ Len(chan) < ChannelCap
    /\ chan' = Append(chan, r)
    /\ sent' = Append(sent, r)
    /\ UNCHANGED <<tx, writer, line, buf, poisoned, ioErrors, disk, opened>>

(* tx.send(report).await returns Err: the receiver was dropped. *)
SendClosed ==
    /\ tx /\ writer = "panicked"
    /\ UNCHANGED writerVars

DropTx ==
    /\ tx
    /\ tx' = FALSE
    /\ UNCHANGED <<chan, writer, line, buf, poisoned, ioErrors, disk, opened, sent>>

-------------------------------------------------------------------------------
(* The writer task. *)

(* blocking_recv returns a report and the output is healthy. *)
WriterRecv ==
    /\ writer = "recv" /\ ~poisoned /\ chan # <<>>
    /\ writer' = "write"
    /\ line' = <<Head(chan)>>
    /\ chan' = Tail(chan)
    /\ UNCHANGED <<tx, buf, poisoned, ioErrors, disk, opened, sent>>

(* Mutant: a poisoned writer stops draining and keeps the receiver. *)
WriterDiscard_stuck == FALSE /\ UNCHANGED writerVars

(* A poisoned writer keeps draining and counts the record as lost. *)
WriterDiscard ==
    /\ writer = "recv" /\ poisoned /\ chan # <<>>
    /\ chan' = Tail(chan)
    /\ ioErrors' = ioErrors + 1
    /\ UNCHANGED <<tx, writer, line, buf, poisoned, disk, opened, sent>>

(* serde_json::to_writer fails before the file is touched. *)
SerializeFails ==
    /\ writer = "write"
    /\ writer' = "recv"
    /\ line' = <<>>
    /\ ioErrors' = ioErrors + 1
    /\ UNCHANGED <<tx, chan, buf, poisoned, disk, opened, sent>>

(***************************************************************************)
(* BufWriter::write_all succeeds: the line fits in the buffer (nothing     *)
(* reaches the file), or the buffer is flushed and then takes the line, or *)
(* the line is larger than the buffer and goes straight to the file.       *)
(***************************************************************************)
WriteOk ==
    /\ writer = "write"
    /\ \E k \in {0, Len(buf), Len(buf) + 1} :
          /\ disk' = AppendTo(disk, SubSeq(buf \o line, 1, k))
          /\ buf' = SubSeq(buf \o line, k + 1, Len(buf) + 1)
    /\ writer' = "recv"
    /\ line' = <<>>
    /\ UNCHANGED <<tx, chan, poisoned, ioErrors, opened, sent>>

(* Mutant: the writer keeps appending after a failed write. *)
WriteFails_unpoisoned ==
    /\ writer = "write"
    /\ \E c \in Cuts(line) : disk' = PartialWrite(AppendTo(disk, buf), line, c)
    /\ buf' = <<>>
    /\ writer' = "recv"
    /\ line' = <<>>
    /\ ioErrors' = ioErrors + 1
    /\ UNCHANGED <<tx, chan, poisoned, opened, sent>>

(***************************************************************************)
(* write_all fails.  Either the flush of the buffer stopped (some of it    *)
(* stays behind) or the direct write of the line did (the buffer was       *)
(* written before it).  The line is lost in both cases.                    *)
(***************************************************************************)
WriteFails ==
    /\ writer = "write"
    /\ \/ \E c \in Cuts(buf) :
             /\ disk' = PartialWrite(disk, buf, c)
             /\ buf' = Rest(buf, c)
       \/ \E c \in Cuts(line) :
             /\ disk' = PartialWrite(AppendTo(disk, buf), line, c)
             /\ buf' = <<>>
    /\ writer' = "recv"
    /\ line' = <<>>
    /\ ioErrors' = ioErrors + 1
    /\ poisoned' = TRUE
    /\ UNCHANGED <<tx, chan, opened, sent>>

(* The channel is closed and drained: the last flush, then the file drops. *)
FlushOk ==
    /\ writer = "recv" /\ ~tx /\ chan = <<>> /\ ~poisoned
    /\ disk' = AppendTo(disk, buf)
    /\ buf' = <<>>
    /\ writer' = "done"
    /\ UNCHANGED <<tx, chan, line, poisoned, ioErrors, opened, sent>>

(* Mutant: the result of the last flush is ignored. *)
FlushFails_ignored ==
    /\ writer = "recv" /\ ~tx /\ chan = <<>> /\ ~poisoned
    /\ \E c \in Cuts(buf) : disk' = PartialWrite(disk, buf, c)
    /\ buf' = <<>>
    /\ writer' = "done"
    /\ UNCHANGED <<tx, chan, line, poisoned, ioErrors, opened, sent>>

FlushFails ==
    /\ writer = "recv" /\ ~tx /\ chan = <<>> /\ ~poisoned
    /\ \E c \in Cuts(buf) : disk' \in AfterDrop(PartialWrite(disk, buf, c), Rest(buf, c))
    /\ buf' = <<>>
    /\ ioErrors' = ioErrors + 1
    /\ writer' = "done"
    /\ UNCHANGED <<tx, chan, line, poisoned, opened, sent>>

(* A poisoned writer skips the flush; dropping the BufWriter still tries. *)
EndPoisoned ==
    /\ writer = "recv" /\ ~tx /\ chan = <<>> /\ poisoned
    /\ disk' \in AfterDrop(disk, buf)
    /\ buf' = <<>>
    /\ writer' = "done"
    /\ UNCHANGED <<tx, chan, line, poisoned, ioErrors, opened, sent>>

(* The task panics: the receiver is dropped with everything queued in it. *)
WriterPanics ==
    /\ Receiving
    /\ writer' = "panicked"
    /\ chan' = <<>> /\ line' = <<>> /\ buf' = <<>>
    /\ disk' \in AfterDrop(disk, buf)
    /\ UNCHANGED <<tx, poisoned, ioErrors, opened, sent>>

WriterStep == WriterRecv \/ WriterDiscard \/ WriteOk \/ FlushOk \/ EndPoisoned

WriterFault == SerializeFails \/ WriteFails \/ FlushFails \/ WriterPanics

-------------------------------------------------------------------------------
(* Properties. *)

WriterTypeOK ==
    /\ tx \in BOOLEAN
    /\ chan \in Seq(Record) /\ Len(chan) <= ChannelCap
    /\ writer \in {"off", "recv", "write", "done", "panicked"}
    /\ line \in Seq(Record) /\ Len(line) = (IF writer = "write" THEN 1 ELSE 0)
    /\ buf \in Seq(Record)
    /\ poisoned \in BOOLEAN
    /\ ioErrors \in Nat
    /\ disk \in File
    /\ opened \in Seq(Record)
    /\ sent \in Seq(Record)

(***************************************************************************)
(* A writer that returns without an error has put every record the channel *)
(* accepted into the file, in the order sent, behind what the file held    *)
(* when it was opened, and has terminated the last line: only then may     *)
(* main.rs count no record lost.                                           *)
(***************************************************************************)
DeliveredOrCounted ==
    writer = "done" /\ ioErrors = 0 =>
        disk.recs = opened \o sent /\ disk.tail = "ok"

(***************************************************************************)
(* No two records ever share a line, whatever write failed in between: the *)
(* poisoned flag keeps the writer from appending behind a torn record.     *)
(***************************************************************************)
NeverFused == ~disk.fused
===============================================================================
