-------------------------- MODULE RttRingProperties --------------------------
(* What reader and writer of a ring may rely on.                              *)
EXTENDS RttRing

(* The bytes that are visible to the reader, oldest first.                    *)
Used == Distance(RdOff, WrOff)
Contents == [k \in 1..Used |-> pBuffer[Advance(RdOff, k - 1)]]

(* What a reader has copied so far is the beginning of what is in the ring,   *)
(* and the offset it is about to publish skips exactly that, although the     *)
(* writer may have gone around the buffer since the reader took its offsets.  *)
ReadIsPrefix ==
  rpc # "idle" =>
    /\ Len(pData) <= Used
    /\ \A k \in 1..Len(pData) : pData[k] = Contents[k]
    /\ rRdOff = Advance(RdOff, Len(pData))

(* A byte that is visible and not yet read does not change: the copies of the *)
(* writer go to free cells only, however old its idea of RdOff is.            *)
UnreadUntouched ==
  [][\A k \in 1..Used : pBuffer'[Advance(RdOff, k - 1)] = Contents[k]]_vars

(* In skip mode a message becomes visible as a whole, so that a probe never   *)
(* shows part of one (SEGGER_RTT_WriteNoLock).                                *)
MessagesWhole ==
  [][Flags = "NO_BLOCK_SKIP" /\ wpc = "copied" /\ wpc' # wpc
       => chunk = asked /\ wpc' = "idle"]_vars

(* The ring is a queue of SizeOfBuffer - 1 bytes: every step of the writer    *)
(* and the reader puts bytes in at one end, takes some from the other, or     *)
(* changes nothing.  While MaxOverwrite is less than SizeOfBuffer.            *)
Queue == INSTANCE Fifo WITH Capacity <- SizeOfBuffer - 1, queue <- Contents
ImplementsFifo == Queue!FifoSpec

(* Without a probe, and with interrupts locked as long as a call lasts, a     *)
(* call returns unless the blocking mode was asked for.                       *)
NonBlockingReturns ==
  Flags # "BLOCK_IF_FIFO_FULL" /\ wpc # "idle" ~> wpc = "idle"

(* While a probe reads, every call returns.                                   *)
CallsReturn ==
  (\E size \in ReadSizes \ {0} : WF_vars(ReadBegin(size)))
    /\ WF_vars(ReadToEnd \/ ReadRest \/ ReadPublish)
  => (wpc # "idle" ~> wpc = "idle")

------------------------------------------------------------------------------
(* What comments say and the code does not do.                                *)

(* "Write all data, ... possibly handle multiple wrap-arounds"                *)
(* (SEGGER_RTT_WriteWithOverwriteNoLock): when more than the buffer holds was *)
(* written, it is full.                                                       *)
OverwriteFills ==
  [][wpc = "overwrite" /\ wpc' = "idle" /\ asked >= SizeOfBuffer
       => Distance(RdOff', WrOff') = SizeOfBuffer - 1]_vars

==============================================================================
