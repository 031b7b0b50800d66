----------------------------- MODULE FlowControl -----------------------------
(***************************************************************************)
(* Transmit flow control of one UmTRX TX DSP channel                       *)
(* (src/umtrx/host/io_impl.cpp).                                           *)
(*                                                                         *)
(* Host side, modelled from the code:                                      *)
(*   - flow_control_monitor: last_seq_out, last_seq_ack, the window        *)
(*     _max_seqs_out, clear(), get_curr_seq_out(), check_fc_condition(),   *)
(*     update_fc_condition();                                              *)
(*   - io_impl::get_send_buff, run by every application thread that sends  *)
(*     through a tx streamer bound to this channel (Senders);              *)
(*   - the acknowledgement branch of recv_pirate_loop;                     *)
(*   - the per-channel clear done by get_tx_stream when it (re)binds the   *)
(*     channel without the "noclear" argument.                             *)
(* Environment: the device, which buffers committed packets in its SRAM,   *)
(* consumes them and reports how many it consumed in flow-control update   *)
(* packets (every UpdatePackets packets and/or on a timer), and the UDP    *)
(* link that carries those updates, which keeps them in order (the UDP     *)
(* flow is ordered) but may lose any of them.                              *)
(*                                                                         *)
(* The update word is taken to be the device's count of consumed packets   *)
(* modulo 2^SeqBits: ready() starts with last_seq_out = last_seq_ack = 0   *)
(* and lets _max_seqs_out packets go before any update, so an update equal *)
(* to k releases the k packets consumed so far.                            *)
(***************************************************************************)
EXTENDS Naturals, Sequences, FiniteSets, SequencesExt

CONSTANTS
  Senders,      \* application threads sending on this channel
  SeqBits,      \* width of flow_control_monitor::seq_type (32 in the code)
  SramBytes,    \* UMTRX_SRAM_BYTES: the device's transmit buffer
  FrameSize,    \* the tx transport's get_send_frame_size()
  UpsPerFifo,   \* device argument "ups_per_fifo", as UpsPerFifo / UpsPerFifoDen
  UpsPerFifoDen, \* (0 disables count updates)
  UpsPerSec,    \* device argument "ups_per_sec" (0 disables timed updates)
  MaxInflight,  \* bound: update datagrams on the wire at once
  MaxSessions   \* bound: get_tx_stream calls binding this channel

ASSUME
  /\ Senders # {}
  /\ SeqBits \in Nat \ {0}
  /\ FrameSize \in Nat \ {0}
  /\ SramBytes \in Nat /\ SramBytes \div FrameSize >= 1
  /\ UpsPerFifo \in Nat /\ UpsPerFifoDen \in Nat \ {0} /\ UpsPerSec \in Nat
  /\ MaxInflight \in Nat \ {0}
  /\ MaxSessions \in Nat \ {0}

(* seq_type arithmetic: unsigned, modulo 2^SeqBits. *)
SeqSpace == 2^SeqBits
SeqDiff(a, b) == (a + SeqSpace - b) % SeqSpace

(* io_init: UMTRX_SRAM_BYTES / get_send_frame_size() sequences in flight. *)
MaxSeqsOut == SramBytes \div FrameSize

(* The device SRAM holds as many frames as the window allows. *)
SramPackets == SramBytes \div FrameSize

(* tx_dsp->set_updates arguments: packets between count updates,         *)
(* size_t(SRAM_BYTES / ups_per_fifo / send_frame_size) truncated (0 =   *)
(* off), and whether the periodic (cycle count) update is on.            *)
UpdatePackets ==
  IF UpsPerFifo > 0
    THEN (SramBytes * UpsPerFifoDen) \div (UpsPerFifo * FrameSize) ELSE 0
TimedUpdates == UpsPerSec > 0

VARIABLES
  last_seq_out,  \* flow_control_monitor::_last_seq_out
  last_seq_ack,  \* flow_control_monitor::_last_seq_ack
  pc,            \* program point of each sender thread
  seq,           \* value of _last_seq_out read by get_curr_seq_out
  sram,          \* device: sequence numbers of the buffered packets
  consumed,      \* device: packets consumed, modulo SeqSpace
  since_update,  \* device: packets consumed since the last count update
  inflight,      \* update words on the wire to the host, oldest first
  sessions       \* get_tx_stream calls so far

vars == <<last_seq_out, last_seq_ack, pc, seq, sram, consumed,
          since_update, inflight, sessions>>
monitor == <<last_seq_out, last_seq_ack>>
device == <<sram, consumed, since_update>>

PCs == {"idle", "wait", "woken", "xport", "read_seq", "write_seq", "commit",
        "clear_mon"}

TypeOK ==
  /\ last_seq_out \in 0..SeqSpace-1
  /\ last_seq_ack \in 0..SeqSpace-1
  /\ pc \in [Senders -> PCs]
  /\ seq \in [Senders -> 0..SeqSpace-1]
  /\ sram \in Seq(0..SeqSpace-1)
  /\ consumed \in 0..SeqSpace-1
  /\ since_update \in Nat
  /\ inflight \in Seq(0..SeqSpace-1)
  /\ sessions \in 1..MaxSessions

-----------------------------------------------------------------------------
(* Fault variant of ready(): the window compared with <=, one packet too *)
(* many allowed out.                                                     *)
ReadyInclusive == SeqDiff(last_seq_out, last_seq_ack) <= MaxSeqsOut

(* flow_control_monitor::ready *)
Ready == SeqDiff(last_seq_out, last_seq_ack) < MaxSeqsOut

Goto(s, p) == pc' = [pc EXCEPT ![s] = p]

(* get_send_buff enters check_fc_condition: under the mutex, return at   *)
(* once if ready, else block in timed_wait.                              *)
CheckFcCondition(s) ==
  /\ pc[s] = "idle"
  /\ Goto(s, IF Ready THEN "xport" ELSE "wait")
  /\ UNCHANGED <<monitor, seq, device, inflight, sessions>>

(* A thread woken by notify_one re-evaluates the predicate under the     *)
(* mutex and waits again if it is still false.                           *)
WakeRecheck(s) ==
  /\ pc[s] = "woken"
  /\ Goto(s, IF Ready THEN "xport" ELSE "wait")
  /\ UNCHANGED <<monitor, seq, device, inflight, sessions>>

(* The timed_wait deadline passes: it returns the predicate; false makes *)
(* get_send_buff return an empty buffer without taking a sequence.       *)
FcTimeout(s) ==
  /\ pc[s] \in {"wait", "woken"}
  /\ Goto(s, IF Ready THEN "xport" ELSE "idle")
  /\ UNCHANGED <<monitor, seq, device, inflight, sessions>>

(* tx_xports[chan]->get_send_buff(timeout): a buffer, or none on timeout. *)
GetXportBuff(s) ==
  /\ pc[s] = "xport"
  /\ \/ Goto(s, "read_seq")
     \/ Goto(s, "idle")
  /\ UNCHANGED <<monitor, seq, device, inflight, sessions>>

(* get_curr_seq_out: "return _last_seq_out++" outside the mutex, a read  *)
(* and a write that threads sharing the monitor may interleave.          *)
ReadSeqOut(s) ==
  /\ pc[s] = "read_seq"
  /\ seq' = [seq EXCEPT ![s] = last_seq_out]
  /\ Goto(s, "write_seq")
  /\ UNCHANGED <<monitor, device, inflight, sessions>>

(* Fault variant: the counter incremented without the seq_type wrap.    *)
WriteSeqOutUnwrapped(s) ==
  /\ pc[s] = "write_seq"
  /\ last_seq_out' = seq[s] + 1
  /\ Goto(s, "commit")
  /\ UNCHANGED <<last_seq_ack, seq, device, inflight, sessions>>

WriteSeqOut(s) ==
  /\ pc[s] = "write_seq"
  /\ last_seq_out' = (seq[s] + 1) % SeqSpace
  /\ Goto(s, "commit")
  /\ UNCHANGED <<last_seq_ack, seq, device, inflight, sessions>>

(* The streamer fills the buffer and commits it; the packet, carrying    *)
(* its flow-control word, lands in the device SRAM.                      *)
CommitBuff(s) ==
  /\ pc[s] = "commit"
  /\ sram' = Append(sram, seq[s])
  /\ Goto(s, "idle")
  /\ UNCHANGED <<monitor, seq, consumed, since_update, inflight, sessions>>

(* get_tx_stream binds this channel again without "noclear": first       *)
(* tx_dsps[dsp]->clear() resets the device's transmit state ...           *)
ClearTxDsp(s) ==
  /\ pc[s] = "idle"
  /\ sessions < MaxSessions
  /\ sessions' = sessions + 1
  /\ sram' = << >>
  /\ consumed' = 0
  /\ since_update' = 0
  /\ Goto(s, "clear_mon")
  /\ UNCHANGED <<monitor, seq, inflight>>

(* ... then fc_mons[abs+dsp]->clear() zeroes both counters, without the  *)
(* monitor's mutex.                                                      *)
ClearMonitor(s) ==
  /\ pc[s] = "clear_mon"
  /\ last_seq_out' = 0
  /\ last_seq_ack' = 0
  /\ Goto(s, "idle")
  /\ UNCHANGED <<seq, device, inflight, sessions>>

(* Fault variant: the update frame is consumed and the waiter notified,  *)
(* but the flow-control word is never stored.                            *)
UpdateFcConditionDropsAck(v) ==
  /\ inflight # << >>
  /\ v = Head(inflight)
  /\ inflight' = Tail(inflight)
  /\ IF \E w \in Senders : pc[w] = "wait"
       THEN \E w \in {x \in Senders : pc[x] = "wait"} : Goto(w, "woken")
       ELSE UNCHANGED pc
  /\ UNCHANGED <<monitor, seq, device, sessions>>

(* recv_pirate_loop receives a tx async report with event code 0 and    *)
(* calls update_fc_condition with its flow-control word: the ack is set  *)
(* under the mutex, then notify_one wakes one waiting sender.            *)
UpdateFcCondition(v) ==
  /\ inflight # << >>
  /\ v = Head(inflight)
  /\ inflight' = Tail(inflight)
  /\ last_seq_ack' = v
  /\ IF \E w \in Senders : pc[w] = "wait"
       THEN \E w \in {x \in Senders : pc[x] = "wait"} : Goto(w, "woken")
       ELSE UNCHANGED pc
  /\ UNCHANGED <<last_seq_out, seq, device, sessions>>

-----------------------------------------------------------------------------
(* Environment: the device and the link. *)

SendUpdate(v) ==
  IF Len(inflight) < MaxInflight THEN Append(inflight, v) ELSE inflight

(* The device plays out one packet; every UpdatePackets packets it sends *)
(* a flow-control update.                                                *)
DeviceConsume ==
  /\ sram # << >>
  /\ sram' = Tail(sram)
  /\ consumed' = (consumed + 1) % SeqSpace
  /\ IF UpdatePackets > 0 /\ since_update + 1 = UpdatePackets
       THEN /\ since_update' = 0
            /\ inflight' = SendUpdate(consumed')
       ELSE /\ since_update' = IF UpdatePackets > 0 THEN since_update + 1
                                                  ELSE 0
            /\ UNCHANGED inflight
  /\ UNCHANGED <<monitor, pc, seq, sessions>>

(* The periodic update, ups_per_sec times a second. *)
DeviceTimedUpdate ==
  /\ TimedUpdates
  /\ IF inflight = << >> THEN TRUE ELSE Last(inflight) # consumed
  /\ Len(inflight) < MaxInflight
  /\ inflight' = Append(inflight, consumed)
  /\ UNCHANGED <<monitor, pc, seq, device, sessions>>

(* UDP drops an update datagram. *)
LoseUpdate ==
  /\ \E i \in 1..Len(inflight) : inflight' = RemoveAt(inflight, i)
  /\ UNCHANGED <<monitor, pc, seq, device, sessions>>

-----------------------------------------------------------------------------
Init ==
  /\ last_seq_out = 0
  /\ last_seq_ack = 0
  /\ pc = [s \in Senders |-> "idle"]
  /\ seq = [s \in Senders |-> 0]
  /\ sram = << >>
  /\ consumed = 0
  /\ since_update = 0
  /\ inflight = << >>
  /\ sessions = 1

SenderStep(s) ==
  \/ CheckFcCondition(s)
  \/ WakeRecheck(s)
  \/ FcTimeout(s)
  \/ GetXportBuff(s)
  \/ ReadSeqOut(s)
  \/ WriteSeqOut(s)
  \/ CommitBuff(s)
  \/ ClearTxDsp(s)
  \/ ClearMonitor(s)

PirateStep == \E v \in 0..SeqSpace-1 : UpdateFcCondition(v)

Next ==
  \/ \E s \in Senders : SenderStep(s)
  \/ PirateStep
  \/ DeviceConsume
  \/ DeviceTimedUpdate
  \/ LoseUpdate

(* A thread inside get_send_buff or get_tx_stream is scheduled until the *)
(* call returns; whether the application starts a send or a new stream  *)
(* is its own choice and gets no fairness.                               *)
InCall(s) ==
  \/ WakeRecheck(s) \/ FcTimeout(s) \/ GetXportBuff(s)
  \/ ReadSeqOut(s) \/ WriteSeqOut(s) \/ CommitBuff(s) \/ ClearMonitor(s)

(* The device drains its SRAM and its timer keeps firing; the pirate     *)
(* thread blocks in get_recv_buff and is scheduled whenever a datagram   *)
(* arrives; the link loses datagrams but not every one forever, hence    *)
(* strong fairness on delivery.                                          *)
Fairness ==
  /\ \A s \in Senders : WF_vars(InCall(s))
  /\ WF_vars(DeviceConsume)
  /\ WF_vars(DeviceTimedUpdate)
  /\ SF_vars(PirateStep)

Spec == Init /\ [][Next]_vars /\ Fairness

-----------------------------------------------------------------------------
(* The device SRAM never holds more packets than it has room for: the    *)
(* window check in check_fc_condition, the modular subtraction in ready()*)
(* and the acknowledgements from the pirate thread together keep the     *)
(* host from committing a packet the device cannot buffer (the comment   *)
(* on send_buff_size: "we will never commit more than the SRAM can       *)
(* hold").                                                               *)
NoSramOverrun == Len(sram) <= SramPackets

(* A sender blocked because the window is full is eventually released:   *)
(* the device's updates, delivered by the pirate thread through          *)
(* update_fc_condition, reopen the window even when some are lost.       *)
WindowReopens == ~Ready ~> Ready
=============================================================================
