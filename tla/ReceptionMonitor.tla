-------------------------- MODULE ReceptionMonitor --------------------------
(***************************************************************************)
(* The receive "pirate" tasks of src/umtrx/host/io_impl.cpp and the        *)
(* lifecycle of the io_impl that owns them:                                *)
(*   - io_init makes the io_impl, pushes each board's two transports and   *)
(*     flow-control monitors, then spawns one recv_pirate_loop per TX      *)
(*     transport (two per board), index by index;                          *)
(*   - each loop blocks in get_recv_buff (timeout 0.1 s), decodes the      *)
(*     frame, hands a flow-control update (event code 0) to its monitor,   *)
(*     pushes any other TX async report into async_msg_fifo with           *)
(*     push_with_pop_on_full, drops other packets and logs decode errors;  *)
(*   - the application pops reports with recv_async_msg and sets the tick *)
(*     rate the loops use for report timestamps (update_tick_rate);        *)
(*   - ~io_impl clears pirate_tasks (each task is interrupted and joined   *)
(*     in turn) before the transports and monitors are released.          *)
(* The device is the environment: it sends frames to each transport.       *)
(***************************************************************************)
EXTENDS Naturals, Sequences, SequencesExt

CONSTANTS
  NumBoards,   \* motherboards in _mbc
  Capacity,    \* async_msg_fifo depth (100 in the code)
  MaxFrames,   \* bound: frames the device sends to one transport
  TickRates,   \* values update_tick_rate may be called with
  NoRate       \* io_impl::tick_rate before any update_tick_rate

ASSUME
  /\ NumBoards \in Nat \ {0}
  /\ MaxFrames \in Nat
  /\ NoRate \notin TickRates

Fifo == INSTANCE AsyncMsgFifo

(* io_init: two TX transports, monitors and pirates per board. *)
Pirates == 0..(2 * NumBoards - 1)

(* What the device may put on a transport: a flow-control update (a TX    *)
(* async report with event code 0), another TX async report (underflow,   *)
(* sequence error, time error...), with or without a timestamp, and a    *)
(* frame the loop discards: a packet with another SID or of data type    *)
(* (dropped) or one that fails to decode (logged); both leave every      *)
(* variable as it was, so one kind stands for them.                      *)
FrameKinds == {"update", "report", "discarded"}

(* Only a report's timestamp flag is read (by MetadataOf). *)
TimedFlags(k) == IF k = "report" THEN BOOLEAN ELSE {FALSE}
Frame == [kind : FrameKinds, n : 1..MaxFrames, timed : BOOLEAN]

(* async_metadata_t as the loop fills it in. *)
Event == [ch : Pirates, n : 1..MaxFrames, timed : BOOLEAN,
          rate : TickRates \cup {NoRate}]

VARIABLES
  io_state,     \* "none", "init" (in io_init), "running", "stopping"
                \* (in ~io_impl), "released"
  mons,         \* io_impl::fc_mons.size() (0 once the members are released)
  pc,           \* per pirate: "off", "head" (loop test), "recv", "done"
  interrupted,  \* pirates whose task has been interrupted
  cleared,      \* tasks pirate_tasks.clear() has destroyed so far
  tick_rate,    \* io_impl::tick_rate
  last_ack,     \* per pirate: the last word given to its fc_mons[index]
  fifo,         \* async_msg_fifo
  wire,         \* per transport: frames the device sent, not yet received
  sent,         \* per transport: frames the device has sent
  pushed,       \* history: every event pushed into the fifo, in order
  delivered     \* history: every event recv_async_msg returned, in order

vars == <<io_state, mons, pc, interrupted, cleared, tick_rate, last_ack, fifo,
          wire, sent, pushed, delivered>>
tasks == <<io_state, mons, pc, interrupted, cleared>>
queue == <<fifo, pushed, delivered>>

TypeOK ==
  /\ io_state \in {"none", "init", "running", "stopping", "released"}
  /\ mons \in 0..Cardinality(Pirates)
  /\ pc \in [Pirates -> {"off", "head", "recv", "done"}]
  /\ interrupted \subseteq Pirates
  /\ cleared \in 0..Cardinality(Pirates)
  /\ tick_rate \in TickRates \cup {NoRate}
  /\ last_ack \in [Pirates -> 0..MaxFrames]
  /\ fifo \in Seq(Event) /\ Len(fifo) <= Capacity
  /\ wire \in [Pirates -> Seq(Frame)]
  /\ sent \in [Pirates -> 0..MaxFrames]
  /\ pushed \in Seq(Event)
  /\ delivered \in Seq(Event)

-----------------------------------------------------------------------------
(* io_init: _io_impl = UHD_PIMPL_MAKE(io_impl, ()). *)
MakeIoImpl ==
  /\ io_state = "none"
  /\ io_state' = "init"
  /\ UNCHANGED <<mons, pc, interrupted, cleared, tick_rate, last_ack, queue,
                 wire, sent>>

(* The first loop of io_init, one board: its two TX transports and two   *)
(* monitors are pushed back ("init first so we dont have an access       *)
(* race"); each monitor is constructed cleared.                          *)
InitBoardMonitors ==
  /\ io_state = "init"
  /\ mons < Cardinality(Pirates)
  /\ mons' = mons + 2
  /\ UNCHANGED <<io_state, pc, interrupted, cleared, tick_rate, last_ack,
                 queue, wire, sent>>

(* The number of tasks pushed onto pirate_tasks so far: the next index. *)
Spawned == Cardinality({i \in Pirates : pc[i] # "off"})

(* Fault variant: a pirate is spawned without waiting for the monitor    *)
(* loop, as when both are done in one loop over the boards.              *)
SpawnPirateEager ==
  /\ io_state = "init"
  /\ Spawned < Cardinality(Pirates)
  /\ pc' = [pc EXCEPT ![Spawned] = "head"]
  /\ io_state' = IF Spawned + 1 = Cardinality(Pirates) THEN "running" ELSE "init"
  /\ UNCHANGED <<mons, interrupted, cleared, tick_rate, last_ack, queue,
                 wire, sent>>

(* The last loop of io_init: task::make starts recv_pirate_loop on the  *)
(* next transport with index++; io_init returns after the last one.      *)
SpawnPirate ==
  /\ io_state = "init"
  /\ mons = Cardinality(Pirates)
  /\ Spawned < Cardinality(Pirates)
  /\ pc' = [pc EXCEPT ![Spawned] = "head"]
  /\ io_state' = IF Spawned + 1 = Cardinality(Pirates) THEN "running" ELSE "init"
  /\ UNCHANGED <<mons, interrupted, cleared, tick_rate, last_ack, queue,
                 wire, sent>>

IoInit == MakeIoImpl \/ InitBoardMonitors \/ SpawnPirate

(* update_tick_rate: the shadow copy the pirates read, written without   *)
(* any lock.                                                             *)
UpdateTickRate(r) ==
  /\ io_state = "running"
  /\ tick_rate' = r
  /\ UNCHANGED <<tasks, last_ack, queue, wire, sent>>

(* while (not interruption_requested()) *)
LoopTest(i) ==
  /\ pc[i] = "head"
  /\ pc' = [pc EXCEPT ![i] = IF i \in interrupted THEN "done" ELSE "recv"]
  /\ UNCHANGED <<io_state, mons, interrupted, cleared, tick_rate, last_ack,
                 queue, wire, sent>>

(* Fault variant: after a timeout the loop receives again without        *)
(* testing for interruption.                                             *)
RecvTimeoutRetry(i) ==
  /\ pc[i] = "recv"
  /\ wire[i] = << >>
  /\ UNCHANGED vars

(* get_recv_buff times out and returns a null buffer: "continue". *)
RecvTimeout(i) ==
  /\ pc[i] = "recv"
  /\ wire[i] = << >>
  /\ pc' = [pc EXCEPT ![i] = "head"]
  /\ UNCHANGED <<io_state, mons, interrupted, cleared, tick_rate, last_ack,
                 queue, wire, sent>>

(* The async_metadata_t built from a TX async report on transport i. *)
MetadataOf(i, f) == [ch |-> i, n |-> f.n, timed |-> f.timed, rate |-> tick_rate]

(* One pass of the loop body on a received frame.  A TX async report     *)
(* with event code 0 updates this loop's monitor and "continue"s; any    *)
(* other report is pushed with pop on full; a packet of another SID or   *)
(* type is dropped; a decode exception is caught and logged.             *)
RecvFrame(i) ==
  /\ pc[i] = "recv"
  /\ wire[i] # << >>
  /\ LET f == Head(wire[i]) IN
       /\ CASE f.kind = "update" ->
                 /\ last_ack' = [last_ack EXCEPT ![i] = f.n]
                 /\ UNCHANGED queue
            [] f.kind = "report" ->
                 /\ fifo' = Fifo!PushWithPopOnFull(fifo, MetadataOf(i, f))
                 /\ pushed' = Append(pushed, MetadataOf(i, f))
                 /\ UNCHANGED <<last_ack, delivered>>
            [] OTHER -> UNCHANGED <<last_ack, queue>>
  /\ wire' = [wire EXCEPT ![i] = Tail(@)]
  /\ pc' = [pc EXCEPT ![i] = "head"]
  /\ UNCHANGED <<io_state, mons, interrupted, cleared, tick_rate, sent>>

(* recv_async_msg: pop_with_timed_wait returns the oldest report. *)
RecvAsyncMsg ==
  /\ io_state = "running"
  /\ fifo # << >>
  /\ delivered' = Append(delivered, Head(fifo))
  /\ fifo' = Fifo!PopOldest(fifo)
  /\ UNCHANGED <<tasks, tick_rate, last_ack, pushed, wire, sent>>

(* The io_impl is destroyed: ~io_impl starts pirate_tasks.clear(). *)
BeginDestroy ==
  /\ io_state = "running"
  /\ io_state' = "stopping"
  /\ UNCHANGED <<mons, pc, interrupted, cleared, tick_rate, last_ack, queue,
                 wire, sent>>

(* Destroying the next task of the list interrupts its thread ... *)
InterruptTask ==
  /\ io_state = "stopping"
  /\ cleared < Cardinality(Pirates)
  /\ cleared \notin interrupted
  /\ interrupted' = interrupted \cup {cleared}
  /\ UNCHANGED <<io_state, mons, pc, cleared, tick_rate, last_ack, queue, wire, sent>>

(* ... and joins it before the next one. *)
JoinTask ==
  /\ io_state = "stopping"
  /\ cleared \in interrupted
  /\ pc[cleared] = "done"
  /\ cleared' = cleared + 1
  /\ UNCHANGED <<io_state, mons, pc, interrupted, tick_rate, last_ack, queue,
                 wire, sent>>

(* Fault variant: the members are destroyed without joining the tasks,  *)
(* as happens when pirate_tasks is left to the implicit member           *)
(* destruction.                                                          *)
ReleaseMembersBeforeJoin ==
  /\ io_state = "stopping"
  /\ io_state' = "released"
  /\ mons' = 0
  /\ UNCHANGED <<pc, interrupted, cleared, tick_rate, last_ack, queue,
                 wire, sent>>

(* The destructor body has returned: the members (fifo, monitors,        *)
(* transports) are destroyed.                                            *)
ReleaseMembers ==
  /\ io_state = "stopping"
  /\ cleared = Cardinality(Pirates)
  /\ io_state' = "released"
  /\ mons' = 0
  /\ UNCHANGED <<pc, interrupted, cleared, tick_rate, last_ack, queue,
                 wire, sent>>

(* Environment: the device sends a frame to transport i. *)
DeviceSend(i, k, t) ==
  /\ sent[i] < MaxFrames
  /\ sent' = [sent EXCEPT ![i] = @ + 1]
  /\ wire' = [wire EXCEPT ![i] = Append(@, [kind |-> k, n |-> sent'[i], timed |-> t])]
  /\ UNCHANGED <<tasks, tick_rate, last_ack, queue>>

-----------------------------------------------------------------------------
Init ==
  /\ io_state = "none"
  /\ mons = 0
  /\ pc = [i \in Pirates |-> "off"]
  /\ interrupted = {}
  /\ cleared = 0
  /\ tick_rate = NoRate
  /\ last_ack = [i \in Pirates |-> 0]
  /\ fifo = << >>
  /\ wire = [i \in Pirates |-> << >>]
  /\ sent = [i \in Pirates |-> 0]
  /\ pushed = << >>
  /\ delivered = << >>

Pirate(i) == LoopTest(i) \/ RecvTimeout(i) \/ RecvFrame(i)

Destroy == InterruptTask \/ JoinTask \/ ReleaseMembers

Next ==
  \/ IoInit
  \/ \E r \in TickRates : UpdateTickRate(r)
  \/ \E i \in Pirates : Pirate(i)
  \/ RecvAsyncMsg
  \/ BeginDestroy
  \/ Destroy
  \/ \E i \in Pirates, k \in FrameKinds : \E t \in TimedFlags(k) : DeviceSend(i, k, t)

(* Each pirate is a thread of its own that the OS keeps scheduling, and  *)
(* get_recv_buff returns within its timeout; the destructor, once        *)
(* called, runs to its end.  Whether the application reads reports,      *)
(* destroys the device or the device sends anything is not assumed.      *)
Fairness ==
  /\ \A i \in Pirates : WF_vars(Pirate(i))
  /\ WF_vars(Destroy)

Spec == Init /\ [][Next]_vars /\ Fairness

-----------------------------------------------------------------------------
(* A report a pirate pushed is lost to the application (neither returned *)
(* by recv_async_msg nor still queued) only if at least Capacity reports *)
(* were pushed after it: push_with_pop_on_full discards the oldest       *)
(* report and only when the fifo is full, whichever pirates push and     *)
(* however the application's pops interleave with them.                  *)
LostOnlyWhenFull ==
  \A k \in 1..Len(pushed) :
    \/ pushed[k] \in ToSet(delivered) \cup ToSet(fifo)
    \/ Len(pushed) - k >= Capacity

(* Every report carrying a timestamp was converted with a tick rate the  *)
(* application set: MetadataOf never reads io_impl::tick_rate before     *)
(* update_tick_rate has written it.                                      *)
TimedReportsHaveTickRate ==
  \A k \in 1..Len(pushed) : pushed[k].timed => pushed[k].rate # NoRate

(* A pirate loop that is running (at its loop test or in get_recv_buff)  *)
(* sees fc_mons complete, so its fc_mons[index] exists and the vector is *)
(* not being reallocated under it: io_init pushes every monitor before   *)
(* it spawns the first task, and ~io_impl joins every task before the    *)
(* members, monitors and transports, are destroyed.                      *)
MonitorsOutliveRunningPirates ==
  \A i \in Pirates : pc[i] \in {"head", "recv"} => mons = Cardinality(Pirates)

(* Once the io_impl is being destroyed, destruction completes: every     *)
(* interrupted loop notices the request within one receive timeout.      *)
DestroyCompletes == io_state = "stopping" ~> io_state = "released"
=============================================================================
