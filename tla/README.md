# TLA+ models of the UmTRX streaming engine

These modules model the host-side streaming engine of the UmTRX driver:
`src/umtrx/host/io_impl.cpp`, plus the parts of
`src/host/lib/usrp/umtrx/umtrx_impl.cpp` that configure it. `spec.md`
describes the same engine as flow-control monitors, reception monitor tasks,
an async event queue and a channel binder.

## 1. Inventory

### Parts and how they interact

| Part | Code | State | Operations |
|---|---|---|---|
| Flow Control Monitor | `flow_control_monitor` (io_impl.cpp 61-127) | `_last_seq_out`, `_last_seq_ack`, mutex, condition | `clear`, `check_fc_condition`, `get_curr_seq_out`, `update_fc_condition`, `ready` |
| TX send path | `io_impl::get_send_buff` (149-162); device side set by `set_updates` (umtrx_impl.cpp 364-371) | the device SRAM, its consumed count | window check, then transport buffer, then sequence word; the device consumes packets and sends count updates |
| Reception Monitor Task | `recv_pirate_loop` (181-241) | one thread per TX transport | receive with timeout; event code 0 updates the monitor; other reports are queued |
| Async Event Queue | `async_msg_fifo` (bounded_buffer, 100 deep) | FIFO | `push_with_pop_on_full`, `recv_async_msg` (396-401) |
| Device object | `umtrx_impl` constructor (100-469) and destructor (471-475) | per board: lock, GPSDO, update stream, time source; the negotiated frame size | MTU negotiation, FPGA check, post-init, `set_updates(0, 0)` on close |
| io lifecycle | `io_init` (246-282), `update_tick_rate` (284-285), `~io_impl` (144-147) | tasks, `tick_rate` | init, rate shadow write, destruction |
| Channel Binder | `update_rx/tx_subdev_spec` (337-391), `get_rx_stream` (406-466), `get_tx_stream` (471-534) | `rx/tx_chan_occ`, DSP and frontend IQ muxes, `SR_RX/TX_FRONT_SW`, `rx/tx_streamers` weak pointers | subdev-spec update (mux, front switch, occupancy), channel resolution, clear, bind |

The parts interact as follows:

- A TX streamer's `get_buff` callback calls `get_send_buff` with the monitor
  index `abs+dsp` chosen by the binder.
- The device reports consumed packets on the same transport. The pirate
  loop for that transport passes each count to the monitor with the same
  index.
- Other device reports go through the queue to `recv_async_msg`.
- `get_tx_stream` clears the DSP and the monitor of every channel it binds
  (unless `noclear` is given).

### Hard behaviours

Several behaviours make the engine hard to test:

- sender and pirate threads interleave;
- an unlocked post-increment of `_last_seq_out`;
- an unlocked `clear`;
- lossy UDP count updates with a 32-bit modular window;
- a periodic update that `ups_per_sec = 0` switches off;
- an update interval sized from another SRAM constant and an unchecked
  `ups_per_fifo`, which can exceed the window;
- a queue that drops its oldest element when full;
- thread interruption that is only tested at the loop head;
- destruction order, and `io_init`'s order (monitors before pirates);
- exceptions part-way through the constructor's and destructor's board loops;
- the uninitialized `tick_rate`;
- silent failure to bind an out-of-range channel.

`PROJECT.json` lists each hazard at its line with the properties that
cover it.

### Properties

- The window never overruns the SRAM.
- A blocked sender is eventually released.
- A report is lost only when the queue is full.
- A running pirate always sees `fc_mons` complete, from `io_init` to `~io_impl`.
- The device opens exactly when every board's FPGA image is compatible.
- The negotiated frame size fits every device.
- Destruction completes.
- Bindings follow the documented layout.
- Every requested channel is bound.
- Rate and tick changes reach exactly the held, current streamers.
- A register write-and-check echoes its byte.

### Snapshot inconsistencies

`umtrx_impl.cpp` is an unfinished port. It has the following problems:

- `io_init` is commented out (448).
- It carries stub streamer functions (569-580) and its own copies of the
  subdev-spec handlers (529-564).
- It has a single `tx_dsp_xport`.

The models follow `io_impl.cpp`, which is the engine `spec.md` describes.
Only the constructor's `set_updates` arguments and post-init subdev specs
are taken from `umtrx_impl.cpp`. Its duplicate subdev-spec handlers are
modelled as `UmtrxUpdateRxSubdevSpec`/`UmtrxUpdateTxSubdevSpec`, and
`cm_layout`'s SubdevRouting mutant swaps the first one in for
`io_impl.cpp`'s handler. They keep the first entry's swap flag for every
DSP, set a single frontend and never write the front switch, so a spec
starting with daughterboard B misroutes.

## 2. Modules

| Module | Models |
|---|---|
| `FlowControl` | One TX channel: its monitor, one or two senders running `get_send_buff` step by step, the device SRAM and count updates, the ordered lossy update link, the pirate's update step, and `get_tx_stream`'s clear (DSP, then monitor). |
| `AsyncMsgFifo` | The bounded buffer's operations as operators on a sequence. `bounded_buffer` is UHD library code, so these are modelled from its documented behaviour. |
| `ReceptionMonitor` | Instances `AsyncMsgFifo` and models `2*NumBoards` pirate loops, `recv_async_msg`, `update_tick_rate`, `io_init` and `~io_impl` with the task destructor's interrupt and join. `io_init` is three steps: make the io_impl, push each board's monitors, spawn the pirates in index order. A spawned pirate runs concurrently with the rest of `io_init`. `fc_mons` is released with the members. |
| `StreamerRates` | The `rx/tx_streamers` weak pointers (one slot per DSP, per direction and board), `update_tick_rate`, `update_rx/tx_samp_rate`, `update_rates` and `get_*_stream` storing the new streamer and calling `update_rates`. The application may drop a streamer at any time. In this snapshot the tree subscriptions that call these functions are commented out in `umtrx_impl.cpp` (212-220, 328-333); the model wires them as that commented code states. |
| `LmsSpi` | `read_addr`, `write_addr` and `write_n_check` (umtrx_impl.cpp 585-601). The 16-bit SPI word is modelled by its bit layout: write flag, 7-bit address, data byte. Writes go to every board and reads come from the first. The LMS chips are an environment register file that decodes the word. `reg_dump` only prints and is left out. |
| `UmtrxDevice` | The `umtrx_impl` object over its life, composed with `LmsSpi` through `INSTANCE`. The constructor runs the MTU loop (minimum over devices, `not_implemented_error` keeps the user's size), then per board the FPGA check (throw), lock, GPSDO and `set_updates`, then post-init's time source. The LMS operations run while the device is open. The destructor's `set_updates(0, 0)` loop may throw and stop. Each board's compatibility register, MTU answer and GPSDO are the environment, chosen in `Init`. |
| `ChannelMap` | The subdev-spec handlers (per DSP and frontend IQ mux, `SR_*_FRONT_SW` chosen from `spec[0]`, occupancy `spec.size()`; the spec is a sequence of distinct daughterboard names, which is what `validate_subdev_spec` admits, with `fe_num_for_db` taken as A to 0 and B to 1), and the channel loops of `get_rx_stream`/`get_tx_stream`, written as a `RECURSIVE` operator that follows the loop (`BindLoop`). It is checked against `Layout`, a non-recursive reference taken from the spec's description. |

Each `MC*` module extends its model and supplies model values.

### Correspondence with the code

- `pc` values are the points between the code's steps. For example, a
  sender goes `idle` → `wait` → (`woken`) → `xport` → `read_seq` →
  `write_seq` → `commit`. `get_curr_seq_out`'s post-increment is split into
  a read and a write because it runs outside the lock.
- The device's update word is its consumed-packet count mod 2^`SeqBits`.
  This is what `ready()` compares against `_last_seq_out`.

## 3. Runs

| Run | Checks | Shows |
|---|---|---|
| `fc_window` | TypeOK, NoSramOverrun, WindowReopens | With one sender, 3-bit wrap and lost updates, the SRAM never overruns and the window always reopens. |
| `fc_reopen_live` | WindowReopens | The window still reopens across a reopen with old updates in flight. |
| `fc_reopen_stale_update` | NoSramOverrun (violated) | A pre-clear update applied after `clear` over-credits the new session. |
| `fc_shared_monitor` | NoSramOverrun (violated) | Two streamers on one channel race the window check. |
| `fc_clear_race` | WindowReopens (violated) | Two threads on one channel. One calls `get_tx_stream` while the old streamer is between its window check and its commit. A packet committed between `tx_dsps[dsp]->clear()` (516) and `fc_mons[abs+dsp]->clear()` (517) is counted by the device and not by the monitor. The updates then run ahead of `last_seq_out` and `ready()` stays false for good. |
| `fc_no_timed_updates` | WindowReopens (violated) | With `ups_per_sec = 0` and `ups_per_fifo = 1` (one count update per window), one lost update stalls the sender forever. |
| `sr_rates` | TypeOK, BoundStreamersFresh, OnlyBoundStreamersUpdated | Across make, rebind and drop of three streamers and every tick and rate node change, a held streamer that a slot points at carries the current values. A replaced or dropped streamer is never updated. |
| `device` | TypeOK, OpensOnlyCompatible, FrameSizeFitsEveryDevice, WriteNCheckEchoes | With every mix of images (new scheme, old scheme, a wrong major whose minor is right, zero), MTU answers and GPSDOs on two boards, the device opens exactly when both images are compatible. A constructor that throws does so at the first incompatible board and leaves exactly the boards before it locked and sending updates. The frame size is the smallest MTU reported. On the open device `write_n_check` returns the byte written below 128 and 0 from 128. |
| `rm_async` | TypeOK, LostOnlyWhenFull, MonitorsOutliveRunningPirates, DestroyCompletes | Queue loss is only the pop-on-full policy. Pirates run only while `fc_mons` is complete: after `io_init`'s monitor loop and until `~io_impl` has joined them. Destruction completes. |
| `rm_tick_uninit` | TimedReportsHaveTickRate (violated) | A timed report uses `tick_rate` before anything has written it. |
| `cm_layout` | TypeOK, BindingMatchesLayout, SubdevRouting | Both loops bind every in-range channel to the documented board, DSP and monitor. Each subdev-spec handler leaves the front switch routing every DSP of the spec to the frontend of its entry. That DSP's mux and that frontend's mux carry the entry's connection and swap flag, and the occupancy is the spec's size. The switch is decided by `spec[0]` alone, which is right only for distinct entries over two frontends. Every field checked is rewritten by each spec, so this is a check of one handler's result. |
| `cm_out_of_range` | EveryChannelBound (violated) | An out-of-range channel is left unbound instead of raising ChannelOutOfRange. |

`MCFlowControl_slowfifo.cfg` is a reproduction configuration, not a listed
run. It sets `ups_per_fifo = 0.5` and `ups_per_sec = 0`. The device then asks
for a count update only after two SRAMs' worth of packets, while the host
window is one SRAM. TLC reports WindowReopens violated with no update lost:
host and device wait on each other forever. `set_updates` accepts any
positive `ups_per_fifo` (umtrx_impl.cpp 367-370), so this case is reachable
from device arguments.

### Bounds

FlowControl runs with `SeqBits = 3`, so the sequence space wraps at 8.
`SramBytes/FrameSize` is 3 or 4 packets, which keeps the window below half
the space, the same relation as in the code. Every run therefore wraps
several times.

- `UpsPerFifo = 1` gives one count update per full SRAM.
  `ups_per_fifo` is a double, so it is modelled as the fraction
  `UpsPerFifo / UpsPerFifoDen`, truncated the way the `size_t` cast truncates.
- `MaxInflight = 2` updates can be on the wire at once.
- `MaxSessions` bounds reopens.

ReceptionMonitor runs with one board, i.e. two pirates.

- The queue capacity is 2.
- Two frames per transport are enough to fill the queue and force a drop.

StreamerRates runs with one board, which gives four slots, and three streamer objects, with symmetry on the streamers. Two streamers can hold slots while the third is made after a drop or a rebind. Two values per node make every change observable.

UmtrxDevice runs with two boards, so the MTU loop folds a second device in and the board loop can throw on board 2 after board 1 is locked. Images are `2.1` (new scheme), `2` (old scheme), `3.2` (wrong major, right minor) and `0`. MTU answers are 1, 2 or `not_implemented_error`, with a user size of 3. LMS access uses addresses 1, 127 and 128 (the 7-bit guard's boundary) and data bytes 0 and 255. A wrong shift then addresses another register or turns a write into a read.

ChannelMap runs with two boards of up to two channels each. The specs are
`A`, `B`, `A,B` and `B,A`: all the specs `validate_subdev_spec` lets through
for two daughterboards of one frontend each. The requests have up to two
channels over every index. Daughterboard A is wired `IQ` and B `QI`, so every
swap flag takes both values, and a spec starting with B needs the swapped
front switch.

### Fairness

Fairness follows the code's scheduling:

- **Threads already inside a call get weak fairness.** This covers a sender
  in `get_send_buff`/`clear`, the pirate loops, the destructor and the
  device consuming packets. Their threads are runnable and do not wait on
  the application.
- **The pirate's update step gets strong fairness.** The link is fair-lossy:
  it may lose any update, but not every update forever.
- **Starting a send or a new stream gets no fairness.** The application may
  stop calling.
- **Destroyed engine.** The ReceptionMonitor and UmtrxDevice runs set
  `CHECK_DEADLOCK FALSE` because a destroyed engine, a destroyed device
  and a constructor that threw really stop.

## 4. Not modelled, and the plan

The following are not modelled, for the reasons given in `PROJECT.json`
"components":

- the property tree and the objects the constructor configures (transports,
  EEPROM, codec, frontends, DSPs, dboard manager): configuration calls into
  UHD library code whose state the engine never reads back;
- whether member destructors unlock a board or stop its updates after a
  constructor throws (code outside `src/`);
- `reg_dump`, which only prints;
- the VRT codec;
- `usrp_uhd::device_addr_t` (`device_addr.hpp`), which only declares types;
  its functions are defined outside `src/` and the code uses
  `uhd::device_addr_t`;
- the stub `get_rx_stream`/`get_tx_stream`/`recv_async_msg` of
  `umtrx_impl.cpp` (569-580), which return empty values;
- a failing `poke32` of the front switch after the muxes were set (the
  control transport is outside `src/`);
- the `spp` computation and the `noclear`/`underflow_policy` stream
  arguments, which set per-streamer sizes the engine never reads back.

Planned next:

1. **Composed `StreamingIO` module.** Compose FlowControl and
   ReceptionMonitor so that the pirate that applies updates is the same
   thread that pushes reports and is stopped by `~io_impl`.
   The project is at its run limit, so this run has to replace
   `fc_reopen_live`, whose reopen case it would include.
