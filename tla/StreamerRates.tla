---------------------------- MODULE StreamerRates ----------------------------
(***************************************************************************)
(* The streamer weak-pointer tables and the rate broadcasts of             *)
(* src/umtrx/host/io_impl.cpp.                                             *)
(*   - io_init sizes _mbc[mb].rx_streamers / tx_streamers to one empty     *)
(*     weak pointer per DSP;                                               *)
(*   - get_rx_stream / get_tx_stream store the new streamer in the slot of *)
(*     every DSP it binds, overwriting any earlier streamer, then call     *)
(*     update_rates;                                                       *)
(*   - update_tick_rate, update_rx_samp_rate and update_tx_samp_rate are   *)
(*     the subscribers of the property-tree nodes mboards/<mb>/tick_rate   *)
(*     and .../{rx,tx}_dsps/<n>/rate/value: they lock() the weak pointer   *)
(*     and push the value into the streamer if it is still alive;          *)
(*   - update_rates calls update() on every such node, board by board.     *)
(* The application drops a streamer by releasing its shared_ptr.  The      *)
(* channel resolution itself is the ChannelMap module; here a request      *)
(* names the DSP slots it resolved to.                                     *)
(***************************************************************************)
EXTENDS Naturals, Sequences, SequencesExt, FiniteSets

CONSTANTS
  NumBoards,   \* motherboards in _mbc
  Streamers,   \* bound: the streamer objects the application may make
  Rates,       \* sample rates a DSP node may hold
  Ticks,       \* tick rates a board node may hold
  Null,        \* an empty or expired weak pointer
  NoRate       \* a streamer no rate has reached yet

Boards == 1..NumBoards
Dsps == 0..1                        \* two DSPs per direction and board
Dirs == {"rx", "tx"}
Slots == Dirs \X Boards \X Dsps     \* <<dir, mb, dsp>>: one weak pointer

(* The order update_rates visits the nodes in: board by board, its       *)
(* tick_rate, then rx_dsps/0, rx_dsps/1, then tx_dsps/0, tx_dsps/1.      *)
BoardSlots(b) == << <<"rx", b, 0>>, <<"rx", b, 1>>, <<"tx", b, 0>>, <<"tx", b, 1>> >>
SlotOrder == FlattenSeq([b \in Boards |-> BoardSlots(b)])

VARIABLES
  table,      \* [Slots -> Streamers \cup {Null}]: rx_streamers / tx_streamers
  alive,      \* streamers the application still holds
  kind,       \* per streamer: "rx", "tx", or "none" before it is made
  rate,       \* per streamer: its samp rate (set_samp_rate)
  tick,       \* per streamer: its tick rate (set_tick_rate)
  tree_tick,  \* per board: the tick_rate node
  tree_rate   \* per slot: the DSP's rate/value node

vars == <<table, alive, kind, rate, tick, tree_tick, tree_rate>>

TypeOK ==
  /\ table \in [Slots -> Streamers \cup {Null}]
  /\ alive \subseteq Streamers
  /\ kind \in [Streamers -> Dirs \cup {"none"}]
  /\ rate \in [Streamers -> Rates \cup {NoRate}]
  /\ tick \in [Streamers -> Ticks \cup {NoRate}]
  /\ tree_tick \in [Boards -> Ticks]
  /\ tree_rate \in [Slots -> Rates]
  \* an rx slot holds a recv streamer, a tx slot a send streamer, so the
  \* dynamic_pointer_cast in the broadcasts never fails on a live slot
  /\ \A slot \in Slots : table[slot] # Null => kind[table[slot]] = slot[1]

-----------------------------------------------------------------------------
(* lock() on a slot yields a streamer only while the application holds   *)
(* it.                                                                   *)
Locked(tbl, al, slot) == tbl[slot] # Null /\ tbl[slot] \in al

(* Fault variant of update_tick_rate: "return" instead of "continue" on  *)
(* an expired slot, skipping every later slot.                           *)
TickUpdatedStopsAtNull(tbl, tk, t, al) ==
  FoldLeft(LAMBDA acc, slot :
             IF acc[2] THEN acc
             ELSE IF Locked(tbl, al, slot)
                    THEN << [acc[1] EXCEPT ![tbl[slot]] = t], FALSE >>
                    ELSE << acc[1], TRUE >>,
           << tk, FALSE >>, SlotOrder)[1]

(* update_tick_rate(t): every slot of every board that still locks gets  *)
(* set_tick_rate(t); expired slots are skipped ("continue").             *)
TickUpdated(tbl, tk, t, al) ==
  FoldLeft(LAMBDA acc, slot :
             IF Locked(tbl, al, slot) THEN [acc EXCEPT ![tbl[slot]] = t] ELSE acc,
           tk, SlotOrder)

(* Fault variant of update_{rx,tx}_samp_rate: the slot is dereferenced   *)
(* without checking that lock() succeeded, as with an owning pointer.    *)
RateUpdatedNoLock(tbl, rt, slot, r, al) ==
  IF tbl[slot] # Null THEN [rt EXCEPT ![tbl[slot]] = r] ELSE rt

(* update_rx_samp_rate / update_tx_samp_rate(mb, dsp, r): lock the slot, *)
(* return if it is expired, else set_samp_rate(r) (and, for RX, the     *)
(* DSP's scale factor, which the model does not track).                  *)
RateUpdated(tbl, rt, slot, r, al) ==
  IF Locked(tbl, al, slot) THEN [rt EXCEPT ![tbl[slot]] = r] ELSE rt

(* update_rates: the tick_rate node and every DSP rate node, board by    *)
(* board, each update() calling its subscriber with the node's value.    *)
RatesAfterUpdate(tbl, rt, al) ==
  FoldLeft(LAMBDA acc, slot : RateUpdated(tbl, acc, slot, tree_rate[slot], al),
           rt, SlotOrder)
TicksAfterUpdate(tbl, tk, al) ==
  FoldLeft(LAMBDA acc, b : TickUpdated(tbl, acc, tree_tick[b], al),
           tk, [b \in Boards |-> b])

-----------------------------------------------------------------------------
(* Fault variant: the streamer is stored in the other direction's table *)
(* (get_tx_stream writing rx_streamers[dsp]).                            *)
GetStreamWrongTable(d, s, chans) ==
  /\ kind[s] = "none"
  /\ LET other(slot) == << IF slot[1] = "rx" THEN "tx" ELSE "rx", slot[2], slot[3] >>
         tbl == [slot \in Slots |-> IF other(slot) \in chans THEN s ELSE table[slot]]
         al  == alive \cup {s}
     IN /\ table' = tbl
        /\ alive' = al
        /\ rate' = RatesAfterUpdate(tbl, rate, al)
        /\ tick' = TicksAfterUpdate(tbl, tick, al)
  /\ kind' = [kind EXCEPT ![s] = d]
  /\ UNCHANGED <<tree_tick, tree_rate>>

(* get_rx_stream / get_tx_stream: a new streamer s is made, stored in     *)
(* the weak slot of every DSP its channels resolved to, and update_rates *)
(* pushes the current tick and DSP rates into every live slot.           *)
GetStream(d, s, chans) ==
  /\ kind[s] = "none"
  /\ LET tbl == [slot \in Slots |-> IF slot \in chans THEN s ELSE table[slot]]
         al  == alive \cup {s}
     IN /\ table' = tbl
        /\ alive' = al
        /\ rate' = RatesAfterUpdate(tbl, rate, al)
        /\ tick' = TicksAfterUpdate(tbl, tick, al)
  /\ kind' = [kind EXCEPT ![s] = d]
  /\ UNCHANGED <<tree_tick, tree_rate>>

(* The application releases its last reference to s. *)
DropStreamer(s) ==
  /\ s \in alive
  /\ alive' = alive \ {s}
  /\ UNCHANGED <<table, kind, rate, tick, tree_tick, tree_rate>>

(* The tick_rate node of board b is set; its subscriber update_tick_rate *)
(* pushes the value into every live slot of every board.                 *)
SetTickRate(b, t) ==
  /\ tree_tick' = [tree_tick EXCEPT ![b] = t]
  /\ tick' = TickUpdated(table, tick, t, alive)
  /\ UNCHANGED <<table, alive, kind, rate, tree_rate>>

(* A DSP's rate/value node is set; its subscriber updates that slot.     *)
SetSampRate(slot, r) ==
  /\ tree_rate' = [tree_rate EXCEPT ![slot] = r]
  /\ rate' = RateUpdated(table, rate, slot, r, alive)
  /\ UNCHANGED <<table, alive, kind, tick, tree_tick>>

(* io_init: every weak pointer empty, no streamer made; the tree nodes   *)
(* hold some values.                                                     *)
Init ==
  /\ table = [slot \in Slots |-> Null]
  /\ alive = {}
  /\ kind = [s \in Streamers |-> "none"]
  /\ rate = [s \in Streamers |-> NoRate]
  /\ tick = [s \in Streamers |-> NoRate]
  /\ tree_tick \in [Boards -> Ticks]
  /\ tree_rate \in [Slots -> Rates]

Next ==
  \/ \E d \in Dirs, s \in Streamers :
       \E chans \in SUBSET ({d} \X Boards \X Dsps) \ {{}} : GetStream(d, s, chans)
  \/ \E s \in Streamers : DropStreamer(s)
  \/ \E b \in Boards, t \in Ticks : SetTickRate(b, t)
  \/ \E slot \in Slots, r \in Rates : SetSampRate(slot, r)

Spec == Init /\ [][Next]_vars

-----------------------------------------------------------------------------
(* The slots that still point at s. *)
CurrentSlots(s) == {slot \in Slots : table[slot] = s}

(* Every streamer the application holds and a slot still points at has  *)
(* the board's current tick rate, and, when all the DSPs it is current   *)
(* on agree on a rate, that rate: update_tick_rate's loop, the           *)
(* samp-rate subscribers and get_*_stream's closing update_rates keep    *)
(* them in step across rebinding, expiry and later node changes.         *)
(* (All boards share one tick rate when NumBoards = 1.)                  *)
BoundStreamersFresh ==
  \A s \in alive :
    CurrentSlots(s) # {} =>
      /\ \A slot \in CurrentSlots(s) : tick[s] = tree_tick[slot[2]]
      /\ (\A x, y \in CurrentSlots(s) : tree_rate[x] = tree_rate[y])
           => \A slot \in CurrentSlots(s) : rate[s] = tree_rate[slot]

(* spec.md 3 and 4.5: a rate or tick change reaches a streamer only       *)
(* while the application holds it and a slot still points at it; a       *)
(* streamer replaced by rebinding, or dropped, is never touched again.    *)
OnlyBoundStreamersUpdated ==
  [][\A s \in Streamers :
       (kind[s] # "none" /\ (rate'[s] # rate[s] \/ tick'[s] # tick[s]))
         => s \in alive /\ \E slot \in Slots : table'[slot] = s]_vars
=============================================================================
