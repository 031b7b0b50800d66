----------------------------- MODULE ChannelMap -----------------------------
(***************************************************************************)
(* Channel binding in src/umtrx/host/io_impl.cpp.                          *)
(*   - update_rx_subdev_spec / update_tx_subdev_spec set a board's channel *)
(*     occupancy (rx_chan_occ / tx_chan_occ) to the subdev spec's size;    *)
(*   - get_rx_stream / get_tx_stream walk the boards in _mbc.keys() order  *)
(*     for every requested logical channel, accumulating occupancy until   *)
(*     the channel falls inside a board, and bind the streamer's channel   *)
(*     to that board's DSP; the TX path also picks the flow-control        *)
(*     monitor fc_mons[abs+dsp], with abs advanced by 2 per board passed;  *)
(*   - the subdev-spec handlers also set the IQ mux of every DSP the spec  *)
(*     uses and of its daughterboard's frontend, and write SR_RX_FRONT_SW  *)
(*     / SR_TX_FRONT_SW, which routes DSP0/DSP1 to frontend 0/1 or swaps   *)
(*     them.                                                               *)
(* Boards are 1..NumBoards in key order.  A subdev spec is a sequence of   *)
(* daughterboard names; validate_subdev_spec (outside src) admits only     *)
(* non-empty specs of known, distinct entries, one frontend per board.     *)
(***************************************************************************)
EXTENDS Naturals, Sequences
LOCAL INSTANCE Functions

CONSTANTS
  NumBoards,   \* motherboards in _mbc
  MaxOcc,      \* largest subdev spec a board accepts
  MaxChans,    \* bound: channels in one stream_args_t request
  MaxIndex,    \* bound: largest logical channel index requested
  FeConn,      \* per daughterboard name: its frontend's "connection"
  NoMux        \* a DSP's or frontend's IQ mux before any spec named it

DbNames == {"A", "B"}
Conns == {"IQ", "QI", "I", "Q"}

ASSUME
  /\ NumBoards \in Nat \ {0}
  /\ MaxOcc \in Nat \ {0}
  /\ MaxChans \in Nat \ {0}
  /\ MaxIndex \in Nat
  /\ FeConn \in [DbNames -> Conns]

Boards == 1..NumBoards
Dsps == 0..MaxOcc-1
Frontends == {0, 1}

(* The subdev specs validate_subdev_spec lets through. *)
Specs == {s \in UNION {[1..n -> DbNames] : n \in 1..MaxOcc} : IsInjective(s)}

(* fe_num_for_db (declared outside src): daughterboard A feeds frontend  *)
(* 0, B frontend 1.                                                      *)
FeNum(db) == IF db = "A" THEN 0 ELSE 1

DspMux == [conn : Conns, swapped : BOOLEAN] \cup {NoMux}

(* A channel the loop found no board for: the streamer channel is left   *)
(* without a get_buff callback.                                          *)
Unbound == [board |-> 0, dsp |-> 0, mon |-> 0]

Binding == [board : Boards, dsp : 0..MaxOcc-1, mon : Nat] \cup {Unbound}

(* The requests stream_args_t may carry: an empty channel list means     *)
(* channel 0.                                                            *)
Requests == UNION {[1..n -> 0..MaxIndex] : n \in 0..MaxChans}
ChannelsOf(req) == IF req = << >> THEN << 0 >> ELSE req

VARIABLES
  rx_occ,   \* per board: rx_chan_occ
  tx_occ,   \* per board: tx_chan_occ
  dir,      \* "rx" or "tx": the last streamer made
  request,  \* its channel list
  bound,    \* its bindings, one per requested channel
  open_occ, \* the occupancy its loop walked (history, read by properties)
  rx_spec, tx_spec,   \* per board: the spec last applied (history)
  rx_dsp_mux,   \* per board and DSP: rx_dsps[i]->set_mux(conn, swapped)
  rx_fe_mux,    \* per board and frontend: rx_fes[f]->set_mux(swapped)
  rx_front_sw,  \* per board: SR_RX_FRONT_SW
  tx_fe_mux,    \* per board and frontend: tx_fes[f]->set_mux(conn)
  tx_front_sw   \* per board: SR_TX_FRONT_SW

mux == <<rx_spec, tx_spec, rx_dsp_mux, rx_fe_mux, rx_front_sw, tx_fe_mux, tx_front_sw>>
vars == <<rx_occ, tx_occ, dir, request, bound, open_occ, mux>>

TypeOK ==
  /\ rx_occ \in [Boards -> 1..MaxOcc]
  /\ tx_occ \in [Boards -> 1..MaxOcc]
  /\ dir \in {"rx", "tx"}
  /\ request \in Seq(0..MaxIndex)
  /\ bound \in Seq(Binding)
  /\ Len(bound) = Len(request)
  /\ open_occ \in [Boards -> 1..MaxOcc]
  /\ rx_spec \in [Boards -> Specs] /\ tx_spec \in [Boards -> Specs]
  /\ rx_dsp_mux \in [Boards -> [Dsps -> DspMux]]
  /\ rx_fe_mux \in [Boards -> [Frontends -> BOOLEAN \cup {NoMux}]]
  /\ tx_fe_mux \in [Boards -> [Frontends -> Conns \cup {NoMux}]]
  /\ rx_front_sw \in [Boards -> {0, 1}] /\ tx_front_sw \in [Boards -> {0, 1}]

-----------------------------------------------------------------------------
(* Fault variant of the loop: the test "chan < num_chan_so_far" written  *)
(* as "<=".                                                              *)
RECURSIVE BindLoopLe(_, _, _, _, _)
BindLoopLe(occ, chan, b, so_far, abs) ==
  IF b > NumBoards THEN Unbound
  ELSE LET now == so_far + occ[b] IN
       IF chan <= now
         THEN [board |-> b, dsp |-> (chan + occ[b]) - now, mon |-> abs + (chan + occ[b]) - now]
         ELSE BindLoopLe(occ, chan, b + 1, now, abs + 2)

(* Fault variant: abs is not advanced past a board. *)
RECURSIVE BindLoopNoAbs(_, _, _, _, _)
BindLoopNoAbs(occ, chan, b, so_far, abs) ==
  IF b > NumBoards THEN Unbound
  ELSE LET now == so_far + occ[b] IN
       IF chan < now
         THEN [board |-> b, dsp |-> (chan + occ[b]) - now, mon |-> abs + (chan + occ[b]) - now]
         ELSE BindLoopNoAbs(occ, chan, b + 1, now, abs)

(* The BOOST_FOREACH over _mbc.keys() for one channel, from board b on,  *)
(* with num_chan_so_far and abs carried along; break at the first board  *)
(* whose running total exceeds the channel.                              *)
RECURSIVE BindLoop(_, _, _, _, _)
BindLoop(occ, chan, b, so_far, abs) ==
  IF b > NumBoards THEN Unbound
  ELSE LET now == so_far + occ[b] IN
       IF chan < now
         THEN [board |-> b, dsp |-> (chan + occ[b]) - now, mon |-> abs + (chan + occ[b]) - now]
         ELSE BindLoop(occ, chan, b + 1, now, abs + 2)

BindAll(occ, chans) == [k \in DOMAIN chans |-> BindLoop(occ, chans[k], 1, 0, 0)]

(* The RX loop carries no abs and picks no monitor. *)
NoMonitor(x) == [x EXCEPT !.mon = 0]

-----------------------------------------------------------------------------
(* "QI" and "Q" connections are I/Q swapped. *)
Swapped(conn) == conn \in {"QI", "Q"}

(* SR_*_FRONT_SW: 0 (DSP0 - frontend 0, DSP1 - frontend 1) when the spec *)
(* starts with daughterboard A, else 1 (swapped).                        *)
FrontSw(spec) == IF spec[1] = "A" THEN 0 ELSE 1

(* The loop over the spec: DSP i gets the connection of spec[i] and its  *)
(* swap flag; spec[i]'s frontend gets the swap flag (RX) or connection   *)
(* (TX).  Entries the spec does not name keep their mux.                 *)
(* Fault variant: the loop counts DSPs from 1, so spec[i] sets          *)
(* rx_dsps[i+1].                                                         *)
RxDspMuxesFrom1(old, spec) ==
  [d \in 0..MaxOcc |-> IF 1 <= d /\ d <= Len(spec)
                        THEN [conn |-> FeConn[spec[d]],
                              swapped |-> Swapped(FeConn[spec[d]])]
                        ELSE IF d \in Dsps THEN old[d] ELSE NoMux]

RxDspMuxes(old, spec) ==
  [d \in Dsps |-> IF d < Len(spec)
                   THEN [conn |-> FeConn[spec[d+1]],
                         swapped |-> Swapped(FeConn[spec[d+1]])]
                   ELSE old[d]]

Named(spec, f) == \E i \in DOMAIN spec : FeNum(spec[i]) = f
DbOf(spec, f) == spec[CHOOSE i \in DOMAIN spec : FeNum(spec[i]) = f]

RxFeMuxes(old, spec) ==
  [f \in Frontends |-> IF Named(spec, f) THEN Swapped(FeConn[DbOf(spec, f)]) ELSE old[f]]

TxFeMuxes(old, spec) ==
  [f \in Frontends |-> IF Named(spec, f) THEN FeConn[DbOf(spec, f)] ELSE old[f]]

(* The same handler as written in umtrx_impl.cpp, used as a fault        *)
(* variant: fe_swapped is set only by spec[0]'s connection and then      *)
(* kept for every later DSP, the single rx_fe (frontend 0) gets it, and  *)
(* SR_RX_FRONT_SW is not written.                                        *)
UmtrxUpdateRxSubdevSpec(b, spec) ==
  LET fe_swapped == Swapped(FeConn[spec[1]]) IN
  /\ rx_dsp_mux' = [rx_dsp_mux EXCEPT ![b] =
       [d \in Dsps |-> IF d < Len(spec)
                        THEN [conn |-> FeConn[spec[d+1]], swapped |-> fe_swapped]
                        ELSE @[d]]]
  /\ rx_fe_mux' = [rx_fe_mux EXCEPT ![b][0] = fe_swapped]
  /\ rx_occ' = [rx_occ EXCEPT ![b] = Len(spec)]
  /\ rx_spec' = [rx_spec EXCEPT ![b] = spec]
  /\ UNCHANGED <<tx_occ, dir, request, bound, open_occ, rx_front_sw, tx_spec, tx_fe_mux, tx_front_sw>>

(* update_rx_subdev_spec: the mux loop, then SR_RX_FRONT_SW, then the    *)
(* occupancy becomes spec.size() (the nchan sum it computes is unused).  *)
UpdateRxSubdevSpec(b, spec) ==
  /\ rx_dsp_mux' = [rx_dsp_mux EXCEPT ![b] = RxDspMuxes(@, spec)]
  /\ rx_fe_mux' = [rx_fe_mux EXCEPT ![b] = RxFeMuxes(@, spec)]
  /\ rx_front_sw' = [rx_front_sw EXCEPT ![b] = FrontSw(spec)]
  /\ rx_occ' = [rx_occ EXCEPT ![b] = Len(spec)]
  /\ rx_spec' = [rx_spec EXCEPT ![b] = spec]
  /\ UNCHANGED <<tx_occ, dir, request, bound, open_occ, tx_spec, tx_fe_mux, tx_front_sw>>

(* The umtrx_impl.cpp TX handler, as a fault variant: only spec[0]'s     *)
(* connection is set, on the single tx_fe (frontend 0), and             *)
(* SR_TX_FRONT_SW is not written.                                        *)
UmtrxUpdateTxSubdevSpec(b, spec) ==
  /\ tx_fe_mux' = [tx_fe_mux EXCEPT ![b][0] = FeConn[spec[1]]]
  /\ tx_occ' = [tx_occ EXCEPT ![b] = Len(spec)]
  /\ tx_spec' = [tx_spec EXCEPT ![b] = spec]
  /\ UNCHANGED <<rx_occ, dir, request, bound, open_occ, rx_spec, rx_dsp_mux, rx_fe_mux, rx_front_sw, tx_front_sw>>

(* update_tx_subdev_spec: the frontend mux loop, SR_TX_FRONT_SW, and the *)
(* occupancy.                                                            *)
UpdateTxSubdevSpec(b, spec) ==
  /\ tx_fe_mux' = [tx_fe_mux EXCEPT ![b] = TxFeMuxes(@, spec)]
  /\ tx_front_sw' = [tx_front_sw EXCEPT ![b] = FrontSw(spec)]
  /\ tx_occ' = [tx_occ EXCEPT ![b] = Len(spec)]
  /\ tx_spec' = [tx_spec EXCEPT ![b] = spec]
  /\ UNCHANGED <<rx_occ, dir, request, bound, open_occ, rx_spec, rx_dsp_mux, rx_fe_mux, rx_front_sw>>

(* get_rx_stream: bind every requested channel. *)
GetRxStream(req) ==
  /\ dir' = "rx"
  /\ request' = ChannelsOf(req)
  /\ bound' = [k \in DOMAIN ChannelsOf(req) |->
                 NoMonitor(BindAll(rx_occ, ChannelsOf(req))[k])]
  /\ open_occ' = rx_occ
  /\ UNCHANGED <<rx_occ, tx_occ, mux>>

(* get_tx_stream: the wire format is sc16 (anything else throws before   *)
(* any binding); bind every requested channel and its monitor.           *)
GetTxStream(req) ==
  /\ dir' = "tx"
  /\ request' = ChannelsOf(req)
  /\ bound' = BindAll(tx_occ, ChannelsOf(req))
  /\ open_occ' = tx_occ
  /\ UNCHANGED <<rx_occ, tx_occ, mux>>

(* The constructor sets each board's subdev specs to "A:<first          *)
(* frontend>", one channel each, through the handlers, on DSPs and       *)
(* frontends whose mux no spec had set.                                  *)
PostInitSpec == << "A" >>
Init ==
  /\ rx_occ = [b \in Boards |-> 1]
  /\ tx_occ = [b \in Boards |-> 1]
  /\ rx_spec = [b \in Boards |-> PostInitSpec]
  /\ tx_spec = [b \in Boards |-> PostInitSpec]
  /\ rx_dsp_mux = [b \in Boards |-> RxDspMuxes([d \in Dsps |-> NoMux], PostInitSpec)]
  /\ rx_fe_mux = [b \in Boards |-> RxFeMuxes([f \in Frontends |-> NoMux], PostInitSpec)]
  /\ tx_fe_mux = [b \in Boards |-> TxFeMuxes([f \in Frontends |-> NoMux], PostInitSpec)]
  /\ rx_front_sw = [b \in Boards |-> FrontSw(PostInitSpec)]
  /\ tx_front_sw = [b \in Boards |-> FrontSw(PostInitSpec)]
  /\ dir = "rx"
  /\ request = << >>
  /\ bound = << >>
  /\ open_occ = rx_occ

Next ==
  \/ \E b \in Boards, spec \in Specs : UpdateRxSubdevSpec(b, spec)
  \/ \E b \in Boards, spec \in Specs : UpdateTxSubdevSpec(b, spec)
  \/ \E req \in Requests : GetRxStream(req)
  \/ \E req \in Requests : GetTxStream(req)

Spec == Init /\ [][Next]_vars

-----------------------------------------------------------------------------
(* The layout spec.md describes: the first board's channels take the     *)
(* lowest logical indices, each board's channels in DSP order, and the   *)
(* TX monitor of board b's DSP d is the one io_init created for it,      *)
(* 2*(b-1)+d, which is also the index of the pirate loop reading that    *)
(* DSP's transport.                                                      *)
Before(occ, b) == IF b = 1 THEN 0 ELSE LET f[k \in 1..b-1] ==
                    occ[k] + (IF k = 1 THEN 0 ELSE f[k-1]) IN f[b-1]
Layout(occ, chan) ==
  IF \E b \in Boards : Before(occ, b) <= chan /\ chan < Before(occ, b) + occ[b]
    THEN LET b == CHOOSE x \in Boards :
                    Before(occ, x) <= chan /\ chan < Before(occ, x) + occ[x]
         IN [board |-> b, dsp |-> chan - Before(occ, b),
             mon |-> IF dir = "tx" THEN 2 * (b - 1) + chan - Before(occ, b) ELSE 0]
    ELSE Unbound

(* Every channel the last get_rx_stream / get_tx_stream bound went to    *)
(* the board, DSP and (for TX) flow-control monitor the layout gives it, *)
(* for the occupancy in force when it was called (spec.md: bindings are  *)
(* built at session open and not changed by a later subdev spec).       *)
BindingMatchesLayout ==
  \A k \in DOMAIN bound :
    bound[k] # Unbound => bound[k] = Layout(open_occ, request[k])

(* The frontend FRONT_SW value sw routes to DSP d. *)
RoutedFe(sw, d) == IF sw = 0 THEN d ELSE 1 - d

(* The subdev-spec handlers leave every DSP a board's current spec uses *)
(* routed by the front switch to the frontend of the daughterboard the   *)
(* spec names for it, its IQ mux and that frontend's mux carrying that   *)
(* daughterboard's connection and swap flag, and the occupancy the       *)
(* channel loops walk equal to the spec's size, although the switch is   *)
(* chosen from spec[0] alone.                                            *)
SubdevRouting ==
  \A b \in Boards :
    /\ rx_occ[b] = Len(rx_spec[b]) /\ tx_occ[b] = Len(tx_spec[b])
    /\ \A i \in DOMAIN rx_spec[b] :
         LET conn == FeConn[rx_spec[b][i]]
             fe == FeNum(rx_spec[b][i])
         IN /\ RoutedFe(rx_front_sw[b], i-1) = fe
            /\ rx_dsp_mux[b][i-1] = [conn |-> conn, swapped |-> Swapped(conn)]
            /\ rx_fe_mux[b][fe] = Swapped(conn)
    /\ \A i \in DOMAIN tx_spec[b] :
         LET fe == FeNum(tx_spec[b][i])
         IN /\ RoutedFe(tx_front_sw[b], i-1) = fe
            /\ tx_fe_mux[b][fe] = FeConn[tx_spec[b][i]]

(* spec.md 4.5: a channel index no board provides is rejected            *)
(* (ChannelOutOfRange) when the streamer is made, so every channel of a  *)
(* streamer that was made is bound.                                      *)
EveryChannelBound ==
  \A k \in DOMAIN bound : bound[k] # Unbound
=============================================================================
