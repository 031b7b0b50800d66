----------------------------- MODULE UmtrxDevice -----------------------------
(***************************************************************************)
(* The umtrx_impl device object of src/host/lib/usrp/umtrx/umtrx_impl.cpp, *)
(* from its constructor to its destructor, with the LMS register access   *)
(* of the LmsSpi module available while it is open.                       *)
(*   - the constructor negotiates the frame size: determine_mtu on every  *)
(*     device address, keeping the minimum, unless one of them throws      *)
(*     not_implemented_error, which leaves the user's frame size;          *)
(*   - for every board in turn it checks the FPGA compatibility number     *)
(*     (throwing on a mismatch), locks the board, makes the GPSDO control  *)
(*     when the EEPROM says "internal" and turns on the device's           *)
(*     flow-control updates (set_updates);                                 *)
(*   - post-init sets each board's time source to "none", or "external"    *)
(*     when its GPSDO is there and detected;                               *)
(*   - the destructor turns the updates off board by board inside one      *)
(*     UHD_SAFE_CALL, so an exception ends the loop.                       *)
(* The boards' answers (compatibility number, MTU, GPSDO) are the          *)
(* environment, chosen in Init.  io_init is commented out in this file     *)
(* (448); the streaming engine is the subject of the other modules.       *)
(***************************************************************************)
EXTENDS Naturals, FiniteSets

CONSTANTS
  NumBoards,    \* device addresses given, one motherboard each
  Addrs, Data,  \* LMS register access, as in LmsSpi
  FpgaCompat,   \* USRP2_FPGA_COMPAT_NUM
  Images,       \* U2_REG_COMPAT_NUM_RB values a board may return
  Mtus,         \* send MTUs determine_mtu may report (all <= UserMtu)
  UserMtu,      \* the "send_frame_size" argument or udp_simple::mtu
  NotImpl       \* determine_mtu threw not_implemented_error

VARIABLES
  regs, last,   \* LmsSpi: the LMS register files and the last value read
  phase,        \* "mtu", "boards", "post", "open", "closing", "closed",
                \* "failed" (the constructor threw)
  k,            \* the board (device address) the current loop is at
  mtu,          \* the minimum send MTU so far
  frame,        \* device_addr["send_frame_size"] once negotiated
  locked,       \* boards lock_device(true) was called on
  updates,      \* boards whose tx_dsp sends flow-control updates
  gps,          \* per board: "none", or the gps_ctrl's "detected"/"silent"
  time_src,     \* per board: time_source/value ("unset" before post-init)
  compat, answer, gpsdo  \* environment: per board its answers

L == INSTANCE LmsSpi

dev == <<phase, k, mtu, frame, locked, updates, gps, time_src>>
env == <<compat, answer, gpsdo>>
vars == <<regs, last, dev, env>>

Boards == 1..NumBoards
GpsKinds == {"none", "detected", "silent"}

TypeOK ==
  /\ L!TypeOK
  /\ phase \in {"mtu", "boards", "post", "open", "closing", "closed", "failed"}
  /\ k \in 1..NumBoards + 1
  /\ mtu \in Mtus \cup {UserMtu} /\ frame \in Mtus \cup {UserMtu}
  /\ locked \subseteq Boards /\ updates \subseteq Boards
  /\ gps \in [Boards -> GpsKinds]
  /\ time_src \in [Boards -> {"unset", "none", "external"}]
  /\ compat \in [Boards -> Images]
  /\ answer \in [Boards -> Mtus \cup {NotImpl}]
  /\ gpsdo \in [Boards -> GpsKinds]

-----------------------------------------------------------------------------
(* The compatibility check reads the major number from the high half of  *)
(* the register, or, in the old scheme (high half 0), from the low half. *)
(* Fault variant: the old scheme is not recognised.                     *)
FpgaMajorNewOnly(num) == (num \div 65536) % 65536

FpgaMajor(num) ==
  LET major == (num \div 65536) % 65536
      minor == num % 65536
  IN IF major = 0 THEN minor ELSE major

(* One pass of the MTU loop: device 1 gives the first value, every later *)
(* device's value is folded in with std::min; not_implemented_error      *)
(* leaves the try block, keeping the user's frame size.                   *)
(* Fault variant: the later device's value replaces the minimum.          *)
MtuStepNoMin ==
  /\ phase = "mtu" /\ k <= NumBoards
  /\ IF answer[k] = NotImpl
       THEN phase' = "boards" /\ k' = 1 /\ frame' = UserMtu /\ UNCHANGED mtu
       ELSE /\ mtu' = answer[k]
            /\ k' = k + 1 /\ UNCHANGED <<phase, frame>>
  /\ UNCHANGED <<regs, last, locked, updates, gps, time_src, env>>

MtuStep ==
  /\ phase = "mtu" /\ k <= NumBoards
  /\ IF answer[k] = NotImpl
       THEN phase' = "boards" /\ k' = 1 /\ frame' = UserMtu /\ UNCHANGED mtu
       ELSE /\ mtu' = IF k = 1 \/ answer[k] < mtu THEN answer[k] ELSE mtu
            /\ k' = k + 1 /\ UNCHANGED <<phase, frame>>
  /\ UNCHANGED <<regs, last, locked, updates, gps, time_src, env>>

(* Every device answered: send_frame_size becomes the minimum. *)
MtuDone ==
  /\ phase = "mtu" /\ k = NumBoards + 1
  /\ phase' = "boards" /\ k' = 1 /\ frame' = mtu
  /\ UNCHANGED <<regs, last, mtu, locked, updates, gps, time_src, env>>

(* One pass of the board loop.  A wrong FPGA image throws runtime_error  *)
(* out of the constructor; the boards already locked and streaming       *)
(* updates stay so, since no destructor runs for an object whose        *)
(* constructor threw.                                                    *)
OpenBoard ==
  /\ phase = "boards" /\ k <= NumBoards
  /\ IF FpgaMajor(compat[k]) # FpgaCompat
       THEN phase' = "failed" /\ UNCHANGED <<k, locked, updates, gps>>
       ELSE /\ locked' = locked \cup {k}
            /\ gps' = [gps EXCEPT ![k] = gpsdo[k]]
            /\ updates' = updates \cup {k}
            /\ k' = k + 1 /\ UNCHANGED phase
  /\ UNCHANGED <<regs, last, mtu, frame, time_src, env>>

BoardsDone ==
  /\ phase = "boards" /\ k = NumBoards + 1
  /\ phase' = "post" /\ k' = 1
  /\ UNCHANGED <<regs, last, mtu, frame, locked, updates, gps, time_src, env>>

(* Post-init for one board: time_source "none", then "external" if      *)
(* _mbc[mb].gps.get() and gps_detected(); the last board opens the       *)
(* device.                                                               *)
PostInit ==
  /\ phase = "post"
  /\ time_src' = [time_src EXCEPT ![k] =
                    IF gps[k] = "detected" THEN "external" ELSE "none"]
  /\ IF k = NumBoards THEN phase' = "open" /\ k' = k
                      ELSE k' = k + 1 /\ UNCHANGED phase
  /\ UNCHANGED <<regs, last, mtu, frame, locked, updates, gps, env>>

(* read_addr, write_addr, write_n_check on the open device. *)
LmsAccess ==
  /\ phase = "open"
  /\ L!Next
  /\ UNCHANGED <<dev, env>>

(* ~umtrx_impl: set_updates(0, 0) on every board; a throw from one of    *)
(* them is swallowed by UHD_SAFE_CALL and ends the loop.                 *)
BeginClose ==
  /\ phase = "open"
  /\ phase' = "closing" /\ k' = 1
  /\ UNCHANGED <<regs, last, mtu, frame, locked, updates, gps, time_src, env>>

(* Fault variant: the loop bound is off by one, so the loop steps past   *)
(* the last board.                                                       *)
CloseBoardPastEnd ==
  /\ phase = "closing"
  /\ \/ /\ k <= NumBoards + 1
        /\ updates' = updates \ {k}
        /\ k' = k + 1 /\ UNCHANGED phase
     \/ /\ k <= NumBoards
        /\ phase' = "closed" /\ UNCHANGED <<k, updates>>
     \/ /\ k = NumBoards + 1
        /\ phase' = "closed" /\ UNCHANGED <<k, updates>>
  /\ UNCHANGED <<regs, last, mtu, frame, locked, gps, time_src, env>>

CloseBoard ==
  /\ phase = "closing"
  /\ \/ /\ k <= NumBoards
        /\ updates' = updates \ {k}
        /\ k' = k + 1 /\ UNCHANGED phase
     \/ /\ k <= NumBoards          \* the poke throws
        /\ phase' = "closed" /\ UNCHANGED <<k, updates>>
     \/ /\ k = NumBoards + 1
        /\ phase' = "closed" /\ UNCHANGED <<k, updates>>
  /\ UNCHANGED <<regs, last, mtu, frame, locked, gps, time_src, env>>

Init ==
  /\ L!Init
  /\ phase = "mtu" /\ k = 1
  /\ mtu = UserMtu /\ frame = UserMtu
  /\ locked = {} /\ updates = {}
  /\ gps = [b \in Boards |-> "none"]
  /\ time_src = [b \in Boards |-> "unset"]
  /\ compat \in [Boards -> Images]
  /\ answer \in [Boards -> Mtus \cup {NotImpl}]
  /\ gpsdo \in [Boards -> GpsKinds]

Next ==
  \/ MtuStep \/ MtuDone \/ OpenBoard \/ BoardsDone \/ PostInit
  \/ LmsAccess \/ BeginClose \/ CloseBoard

Spec == Init /\ [][Next]_vars

-----------------------------------------------------------------------------
(* The compatibility the code means: an old-scheme image (high half 0)   *)
(* carries its number in the low half, a new-scheme image in the high    *)
(* half.                                                                 *)
Compatible(num) ==
  IF num < 65536 THEN num = FpgaCompat ELSE num \div 65536 = FpgaCompat

(* The device opens exactly when every board runs a compatible FPGA      *)
(* image: the constructor gets past the board loop only if no board's    *)
(* compatibility check threw, and it throws only on an incompatible      *)
(* image, whichever numbering scheme each board's image uses.  When it   *)
(* throws, it does so at the first incompatible board, and exactly the   *)
(* boards before it are left locked and sending flow-control updates.    *)
OpensOnlyCompatible ==
  /\ phase \in {"post", "open", "closing", "closed"} =>
       \A b \in Boards : Compatible(compat[b])
  /\ phase = "failed" =>
       /\ ~Compatible(compat[k])
       /\ \A b \in 1..k-1 : Compatible(compat[b])
       /\ locked = 1..k-1 /\ updates = 1..k-1

(* When every device answered determine_mtu, the send frame size every   *)
(* board's transports and set_updates use fits every device: it is the   *)
(* smallest MTU reported, carried across the whole loop.                 *)
FrameSizeFitsEveryDevice ==
  (phase # "mtu" /\ \A b \in Boards : answer[b] # NotImpl) =>
    /\ \A b \in Boards : frame <= answer[b]
    /\ \E b \in Boards : frame = answer[b]

(* LmsSpi's property holds for the register access of the open device. *)
WriteNCheckEchoes == L!WriteNCheckEchoes
=============================================================================
