------------------------------- MODULE LmsSpi -------------------------------
(***************************************************************************)
(* LMS transceiver register access of src/host/lib/usrp/umtrx/             *)
(* umtrx_impl.cpp: read_addr, write_addr and write_n_check build a 16-bit  *)
(* SPI word and send it through every board's iface (writes) or the first  *)
(* board's (reads).  The LMS chips are the environment: a 16-bit transfer  *)
(* whose top bit is set writes the low byte into the register named by the *)
(* next seven bits; otherwise the register named by those bits is shifted  *)
(* back out in the low byte.  The clock edge argument selects the SPI      *)
(* configuration and does not change the data in the model.                *)
(***************************************************************************)
EXTENDS Naturals

CONSTANTS
  NumBoards,   \* motherboards in _mbc, in key order
  Addrs,       \* uint8_t register addresses the caller may pass
  Data         \* uint8_t values the caller may write

Boards == 1..NumBoards
Chips == {1, 2}                     \* the two LMS chips of a board
RegAddrs == 0..127                  \* 7-bit register addresses

VARIABLES
  regs,        \* per board and chip: register file (registers in Addrs only)
  last         \* value returned by the last read_addr / write_n_check

vars == <<regs, last>>

Kept == Addrs \cap RegAddrs         \* registers the model tracks

TypeOK ==
  /\ regs \in [Boards -> [Chips -> [Kept -> Data]]]
  /\ last \in 0..65535

-----------------------------------------------------------------------------
(* The chip's side of one 16-bit transfer of word cmd: a write when bit 15 *)
(* is set (SpiWrite gives the new register file), else a read (SpiRead    *)
(* gives the word shifted back, the register in the low byte).            *)
SpiWrite(file, cmd) ==
  LET a == (cmd \div 256) % 128 IN
  IF cmd >= 32768 /\ a \in Kept THEN [file EXCEPT ![a] = cmd % 256] ELSE file
SpiRead(file, cmd) ==
  LET a == (cmd \div 256) % 128 IN
  IF cmd < 32768 /\ a \in Kept THEN file[a] ELSE 0

(* Fault variant of the write word: the address not shifted past the data *)
(* byte.                                                                  *)
WriteCommandUnshifted(addr, data) == (128 + addr) * 128 + data

(* write_addr: ((0x80 | addr) << 8) | data *)
WriteCommand(addr, data) == (128 + addr) * 256 + data

(* Fault variant of the read word: the address not shifted. *)
ReadCommandUnshifted(addr) == addr

(* read_addr: addr << 8 *)
ReadCommand(addr) == addr * 256

(* write_addr(lms, addr, data, rise): for addr < 128, the write word goes *)
(* to chip lms of every board ("write into all possible places"); a       *)
(* larger address is ignored.                                             *)
Written(lms, addr, data) ==
  IF addr < 128
    THEN [b \in Boards |-> [regs[b] EXCEPT ![lms] =
                              SpiWrite(@, WriteCommand(addr, data))]]
    ELSE regs

(* read_addr(lms, addr, rise) on register file f: 0 for addr > 127, else  *)
(* the read word of the first board of _mbc.keys() ("ignore everything    *)
(* after 1st call").                                                      *)
ReadFrom(f, lms, addr) ==
  IF addr > 127 THEN 0 ELSE SpiRead(f[1][lms], ReadCommand(addr))

WriteAddr(lms, addr, data) ==
  /\ regs' = Written(lms, addr, data)
  /\ UNCHANGED last

ReadAddr(lms, addr) ==
  /\ last' = ReadFrom(regs, lms, addr)
  /\ UNCHANGED regs

(* write_n_check: write_addr, then read_addr of the same register. *)
WriteNCheck(lms, addr, data) ==
  /\ regs' = Written(lms, addr, data)
  /\ last' = ReadFrom(regs', lms, addr)

(* The chips come out of reset with the same register contents. *)
Init ==
  /\ \E f \in [Chips -> [Kept -> Data]] : regs = [b \in Boards |-> f]
  /\ last = 0

Next ==
  \E lms \in Chips, addr \in Addrs :
    \/ \E data \in Data : WriteAddr(lms, addr, data)
    \/ ReadAddr(lms, addr)
    \/ \E data \in Data : WriteNCheck(lms, addr, data)

Spec == Init /\ [][Next]_vars

-----------------------------------------------------------------------------
(* write_n_check reads back exactly the byte it wrote when the address is *)
(* a 7-bit register address, and 0 otherwise: the write and read words    *)
(* built by write_addr and read_addr address the same register, the write *)
(* flag does not leak into the address, and the write reached the board  *)
(* the read is taken from.                                                *)
WriteNCheckEchoes ==
  [][\A lms \in Chips, addr \in Addrs, data \in Data :
       WriteNCheck(lms, addr, data) =>
         last' = IF addr < 128 THEN data ELSE 0]_vars
=============================================================================
