-------------------------------- MODULE Dma --------------------------------
(***************************************************************************)
(* dma_start of src/src/dma.c, as an operator on one of the two 8237       *)
(* controllers.  Its registers are eight bits wide: the 16 bits of an      *)
(* address or a count go through one port, half by half, and one flip-flop *)
(* of the controller says which half is next, whatever the register.       *)
(* Channel n is written to the controller as it is: bit 2 of what goes to  *)
(* the mask port says mask, so that channels 4 to 7 are masked and never   *)
(* released.  The mode and the addresses of the ports are left out.        *)
(***************************************************************************)
EXTENDS Integers

Byte == 0..255

\* masked: the channels (0 to 3) that do not transfer; high: the flip-flop.
\* The other registers are those of the one channel that is used.
Controllers == [masked : SUBSET (0..3), high : BOOLEAN, page : Byte,
                address : [{"low", "high"} -> Byte], count : [{"low", "high"} -> Byte]]

WriteMask(c, byte) ==
  [c EXCEPT !.masked = IF (byte \div 4) % 2 = 1 THEN @ \cup {byte % 4} ELSE @ \ {byte % 4}]

WriteHalf(c, register, byte) ==
  [c EXCEPT ![register] = [@ EXCEPT ![IF c.high THEN "high" ELSE "low"] = byte],
            !.high = ~c.high]

ClearFlipFlop(c) == [c EXCEPT !.high = FALSE]

\* A plausible slip: the flip-flop is taken to be clear.
DmaStartUncleared(c, channel, length) ==
  LET disabled == WriteMask(c, channel + 4)
      addressed == [WriteHalf(disabled, "address", 0) EXCEPT !.page = channel]
      low == WriteHalf(addressed, "count", length % 256)
  IN  WriteMask(WriteHalf(low, "count", (length \div 256) % 256), channel)

\* The address asked for is only compared with NULL.  One half of the address
\* is written, so that the low byte of the count goes to the high half.
DmaStart(c, channel, length) ==
  LET disabled == WriteMask(c, IF channel < 4 THEN channel + 4 ELSE channel)
      addressed == [WriteHalf(ClearFlipFlop(disabled), "address", 0) EXCEPT !.page = channel]
      low == WriteHalf(addressed, "count", length % 256)
  IN  WriteMask(WriteHalf(low, "count", (length \div 256) % 256), channel)
=============================================================================
