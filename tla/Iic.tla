--------------------------------- MODULE Iic ---------------------------------
(***************************************************************************)
(* The I2C master (app_driver/bus/iic.c).  Every function makes one        *)
(* transfer and only logs its failure: no memory for the copy of the       *)
(* buffer, no device handle, no answer from the chip, or a transfer that   *)
(* breaks off.  The caller goes on with a register that was not written,   *)
(* or with a buffer that was not, or only partly, filled.                  *)
(***************************************************************************)
EXTENDS Naturals, Sequences

\* The chip's registers after a write of which it took the first bytes.
IIC_Write_Buf(regs, first, bytes, taken) ==
  [a \in DOMAIN regs |-> IF a \in first..(first + taken - 1)
                         THEN bytes[a - first + 1] ELSE regs[a]]

\* The caller's buffer after a read of which it got the first bytes.
IIC_Read_Buf(regs, first, buf, got) ==
  [i \in DOMAIN buf |-> IF i <= got THEN regs[first + i - 1] ELSE buf[i]]

IIC_Write_Reg(reg, val, ok) == IF ok THEN val ELSE reg
IIC_Read_Reg(reg, val, ok) == IF ok THEN reg ELSE val
==============================================================================
