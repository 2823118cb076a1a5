-------------------------------- MODULE Bars --------------------------------
(***************************************************************************)
(* PCI::SetDeviceEnabled and PCI::GetDeviceBAR (hardware/pci.cpp): what a  *)
(* function answers to, and what its base address registers say.  A        *)
(* function is [headerType, bars]: the registers from offset 0x10 on, as   *)
(* numbers whose low bits hold the kind of the region and the rest its     *)
(* address.                                                                *)
(***************************************************************************)
EXTENDS Integers

PCI_BAR_MEMORY_TYPE_32 == 0
PCI_BAR_MEMORY_TYPE_16 == 1
PCI_BAR_MEMORY_TYPE_64 == 2

Above64K == 65536       \* the address bits a 16-bit region does not have
UpperHalf == 65536      \* weight of the register behind a 64-bit one

CommandFlags == {"io", "memory", "master"}

SetDeviceEnabled(command, enable) ==
    IF enable THEN command \cup CommandFlags ELSE command \ CommandFlags

NumBARs(f) == 6 - 4 * f.headerType

IsIoSpace(content) == content % 2 = 1

MemoryType(content) == (content \div 2) % 4

(* Mutation: the register behind a 64-bit one is not read.                 *)
IgnoresUpperHalf(f, index, kept) ==
    IF index >= NumBARs(f) THEN kept ELSE f.bars[index] - (f.bars[index] % 16)

(* The answer of GetDeviceBAR, or what bar held before (kept) if there is  *)
(* no such register or its kind is reserved.                               *)
GetDeviceBAR(f, index, kept) ==
    IF index >= NumBARs(f) THEN kept
    ELSE LET content == f.bars[index]
             base == content - (content % 16)
             type == MemoryType(content)
         IN  CASE IsIoSpace(content) -> content - (content % 4)
               [] ~IsIoSpace(content) /\ type = PCI_BAR_MEMORY_TYPE_16 -> base % Above64K
               [] ~IsIoSpace(content) /\ type = PCI_BAR_MEMORY_TYPE_32 -> base
               [] ~IsIoSpace(content) /\ type = PCI_BAR_MEMORY_TYPE_64 ->
                      f.bars[index + 1] * UpperHalf + base
               [] OTHER -> kept
=============================================================================
