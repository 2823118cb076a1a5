------------------------------- MODULE MCSvga -------------------------------
(***************************************************************************)
(* Instance of SvgaDevice: one machine per way its bring-up can go.        *)
(***************************************************************************)
EXTENDS SvgaDevice

(* The FIFO's address as its base address register holds it: registers 0   *)
(* and 1 are the ports and the framebuffer.                                *)
Low == 4096
High == 3 * UpperHalf + Low
FunctionAt(fifoBar, upper) ==
    [headerType |-> 0,
     bars |-> [i \in 0..5 |-> CASE i = 0 -> 8192 + 1 [] i = 1 -> 16384 + 8
                                [] i = 2 -> fifoBar [] i = 3 -> upper [] OTHER -> 0]]
Memory32 == FunctionAt(Low, 0)
Memory64 == FunctionAt(Low + 4, 3)

Workstation ==
    [present |-> TRUE, supports |-> Versions, first |-> 1, irqmask |-> TRUE, fences |-> TRUE,
     line |-> "timer", spare |-> TRUE, fifo |-> Low, function |-> Memory32]
Qemu == [Workstation EXCEPT !.irqmask = FALSE]

MCCards ==
    {Workstation, Qemu,
     [Workstation EXCEPT !.line = "free", !.fifo = High, !.function = Memory64],
     [Workstation EXCEPT !.fences = FALSE],
     [Qemu EXCEPT !.line = "taken", !.supports = {0, 1}, !.first = 0],
     [Qemu EXCEPT !.supports = {0}, !.first = 0],
     [Qemu EXCEPT !.supports = {}, !.first = 7, !.line = "free"],
     [Qemu EXCEPT !.spare = FALSE],
     [Qemu EXCEPT !.present = FALSE]}
=============================================================================
