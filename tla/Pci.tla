-------------------------------- MODULE Pci --------------------------------
(***************************************************************************)
(* PCI::ScanBus and FindDevice (hardware/pci.cpp).  Buses and devices are  *)
(* one row of slots, scanned in order; a function that answers is its      *)
(* <<slot, function>>.  The scan fills an array of MAX_DEVICES entries on  *)
(* the stack.  The flag that decides whether more functions are looked at  *)
(* is read from the entry behind the one just filled, which nothing has    *)
(* written: it may hold anything.                                          *)
(***************************************************************************)
EXTENDS Naturals, Sequences, FiniteSets

CONSTANTS
    Slots,          \* number of device slots: PCI_NUM_BUSES * PCI_NUM_DEVICES
    Functions,      \* PCI_NUM_FUNCTIONS
    MAX_DEVICES,
    Wanted          \* the functions of the device FindDevice looks for

ASSUME PciAssumption ==
    Slots \in Nat \ {0} /\ Functions \in Nat \ {0} /\ MAX_DEVICES \in Nat \ {0}

Address == (0..Slots - 1) \X (0..Functions - 1)

VARIABLES
    answers,        \* the functions that answer on this machine
    slot, function, \* the address under examination
    tempDevices,    \* the entries filled so far
    devices,        \* the list ScanBus left behind
    scanning,       \* ScanBus: "device", "function", "done"
    found           \* what FindDevice returned

pci == <<answers, slot, function, tempDevices, devices, scanning, found>>

PciInit ==
    /\ slot = 0 /\ function = 0
    /\ tempDevices = <<>> /\ devices = <<>>
    /\ scanning = "device"
    /\ found = {}

devCount == Len(tempDevices)
GetDevice == <<slot, function>> \in answers

(* Mutation: one device too many.                                          *)
OneMore(n) == n <= MAX_DEVICES

MoreFit(n) == n < MAX_DEVICES

(* Mutation: the slot behind a device is skipped.                          *)
SkipSlot == slot' = slot + 2 /\ function' = 0

NextSlot == slot' = slot + 1 /\ function' = 0

(* Function 0 of a slot, with the flag found in the entry behind it.       *)
ScanDevice(flag) ==
    /\ scanning = "device" /\ slot < Slots /\ MoreFit(devCount)
    /\ tempDevices' = IF GetDevice THEN Append(tempDevices, <<slot, function>>)
                      ELSE tempDevices
    /\ IF GetDevice /\ MoreFit(devCount + 1) /\ flag
       THEN scanning' = "function" /\ function' = 1 /\ UNCHANGED slot
       ELSE NextSlot /\ UNCHANGED scanning
    /\ UNCHANGED <<answers, devices, found>>

(* The do-while over the other functions ends at the first that is silent. *)
ScanFunction ==
    /\ scanning = "function"
    /\ LET filled == function < Functions /\ GetDevice
       IN  /\ tempDevices' = IF filled THEN Append(tempDevices, <<slot, function>>)
                             ELSE tempDevices
           /\ IF filled /\ MoreFit(devCount + 1)
              THEN function' = function + 1 /\ UNCHANGED <<slot, scanning>>
              ELSE NextSlot /\ scanning' = "device"
    /\ UNCHANGED <<answers, devices, found>>

(* All slots seen, or maxDevicesReached.                                   *)
ScanDone ==
    /\ scanning = "device"
    /\ slot >= Slots \/ ~MoreFit(devCount)
    /\ devices' = tempDevices
    /\ scanning' = "done"
    /\ UNCHANGED <<answers, slot, function, tempDevices, found>>

Scan == ScanFunction \/ ScanDone \/ \E flag \in BOOLEAN : ScanDevice(flag)

(* The first entry that matches.                                           *)
FindDevice ==
    LET matches == {n \in 1..Len(devices) : devices[n] \in Wanted}
    IN  /\ found' = {devices[n] : n \in {m \in matches : \A k \in matches : m <= k}}
        /\ UNCHANGED <<answers, slot, function, tempDevices, devices, scanning>>

-----------------------------------------------------------------------------
PciTypeOK ==
    /\ answers \subseteq Address
    /\ slot \in Nat /\ function \in 0..Functions
    /\ tempDevices \in Seq(Address) /\ devCount <= MAX_DEVICES
    /\ devices \in Seq(Address)
    /\ scanning \in {"device", "function", "done"}
    /\ found \subseteq Address

(* "Scan the bus for any devices present": the list holds functions that   *)
(* answered, each once and in the order of their addresses, and no device  *)
(* before the last one listed, nor any device unless the list is full, is  *)
(* left out.                                                               *)
Before(a, b) == a[1] < b[1] \/ (a[1] = b[1] /\ a[2] < b[2])
ScanIsFaithful ==
    scanning = "done" =>
        /\ \A n \in 1..Len(devices) : devices[n] \in answers
        /\ \A n, k \in 1..Len(devices) : n < k => Before(devices[n], devices[k])
        /\ \A a \in answers :
              a[2] = 0 =>
                 \/ \E n \in 1..Len(devices) : devices[n] = a
                 \/ Len(devices) = MAX_DEVICES /\ Before(devices[MAX_DEVICES], a)

(* "if device is multifunction, keep getting next function": when the list *)
(* has room left, every function up to the first silent one is listed.     *)
FunctionsListed ==
    scanning = "done" /\ Len(devices) < MAX_DEVICES =>
        \A a \in answers :
            (\A f \in 0..a[2] : <<a[1], f>> \in answers) =>
                \E n \in 1..Len(devices) : devices[n] = a

(* The flag is wrong only where it is read from: one read from the device  *)
(* just found would say that there is more, wherever there is a function 1. *)
ReadsOwnFlag ==
    ScanDevice(FALSE) /\ GetDevice /\ MoreFit(devCount + 1) => <<slot, 1>> \notin answers
=============================================================================
