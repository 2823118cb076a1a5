----------------------------- MODULE BootProofs -----------------------------
(***************************************************************************)
(* Proofs about the console under Boot: for every screen, every text and   *)
(* every keystroke between two steps of printf, the cursor is on the       *)
(* screen when a character is printed, and writes stay in bounds.          *)
(***************************************************************************)
EXTENDS MultibootProofs, SequenceTheorems, FiniteSetTheorems, WellFoundedInduction

(* Where the cursor may be off the screen, and what the register then      *)
(* holds: past the line only before Wrap, which will see it in r; below    *)
(* the screen only before Bottom, which will see it in r, or before        *)
(* ClearY.  In the middle of a character there is one to be dropped.       *)
CursorInv ==
    /\ x < SCREEN_WIDTH \/ (at = "wrap" /\ r >= SCREEN_WIDTH)
    /\ y < SCREEN_HEIGHT \/ (at = "bottom" /\ r >= SCREEN_HEIGHT) \/ at = "clearY"
    /\ at \in {"storeX", "wrap"} => r <= SCREEN_WIDTH
    /\ at \in {"storeY", "bottom"} => r <= SCREEN_HEIGHT
    /\ at \notin {"idle", "character"} => text # <<>>

(* How far kernelMain is determines which drivers are registered.         *)
MainInv ==
    /\ stage \in {"parse", "register", "scan", "load", "svga", "bringUp", "spin"}
    /\ stage = "parse" => drivers = <<>>
    /\ stage = "register" => drivers \in {<<>>, <<"keyboard">>}
    /\ stage \notin {"parse", "register"} => drivers = Wired
    /\ loaded \in Seq(Names) /\ keys \in 0..MaxKeys /\ returns \in BOOLEAN
    /\ i \in 1..3 /\ part \in 1..4
    /\ part # 1 => i <= 2

ConsoleInv == ConsoleTypeOK /\ CursorInv /\ WritesInBounds

-----------------------------------------------------------------------------
(* A cell of line l lies before the first cell of line l + 1, and that one *)
(* not behind the first cell of any later line.                            *)
LEMMA CellInLine ==
    ASSUME NEW w \in Nat, NEW c \in Nat, NEW l \in Nat, NEW h \in Nat,
           c < w, l < h
    PROVE  w * l + c < w * h
<1>1. PICK d \in Nat : h = l + 1 + d
  <2>1. h - l - 1 \in Nat /\ h = l + 1 + (h - l - 1) OBVIOUS
  <2> QED BY <2>1
<1>2. w * h = w * l + w + w * d BY <1>1
<1>3. w * d \in Nat /\ w * l \in Nat OBVIOUS
<1> QED BY <1>2, <1>3

(* onKeyDown keeps the invariant wherever printf was interrupted.          *)
LEMMA KeyKeepsCursor ==
    ASSUME ConsoleInv, KeyDown
    PROVE  ConsoleTypeOK' /\ CursorInv' /\ WritesInBounds'
<1>a. ConsoleTypeOK /\ CursorInv /\ WritesInBounds BY DEF ConsoleInv
<1> USE <1>a, ConsoleAssumption
<1> DEFINE W == SCREEN_WIDTH
           H == SCREEN_HEIGHT
<1>0. x \in Nat /\ y \in Nat /\ W \in Nat /\ H \in Nat /\ W # 0 /\ H # 0
  BY DEF ConsoleTypeOK
<1>1. ASSUME NEW c \in Nat, NEW l \in Nat, c < W \/ (c = W /\ l < H), l <= H
      PROVE  W * l + c < W * (H + 1) /\ W * l + c \in Nat
  <2>1. CASE c < W BY <2>1, <1>1, <1>0, CellInLine, H + 1 \in Nat, l < H + 1
  <2>2. CASE c = W
    <3>1. W * l + c = W * (l + 1) BY <2>2, <1>0, <1>1
    <3>2. 0 < W /\ 0 \in Nat /\ l + 1 \in Nat /\ H + 1 \in Nat /\ l + 1 < H + 1 BY <2>2, <1>0, <1>1
    <3>3. W * (l + 1) + 0 < W * (H + 1) BY <3>2, <1>0, CellInLine
    <3> HIDE DEF W, H
    <3> QED BY <3>1, <3>3, <1>0, <1>1, W * (l + 1) \in Nat
  <2> QED BY <2>1, <2>2, <1>1
<1>2. CASE Erase
  <2>1. /\ x' \in Nat /\ y' \in Nat /\ x' < W /\ y' <= y
        /\ UNCHANGED <<text, at, r>>
        /\ cell' = [by |-> "key", index |-> W * y' + x']
    BY <1>0, <1>2 DEF Erase, LastColumn, ConsoleTypeOK, CursorInv, Here
  <2>2. y <= H BY DEF ConsoleTypeOK
  <2>3. W * y' + x' < W * (H + 1) /\ W * y' + x' \in Nat
    <3>1. y' <= H BY <2>1, <2>2, <1>0
    <3> HIDE DEF W, H
    <3> QED BY <3>1, <2>1, <1>1
  <2>4. CursorInv' BY <2>1, <1>0 DEF CursorInv, ConsoleTypeOK
  <2>5. ConsoleTypeOK'
    <3>1. cell' \in [by : {"main", "key"}, index : Nat] BY <2>1, <2>3
    <3>2. x' \in 0..W /\ y' \in 0..H BY <2>1, <2>2, <1>0
    <3> QED BY <3>1, <3>2, <2>1 DEF ConsoleTypeOK
  <2>6. WritesInBounds' BY <2>1, <2>3 DEF WritesInBounds
  <2> QED BY <2>4, <2>5, <2>6
<1>3. ASSUME NEW c \in Characters, PrintKey(c)
      PROVE  ConsoleTypeOK' /\ CursorInv' /\ WritesInBounds'
  <2>1. /\ x' \in Nat /\ y' \in Nat /\ x' < W /\ y' < H
        /\ UNCHANGED <<text, at, r>>
        /\ cell' = cell \/ cell' = [by |-> "key", index |-> W * y + x]
    BY <1>0, <1>3 DEF PrintKey, PastLine, PastScreen, ConsoleTypeOK, CursorInv, Here
  <2>2. W * y + x < W * (H + 1) /\ W * y + x \in Nat
    <3>1. y <= H /\ (x < W \/ (x = W /\ y < H)) BY <1>0 DEF ConsoleTypeOK, CursorInv
    <3> HIDE DEF W, H
    <3> QED BY <3>1, <1>0, <1>1
  <2>4. CursorInv' BY <2>1 DEF CursorInv
  <2>5. ConsoleTypeOK' BY <2>1, <2>2, <1>0 DEF ConsoleTypeOK
  <2>6. WritesInBounds' BY <2>1, <2>2 DEF WritesInBounds
  <2> QED BY <2>4, <2>5, <2>6
<1> QED BY <1>2, <1>3 DEF KeyDown

(* Each step of printf keeps it.                                           *)
LEMMA PrintKeepsCursor ==
    ASSUME ConsoleInv, PrintStep
    PROVE  ConsoleTypeOK' /\ CursorInv' /\ WritesInBounds'
<1>a. ConsoleTypeOK /\ CursorInv /\ WritesInBounds BY DEF ConsoleInv
<1> USE <1>a, ConsoleAssumption
<1>0. text # <<>> => Tail(text) \in Seq(Characters) BY DEF ConsoleTypeOK
<1>1. CASE PrintReturns
  BY <1>1 DEF PrintReturns, ConsoleTypeOK, CursorInv, WritesInBounds
<1>2. CASE Newline
  BY <1>2 DEF Newline, ConsoleTypeOK, CursorInv, WritesInBounds
<1>3. CASE Glyph
  <2>1. x \in Nat /\ y \in Nat /\ x < SCREEN_WIDTH /\ y < SCREEN_HEIGHT
    BY <1>3 DEF Glyph, ConsoleTypeOK, CursorInv
  <2>2. Here(x, y) < SCREEN_WIDTH * SCREEN_HEIGHT /\ Here(x, y) \in Nat
    BY <2>1, CellInLine DEF Here
  <2>3. /\ UNCHANGED <<x, y, text, r>> /\ at' = "loadX"
        /\ cell' = [by |-> "main", index |-> Here(x, y)]
        /\ text # <<>>
    BY <1>3 DEF Glyph
  <2>4. CursorInv' BY <2>1, <2>3 DEF CursorInv
  <2>5. ConsoleTypeOK' BY <2>2, <2>3 DEF ConsoleTypeOK
  <2>6. WritesInBounds' BY <2>2, <2>3 DEF WritesInBounds
  <2> QED BY <2>4, <2>5, <2>6
<1>4. CASE LoadX
  BY <1>4 DEF LoadX, ConsoleTypeOK, CursorInv, WritesInBounds
<1>5. CASE StoreX
  BY <1>5 DEF StoreX, ConsoleTypeOK, CursorInv, WritesInBounds
<1>6. CASE Wrap
  BY <1>6 DEF Wrap, PastLine, ConsoleTypeOK, CursorInv, WritesInBounds
<1>7. CASE LoadY
  BY <1>7 DEF LoadY, ConsoleTypeOK, CursorInv, WritesInBounds
<1>8. CASE StoreY
  BY <1>8 DEF StoreY, ConsoleTypeOK, CursorInv, WritesInBounds
<1>9. CASE Bottom
  <2>1. text' \in Seq(Characters)
    BY <1>0, <1>9 DEF Bottom, ConsoleTypeOK, CursorInv
  <2> QED BY <2>1, <1>9 DEF Bottom, PastScreen, ConsoleTypeOK, CursorInv, WritesInBounds
<1>10. CASE ClearY
  BY <1>10 DEF ClearY, ConsoleTypeOK, CursorInv, WritesInBounds
<1>11. CASE ClearX
  <2>1. text' \in Seq(Characters)
    BY <1>0, <1>11 DEF ClearX, ConsoleTypeOK, CursorInv
  <2> QED BY <2>1, <1>11 DEF ClearX, ConsoleTypeOK, CursorInv, WritesInBounds
<1> QED
  BY <1>1, <1>2, <1>3, <1>4, <1>5, <1>6, <1>7, <1>8, <1>9, <1>10, <1>11 DEF PrintStep

-----------------------------------------------------------------------------
LEMMA InitConsole == Init => ConsoleInv
<1> SUFFICES ASSUME Init PROVE ConsoleInv OBVIOUS
<1>1. ConsoleInit BY DEF Init
<1>2. <<>> \in Seq(Characters) OBVIOUS
<1>4. ConsoleTypeOK BY <1>1, <1>2, ConsoleAssumption DEF ConsoleInit, ConsoleTypeOK
<1>5. CursorInv BY <1>1, ConsoleAssumption DEF ConsoleInit, CursorInv
<1>6. WritesInBounds
  <2>1. SCREEN_WIDTH * 0 + 0 < SCREEN_WIDTH * SCREEN_HEIGHT
    BY CellInLine, ConsoleAssumption, 0 < SCREEN_WIDTH, 0 < SCREEN_HEIGHT
  <2> QED BY <2>1, <1>1, ConsoleAssumption DEF ConsoleInit, WritesInBounds
<1> QED BY <1>4, <1>5, <1>6 DEF ConsoleInv

LEMMA InitMain == Init => MainInv
BY BootAssumption DEF Init, MainInv

(* Every step of kernelMain keeps MainInv, and so do keys.                 *)
LEMMA NextKeepsMain == MainInv /\ [Next]_vars => MainInv'
<1> SUFFICES ASSUME MainInv, [Next]_vars PROVE MainInv' OBVIOUS
<1>1. CASE Parse BY <1>1 DEF Parse, MainInv
<1>2. CASE RegisterDrivers
  <2>1. drivers \in {<<>>, <<"keyboard">>} BY <1>2 DEF RegisterDrivers, MainInv
  <2>2. drivers' = <<"keyboard">> \/ drivers' = Wired
    <3>1. CASE drivers = <<>>
      BY <3>1, <1>2, Len(drivers) + 1 = 1, Append(<<>>, "keyboard") = <<"keyboard">>
      DEF RegisterDrivers, RegisterDriver, Wired
    <3>2. CASE drivers = <<"keyboard">>
      <4>1. drivers' = Append(drivers, "mouse") /\ drivers \in Seq(Names)
        BY <3>2, <1>2, Len(drivers) + 1 = 2
        DEF RegisterDrivers, RegisterDriver, Wired, Names
      <4>2. /\ drivers' \in Seq(Names) /\ Len(drivers') = 2
            /\ drivers'[1] = "keyboard" /\ drivers'[2] = "mouse"
        BY <4>1, <3>2 DEF Names
      <4>3. Wired \in Seq(Names) /\ Len(Wired) = 2
            /\ Wired[1] = "keyboard" /\ Wired[2] = "mouse"
        BY DEF Wired, Names
      <4> QED BY <4>2, <4>3, SeqEqual
    <3> QED BY <2>1, <3>1, <3>2
  <2> QED BY <2>2, <1>2 DEF RegisterDrivers, MainInv
<1>3. CASE ScanBus BY <1>3 DEF ScanBus, MainInv
<1>4. CASE Announce
  <2>1. drivers = Wired BY <1>4 DEF Announce, MainInv
  <2>2. Len(drivers) = 2 BY <2>1 DEF Wired
  <2>3. i <= 2 /\ part' \in 1..4 /\ UNCHANGED <<stage, drivers, i, loaded, returns, keys>>
    BY <2>2, <1>4 DEF Announce, MoreDrivers, MainInv
  <2> QED BY <2>3 DEF MainInv
<1>5. CASE Printing BY <1>5 DEF Printing, main, MainInv
<1>6. CASE LoadDriver
  <2>1. drivers = Wired /\ i \in 1..2 BY <1>6 DEF LoadDriver, MainInv
  <2>2. drivers[i] \in Names BY <2>1 DEF Wired, Names
  <2>3. loaded' \in Seq(Names) BY <2>2, <1>6 DEF LoadDriver, MainInv
  <2>4. i' \in 1..3 /\ part' = 1 BY <2>1, <1>6 DEF LoadDriver
  <2>5. UNCHANGED <<stage, drivers, returns, keys>> BY <1>6 DEF LoadDriver
  <2> QED BY <2>3, <2>4, <2>5 DEF MainInv
<1>7. CASE AllLoaded
  <2>1. /\ drivers = Wired /\ stage' = "svga"
        /\ UNCHANGED <<drivers, i, part, loaded, returns, keys>>
    BY <1>7 DEF AllLoaded, MainInv
  <2> QED BY <2>1 DEF MainInv
<1>8. CASE SvgaInit \/ SvgaReturns BY <1>8 DEF SvgaInit, SvgaReturns, MainInv
<1>9. CASE Key
  <2>1. keys' \in 0..MaxKeys BY <1>9, BootAssumption DEF Key, MainInv
  <2> QED BY <2>1, <1>9 DEF Key, main, MainInv
<1>10. CASE UNCHANGED vars BY <1>10 DEF vars, main, MainInv
<1> QED
  BY <1>1, <1>2, <1>3, <1>4, <1>5, <1>6, <1>7, <1>8, <1>9, <1>10
  DEF Next, KernelMain

(* Only Announce, Printing and Key touch the console.                      *)
LEMMA NextKeepsConsole == ConsoleInv /\ MainInv /\ [Next]_vars => ConsoleInv'
<1> SUFFICES ASSUME ConsoleInv, MainInv, [Next]_vars PROVE ConsoleInv' OBVIOUS
<1>a. ConsoleTypeOK /\ CursorInv /\ WritesInBounds BY DEF ConsoleInv
<1>1. CASE UNCHANGED console
  <2>1. ConsoleTypeOK' BY <1>a, <1>1 DEF console, ConsoleTypeOK
  <2>2. CursorInv' BY <1>a, <1>1 DEF console, CursorInv
  <2>3. WritesInBounds' BY <1>a, <1>1 DEF console, WritesInBounds
  <2> QED BY <2>1, <2>2, <2>3 DEF ConsoleInv
<1>2. CASE Announce
  <2>1. drivers = Wired /\ i \in 1..2 /\ part \in 1..3
    <3>1. drivers = Wired BY <1>2 DEF Announce, MainInv
    <3>2. Len(drivers) = 2 BY <3>1 DEF Wired
    <3> QED BY <3>1, <3>2, <1>2 DEF Announce, MoreDrivers, MainInv
  <2>2. drivers[i] \in Names BY <2>1 DEF Wired, Names
  <2>3. DisplayName[drivers[i]] \in Seq(Characters) BY <2>2, BootAssumption
  <2>4. <<"newline">> \in Seq(Characters)
    <3>1. "newline" \in Characters BY DEF Characters
    <3> QED BY <3>1
  <2>5. Announcement(drivers[i])[part] \in Seq(Characters)
    <3>1. CASE part = 1 BY <3>1, BootAssumption DEF Announcement
    <3>2. CASE part = 2 BY <3>2, <2>3 DEF Announcement
    <3>3. CASE part = 3 BY <3>3, <2>4 DEF Announcement
    <3> QED BY <2>1, <3>1, <3>2, <3>3
  <2>6. Printf(Announcement(drivers[i])[part]) BY <1>2 DEF Announce
  <2>7. /\ at = "idle" /\ at' = "character" /\ UNCHANGED <<x, y, r, cell>>
        /\ text' \in Seq(Characters)
    BY <2>5, <2>6 DEF Printf
  <2>8. ConsoleTypeOK' BY <1>a, <2>7 DEF ConsoleTypeOK
  <2>9. CursorInv' BY <1>a, <2>7 DEF CursorInv
  <2>10. WritesInBounds' BY <1>a, <2>7 DEF WritesInBounds
  <2> QED BY <2>8, <2>9, <2>10 DEF ConsoleInv
<1>3. CASE Printing BY <1>3, PrintKeepsCursor DEF Printing, ConsoleInv
<1>4. CASE Key BY <1>4, KeyKeepsCursor DEF Key, ConsoleInv
<1> QED
  BY <1>1, <1>2, <1>3, <1>4 DEF Next, KernelMain, Parse, RegisterDrivers, ScanBus,
     LoadDriver, AllLoaded, SvgaInit, SvgaReturns, vars

-----------------------------------------------------------------------------
(* ScanBus: the entries so far are functions that answered, in the order   *)
(* of their addresses, all before the address under examination, and no    *)
(* device before it is missing.                                            *)
Ordered(list) ==
    /\ \A n \in 1..Len(list) : list[n] \in answers
    /\ \A n, k \in 1..Len(list) : n < k => Before(list[n], list[k])

Complete(list) ==
    \A a \in answers :
        a[2] = 0 => \/ \E n \in 1..Len(list) : list[n] = a
                   \/ ~Before(a, <<slot, function>>)

ScanInv ==
    /\ PciTypeOK
    /\ scanning = "device" => function = 0
    /\ scanning = "function" => devCount < MAX_DEVICES /\ slot < Slots /\ function > 0
    /\ scanning = "done" => ScanIsFaithful
    /\ scanning # "done" =>
          /\ Ordered(tempDevices) /\ Complete(tempDevices)
          /\ \A n \in 1..devCount : Before(tempDevices[n], <<slot, function>>)

(* The order of addresses.                                                 *)
LEMMA BeforeIsTransitive ==
    ASSUME NEW a \in Nat \X Nat, NEW b \in Nat \X Nat, NEW c \in Nat \X Nat,
           Before(a, b), Before(b, c)
    PROVE  Before(a, c)
BY DEF Before

(* The address under examination, when it answers, may be listed next.     *)
LEMMA AppendKeepsOrder ==
    ASSUME ScanInv, scanning # "done", GetDevice
    PROVE  LET new == Append(tempDevices, <<slot, function>>)
           IN  /\ new \in Seq(Address) /\ Len(new) = devCount + 1
               /\ new[devCount + 1] = <<slot, function>>
               /\ \A n \in 1..devCount : new[n] = tempDevices[n]
               /\ Ordered(new)
<1> DEFINE new == Append(tempDevices, <<slot, function>>)
<1>1. tempDevices \in Seq(Address) /\ <<slot, function>> \in answers
      /\ <<slot, function>> \in Address
  BY DEF ScanInv, PciTypeOK, GetDevice
<1>2. /\ new \in Seq(Address) /\ Len(new) = devCount + 1
      /\ new[devCount + 1] = <<slot, function>>
      /\ \A n \in 1..devCount : new[n] = tempDevices[n]
  BY <1>1 DEF devCount
<1>3. Ordered(tempDevices) /\ \A n \in 1..devCount : Before(tempDevices[n], <<slot, function>>)
  BY DEF ScanInv
<1>4. devCount \in Nat BY <1>1 DEF devCount
<1> HIDE DEF new
<1>5. ASSUME NEW n \in 1..Len(new) PROVE new[n] \in answers
  <2>1. CASE n = devCount + 1 BY <2>1, <1>1, <1>2
  <2>2. CASE n \in 1..devCount BY <2>2, <1>2, <1>3 DEF Ordered, devCount
  <2> QED BY <2>1, <2>2, <1>2, <1>4
<1>6. ASSUME NEW n \in 1..Len(new), NEW k \in 1..Len(new), n < k
      PROVE  Before(new[n], new[k])
  <2>1. n \in 1..devCount BY <1>2, <1>4, <1>6
  <2>2. CASE k = devCount + 1 BY <2>1, <2>2, <1>2, <1>3
  <2>3. CASE k \in 1..devCount BY <2>1, <2>3, <1>2, <1>3, <1>6 DEF Ordered, devCount
  <2> QED BY <2>2, <2>3, <1>2, <1>4
<1>7. Ordered(new) BY <1>5, <1>6 DEF Ordered
<1> QED BY <1>2, <1>7 DEF new

LEMMA InitScan == Init => ScanInv
<1> SUFFICES ASSUME Init PROVE ScanInv OBVIOUS
<1>1. /\ answers \subseteq Address
      /\ slot = 0 /\ function = 0 /\ tempDevices = <<>> /\ devices = <<>>
      /\ scanning = "device" /\ found = {}
  BY BootAssumption DEF Init, PciInit
<1>2. <<>> \in Seq(Address) /\ Len(tempDevices) = 0 BY <1>1
<1>3. PciTypeOK BY <1>1, <1>2, PciAssumption DEF PciTypeOK, devCount
<1>4. Complete(tempDevices)
  <2>1. ASSUME NEW a \in answers PROVE ~Before(a, <<slot, function>>)
    BY <1>1 DEF Before, Address
  <2> QED BY <2>1 DEF Complete
<1>5. Ordered(tempDevices) BY <1>2 DEF Ordered
<1> QED BY <1>1, <1>2, <1>3, <1>4, <1>5 DEF ScanInv, devCount

(* Going on to a later address, with the one just examined listed if it    *)
(* answered, keeps what was listed ordered and complete.                   *)
LEMMA AdvanceKeepsList ==
    ASSUME ScanInv, scanning # "done", UNCHANGED answers,
           slot' \in Nat, function' \in Nat,
           \A a \in Nat \X Nat :
               Before(a, <<slot, function>>) \/ a = <<slot, function>> =>
                   Before(a, <<slot', function'>>),
           \/ GetDevice /\ tempDevices' = Append(tempDevices, <<slot, function>>)
           \/ UNCHANGED tempDevices,
           \A a \in answers :
               a[2] = 0 /\ Before(a, <<slot', function'>>) =>
                  \/ Before(a, <<slot, function>>)
                  \/ a = <<slot, function>> /\ tempDevices' = Append(tempDevices, <<slot, function>>)
    PROVE  /\ tempDevices' \in Seq(Address)
           /\ Len(tempDevices') = IF UNCHANGED tempDevices THEN devCount ELSE devCount + 1
           /\ Ordered(tempDevices)' /\ Complete(tempDevices)'
           /\ \A n \in 1..Len(tempDevices') : Before(tempDevices'[n], <<slot', function'>>)
<1>1. /\ slot \in Nat /\ function \in Nat /\ tempDevices \in Seq(Address)
      /\ answers \subseteq Address /\ Address \subseteq Nat \X Nat
      /\ devCount = Len(tempDevices) /\ devCount \in Nat
      /\ Ordered(tempDevices) /\ Complete(tempDevices)
      /\ \A n \in 1..devCount : Before(tempDevices[n], <<slot, function>>)
  <2>1. Address \subseteq Nat \X Nat BY PciAssumption DEF Address
  <2>2. PciTypeOK BY DEF ScanInv
  <2>3. /\ slot \in Nat /\ function \in Nat /\ tempDevices \in Seq(Address)
        /\ answers \subseteq Address /\ devCount = Len(tempDevices)
    BY <2>2, PciAssumption DEF PciTypeOK, devCount
  <2>4. devCount \in Nat BY <2>3
  <2>5. /\ Ordered(tempDevices) /\ Complete(tempDevices)
        /\ \A n \in 1..devCount : Before(tempDevices[n], <<slot, function>>)
    BY DEF ScanInv
  <2> QED BY <2>1, <2>3, <2>4, <2>5
<1>2. \A n \in 1..devCount :
          tempDevices[n] \in Nat \X Nat /\ Before(tempDevices[n], <<slot', function'>>)
  <2>1. \A n \in 1..devCount : tempDevices[n] \in Address BY <1>1
  <2> QED BY <2>1, <1>1
<1>3. CASE UNCHANGED tempDevices
  <2>1. tempDevices # Append(tempDevices, <<slot, function>>)
    <3>1. Len(Append(tempDevices, <<slot, function>>)) = Len(tempDevices) + 1 BY <1>1
    <3> QED BY <3>1, <1>1
  <2>2. Complete(tempDevices)' BY <1>1, <1>3, <2>1 DEF Complete
  <2>3. Ordered(tempDevices)' BY <1>1, <1>3 DEF Ordered
  <2> QED BY <1>1, <1>2, <1>3, <2>2, <2>3
<1>4. CASE GetDevice /\ tempDevices' = Append(tempDevices, <<slot, function>>)
  <2>1. /\ tempDevices' \in Seq(Address) /\ Len(tempDevices') = devCount + 1
        /\ tempDevices'[devCount + 1] = <<slot, function>>
        /\ \A n \in 1..devCount : tempDevices'[n] = tempDevices[n]
        /\ Ordered(tempDevices')
    BY <1>4, AppendKeepsOrder
  <2>2. Ordered(tempDevices)' BY <2>1 DEF Ordered
  <2>3. \A n \in 1..devCount + 1 : Before(tempDevices'[n], <<slot', function'>>)
    <3>1. Before(tempDevices'[devCount + 1], <<slot', function'>>) BY <2>1, <1>1
    <3>2. \A n \in 1..devCount : Before(tempDevices'[n], <<slot', function'>>) BY <2>1, <1>2
    <3> QED BY <3>1, <3>2, <1>1
  <2>4. Complete(tempDevices)'
    <3>1. SUFFICES ASSUME NEW a \in answers, a[2] = 0, Before(a, <<slot', function'>>)
                   PROVE  \E n \in 1..Len(tempDevices') : tempDevices'[n] = a
      BY DEF Complete
    <3>2. CASE a = <<slot, function>>
      <4>1. devCount + 1 \in 1..Len(tempDevices') BY <2>1, <1>1
      <4> QED BY <4>1, <3>2, <2>1
    <3>3. CASE Before(a, <<slot, function>>)
      <4>1. PICK n \in 1..devCount : tempDevices[n] = a BY <3>1, <3>3, <1>1 DEF Complete
      <4>2. n \in 1..devCount + 1 /\ tempDevices'[n] = a BY <4>1, <2>1, <1>1
      <4> QED BY <4>2, <2>1
    <3> QED BY <3>1, <3>2, <3>3
  <2>5. UNCHANGED tempDevices => FALSE BY <2>1, <1>1
  <2> QED BY <2>1, <2>2, <2>3, <2>4, <2>5
<1> QED BY <1>3, <1>4

LEMMA ScanDeviceKeeps ==
    ASSUME ScanInv, NEW flag \in BOOLEAN, ScanDevice(flag)
    PROVE  ScanInv'
<1>1. /\ scanning = "device" /\ function = 0 /\ slot < Slots /\ slot \in Nat
      /\ devCount < MAX_DEVICES /\ devCount \in Nat
      /\ UNCHANGED <<answers, devices, found>>
  BY DEF ScanInv, PciTypeOK, devCount, ScanDevice, MoreFit
<1>2. \/ GetDevice /\ tempDevices' = Append(tempDevices, <<slot, function>>)
      \/ ~GetDevice /\ UNCHANGED tempDevices
  BY DEF ScanDevice
<1>3. \/ scanning' = "function" /\ function' = 1 /\ slot' = slot /\ devCount + 1 < MAX_DEVICES
      \/ scanning' = "device" /\ function' = 0 /\ slot' = slot + 1
  BY <1>1 DEF ScanDevice, NextSlot, MoreFit
<1>4. slot' \in Nat /\ function' \in 0..Functions
  BY <1>1, <1>3, PciAssumption
<1>5. \A a \in Nat \X Nat :
          Before(a, <<slot, function>>) \/ a = <<slot, function>> => Before(a, <<slot', function'>>)
  BY <1>1, <1>3 DEF Before
<1>6. \A a \in answers :
          a[2] = 0 /\ Before(a, <<slot', function'>>) =>
             \/ Before(a, <<slot, function>>)
             \/ a = <<slot, function>> /\ tempDevices' = Append(tempDevices, <<slot, function>>)
  <2>1. SUFFICES ASSUME NEW a \in answers, a[2] = 0, Before(a, <<slot', function'>>),
                        ~Before(a, <<slot, function>>)
                 PROVE  a = <<slot, function>> /\ GetDevice
    BY <1>2
  <2>2. a \in Nat \X Nat BY DEF ScanInv, PciTypeOK, Address
  <2>3. a = <<slot, function>> BY <2>1, <2>2, <1>1, <1>3 DEF Before
  <2> QED BY <2>3 DEF GetDevice
<1>7. /\ tempDevices' \in Seq(Address)
      /\ Len(tempDevices') = IF UNCHANGED tempDevices THEN devCount ELSE devCount + 1
      /\ Ordered(tempDevices)' /\ Complete(tempDevices)'
      /\ \A n \in 1..Len(tempDevices') : Before(tempDevices'[n], <<slot', function'>>)
  BY <1>1, <1>2, <1>4, <1>5, <1>6, AdvanceKeepsList
<1>8. devCount' = Len(tempDevices') /\ devCount' <= MAX_DEVICES
      /\ (scanning' = "function" => devCount' < MAX_DEVICES)
  BY <1>1, <1>3, <1>7, PciAssumption DEF devCount
<1>9. PciTypeOK' BY <1>1, <1>3, <1>4, <1>7, <1>8 DEF ScanInv, PciTypeOK
<1> QED BY <1>1, <1>3, <1>7, <1>8, <1>9 DEF ScanInv

LEMMA ScanFunctionKeeps ==
    ASSUME ScanInv, ScanFunction
    PROVE  ScanInv'
<1>1. /\ scanning = "function" /\ function > 0 /\ function \in 0..Functions
      /\ slot < Slots /\ slot \in Nat
      /\ devCount < MAX_DEVICES /\ devCount \in Nat
      /\ UNCHANGED <<answers, devices, found>>
  BY DEF ScanInv, PciTypeOK, devCount, ScanFunction
<1>2. \/ GetDevice /\ tempDevices' = Append(tempDevices, <<slot, function>>)
      \/ UNCHANGED tempDevices
  BY DEF ScanFunction
<1>3. \/ /\ scanning' = "function" /\ function' = function + 1 /\ slot' = slot
         /\ function < Functions /\ devCount + 1 < MAX_DEVICES
      \/ scanning' = "device" /\ function' = 0 /\ slot' = slot + 1
  BY <1>1 DEF ScanFunction, NextSlot, MoreFit
<1>4. slot' \in Nat /\ function' \in 0..Functions
  BY <1>1, <1>3, PciAssumption
<1>5. \A a \in Nat \X Nat :
          Before(a, <<slot, function>>) \/ a = <<slot, function>> => Before(a, <<slot', function'>>)
  BY <1>1, <1>3 DEF Before
<1>6. \A a \in answers :
          a[2] = 0 /\ Before(a, <<slot', function'>>) => Before(a, <<slot, function>>)
  <2>1. \A a \in answers : a \in Nat \X Nat BY DEF ScanInv, PciTypeOK, Address
  <2> QED BY <2>1, <1>1, <1>3 DEF Before
<1>7. /\ tempDevices' \in Seq(Address)
      /\ Len(tempDevices') = IF UNCHANGED tempDevices THEN devCount ELSE devCount + 1
      /\ Ordered(tempDevices)' /\ Complete(tempDevices)'
      /\ \A n \in 1..Len(tempDevices') : Before(tempDevices'[n], <<slot', function'>>)
  BY <1>1, <1>2, <1>4, <1>5, <1>6, AdvanceKeepsList
<1>8. devCount' = Len(tempDevices') /\ devCount' <= MAX_DEVICES
      /\ (scanning' = "function" => devCount' < MAX_DEVICES)
  BY <1>1, <1>3, <1>7, PciAssumption DEF devCount
<1>9. PciTypeOK' BY <1>1, <1>3, <1>4, <1>7, <1>8 DEF ScanInv, PciTypeOK
<1> QED BY <1>1, <1>3, <1>4, <1>7, <1>8, <1>9 DEF ScanInv

(* The list is complete when the scan ends, or full.                       *)
LEMMA ScanDoneKeeps ==
    ASSUME ScanInv, ScanDone
    PROVE  ScanInv'
<1>1. /\ PciTypeOK /\ scanning = "device" /\ function = 0 /\ slot \in Nat
      /\ tempDevices \in Seq(Address) /\ devCount = Len(tempDevices)
      /\ devCount \in Nat /\ devCount <= MAX_DEVICES
      /\ slot >= Slots \/ devCount >= MAX_DEVICES
      /\ devices' = tempDevices /\ scanning' = "done"
      /\ UNCHANGED <<answers, slot, function, tempDevices, found>>
  <2>1. PciTypeOK BY DEF ScanInv
  <2>2. tempDevices \in Seq(Address) /\ devCount = Len(tempDevices)
    BY <2>1 DEF PciTypeOK, devCount
  <2>3. devCount \in Nat BY <2>2
  <2> QED BY <2>1, <2>2, <2>3, PciAssumption DEF ScanInv, ScanDone, PciTypeOK, MoreFit
<1>2. /\ Ordered(tempDevices) /\ Complete(tempDevices)
      /\ \A n \in 1..devCount : Before(tempDevices[n], <<slot, function>>)
  BY <1>1 DEF ScanInv
<1>3. ASSUME NEW a \in answers, a[2] = 0,
             ~\E n \in 1..Len(tempDevices) : tempDevices[n] = a
      PROVE  Len(tempDevices) = MAX_DEVICES /\ Before(tempDevices[MAX_DEVICES], a)
  <2>1. a \in Address BY <1>1 DEF PciTypeOK
  <2>2. ~Before(a, <<slot, function>>) BY <1>2, <1>3 DEF Complete
  <2>3. a[1] \in Nat /\ a[1] < Slots /\ a = <<a[1], a[2]>>
    BY <2>1, PciAssumption DEF Address
  <2>4. slot <= a[1] BY <2>2, <2>3, <1>1 DEF Before
  <2>5. devCount = MAX_DEVICES BY <2>3, <2>4, <1>1, PciAssumption
  <2>6. MAX_DEVICES \in 1..devCount BY <2>5, PciAssumption
  <2>7. tempDevices[MAX_DEVICES] \in Address BY <2>6, <1>1
  <2>8. tempDevices[MAX_DEVICES][1] \in Nat /\ tempDevices[MAX_DEVICES][2] \in Nat
    BY <2>7, PciAssumption DEF Address
  <2>9. Before(tempDevices[MAX_DEVICES], <<slot, 0>>) BY <2>6, <1>1, <1>2
  <2> HIDE DEF Address
  <2>10. Before(tempDevices[MAX_DEVICES], a)
    BY <2>3, <2>4, <2>8, <2>9, <1>1, <1>3 DEF Before
  <2> QED BY <2>5, <2>10, <1>1
<1>4. ScanIsFaithful' BY <1>1, <1>2, <1>3 DEF ScanIsFaithful, Ordered
<1>5. PciTypeOK' BY <1>1 DEF PciTypeOK, devCount
<1> QED BY <1>1, <1>4, <1>5 DEF ScanInv

LEMMA FindKeeps ==
    ASSUME ScanInv, FindDevice
    PROVE  ScanInv'
<1>1. devices \in Seq(Address) BY DEF ScanInv, PciTypeOK
<1>2. found' \subseteq Address BY <1>1 DEF FindDevice
<1>3. UNCHANGED <<answers, slot, function, tempDevices, devices, scanning>> BY DEF FindDevice
<1>4. PciTypeOK' BY <1>2, <1>3 DEF ScanInv, PciTypeOK, devCount
<1> QED BY <1>3, <1>4 DEF ScanInv, ScanIsFaithful, Ordered, Complete, devCount

LEMMA NextKeepsScan == ScanInv /\ [Next]_vars => ScanInv'
<1> SUFFICES ASSUME ScanInv, [Next]_vars PROVE ScanInv' OBVIOUS
<1>1. CASE UNCHANGED pci
  BY <1>1 DEF pci, ScanInv, PciTypeOK, ScanIsFaithful, Ordered, Complete, devCount
<1>2. CASE ScanBus
  BY <1>2, ScanDeviceKeeps, ScanFunctionKeeps, ScanDoneKeeps DEF ScanBus, Scan
<1>3. CASE SvgaInit BY <1>3, FindKeeps DEF SvgaInit
<1> QED
  BY <1>1, <1>2, <1>3 DEF Next, KernelMain, Parse, RegisterDrivers, Announce,
     Printing, LoadDriver, AllLoaded, SvgaReturns, Key, vars

-----------------------------------------------------------------------------
(* What kernelMain relies on holds in every reachable state, for every     *)
(* screen, bus, list size, text and number of keys.                        *)
THEOREM BootInvariance == Spec => [](ConsoleInv /\ MainInv /\ ScanInv)
<1> DEFINE Inv == ConsoleInv /\ MainInv /\ ScanInv
<1>1. Init => Inv BY InitConsole, InitMain, InitScan
<1>2. Inv /\ [Next]_vars => Inv' BY NextKeepsConsole, NextKeepsMain, NextKeepsScan
<1> HIDE DEF Inv
<1>3. Spec => []Inv BY <1>1, <1>2, PTL DEF Spec
<1> QED BY <1>3 DEF Inv

(* printf is back on the screen before it prints the next character, with  *)
(* onKeyDown interrupting it between any two of its steps.                 *)
THEOREM CursorAlwaysSettles == Spec => []CursorSettles
<1>1. ConsoleInv => CursorSettles
  BY DEF ConsoleInv, ConsoleTypeOK, CursorInv, CursorSettles
<1> QED BY <1>1, BootInvariance, PTL

(* No write of the console leaves its bounds.                              *)
THEOREM WritesStayInBounds == Spec => []WritesInBounds
<1>1. ConsoleInv => WritesInBounds BY DEF ConsoleInv
<1> QED BY <1>1, BootInvariance, PTL

(* The device list ScanBus leaves behind is what answered, in order and    *)
(* without gaps, whatever the flag it reads holds.                         *)
THEOREM ScanStaysFaithful == Spec => []ScanIsFaithful
<1>1. ScanInv => ScanIsFaithful BY DEF ScanInv, ScanIsFaithful
<1> QED BY <1>1, BootInvariance, PTL

(* Types, with the bounds of the cursor and of ScanBus's array.            *)
THEOREM BootTypeCorrect == Spec => []TypeOK
<1>1. ConsoleInv /\ MainInv /\ ScanInv => TypeOK
  <2> SUFFICES ASSUME ConsoleInv, MainInv, ScanInv PROVE TypeOK OBVIOUS
  <2>1. drivers \in Seq(Names)
    <3>1. <<>> \in Seq(Names) /\ <<"keyboard">> \in Seq(Names) /\ Wired \in Seq(Names)
      BY DEF Names, Wired
    <3> QED BY <3>1 DEF MainInv
  <2>2. Len(Wired) + 1 = 3 BY DEF Wired
  <2> QED BY <2>1, <2>2 DEF ConsoleInv, MainInv, ScanInv, TypeOK
<1> QED BY <1>1, BootInvariance, PTL

-----------------------------------------------------------------------------
(* Where kernelMain ends.                                                  *)
LoadedInv ==
    /\ stage \in {"parse", "register", "scan"} => i = 1 /\ part = 1 /\ loaded = <<>>
    /\ stage = "load" =>
          \/ i = 1 /\ loaded = <<>>
          \/ i = 2 /\ loaded = <<"keyboard">>
          \/ i = 3 /\ loaded = Wired
    /\ stage \in {"svga", "bringUp", "spin"} => loaded = Wired
    /\ stage \in {"bringUp", "spin"} => Booted

LEMMA SmallestOf ==
    ASSUME NEW T \in SUBSET Nat, T # {}
    PROVE  \E m \in T : \A k \in T : m <= k
<1> DEFINE R == {pair \in Nat \X Nat : pair[1] < pair[2]}
<1>1. IsWellFoundedOn(R, Nat) BY NatLessThanWellFounded DEF OpToRel
<1>2. \A a, b \in Nat : <<a, b>> \in R <=> a < b OBVIOUS
<1> HIDE DEF R
<1>3. PICK m \in T : \A k \in T : <<k, m>> \notin R BY <1>1, WFMin
<1>4. ASSUME NEW k \in T PROVE m <= k
  <2>1. k \in Nat /\ m \in Nat OBVIOUS
  <2>2. ~(k < m) BY <1>2, <1>3, <2>1
  <2> QED BY <2>1, <2>2
<1> QED BY <1>4

(* FindDevice returns the first match, if there is one.                    *)
LEMMA FindsFirst ==
    ASSUME devices \in Seq(Address), FindDevice
    PROVE  Cardinality(found') = IF \E n \in 1..Len(devices) : devices[n] \in Wanted THEN 1 ELSE 0
<1> DEFINE matches == {n \in 1..Len(devices) : devices[n] \in Wanted}
           first == {m \in matches : \A k \in matches : m <= k}
<1>1. found' = {devices[n] : n \in first} BY DEF FindDevice
<1>2. matches \in SUBSET Nat OBVIOUS
<1>3. matches = {} <=> ~\E n \in 1..Len(devices) : devices[n] \in Wanted OBVIOUS
<1>4. \A m \in matches : m \in first <=> \A k \in matches : m <= k OBVIOUS
<1>5. first \subseteq matches OBVIOUS
<1> HIDE DEF matches, first
<1>6. CASE matches = {}
  <2>1. found' = {} BY <1>1, <1>5, <1>6
  <2> QED BY <2>1, <1>3, <1>6, FS_EmptySet
<1>7. CASE matches # {}
  <2>1. PICK m \in matches : \A k \in matches : m <= k BY <1>2, <1>7, SmallestOf
  <2>2. first = {m}
    <3>1. m \in first BY <1>4, <2>1
    <3>2. ASSUME NEW n \in first PROVE n = m
      <4>1. n \in matches /\ n <= m /\ m <= n BY <1>4, <1>5, <2>1
      <4>2. n \in Nat /\ m \in Nat BY <1>2, <4>1
      <4> QED BY <4>1, <4>2
    <3> QED BY <3>1, <3>2
  <2>3. found' = {devices[m]} BY <1>1, <2>2
  <2> QED BY <2>3, <1>3, <1>7, FS_Singleton
<1> QED BY <1>6, <1>7

LEMMA NextKeepsLoaded ==
    ASSUME MainInv, ScanInv, LoadedInv, [Next]_vars
    PROVE  LoadedInv'
<1>1. CASE UNCHANGED <<stage, i, part, loaded, found, devices>>
  BY <1>1 DEF LoadedInv, Booted
<1>2. CASE Parse BY <1>2 DEF Parse, LoadedInv
<1>3. CASE RegisterDrivers BY <1>3 DEF RegisterDrivers, LoadedInv
<1>4. CASE ScanBus BY <1>4 DEF ScanBus, LoadedInv
<1>5. CASE Announce BY <1>5 DEF Announce, LoadedInv
<1>6. CASE LoadDriver
  <2>1. /\ stage = "load" /\ part > 3 /\ stage' = "load" /\ i' = i + 1
        /\ loaded' = Append(loaded, drivers[i])
    BY <1>6 DEF LoadDriver
  <2>2. drivers = Wired /\ i <= 2 BY <2>1 DEF MainInv
  <2>3. CASE i = 1 /\ loaded = <<>>
    <3>1. loaded' = <<"keyboard">>
      BY <2>1, <2>2, <2>3, Append(<<>>, "keyboard") = <<"keyboard">> DEF Wired
    <3> QED BY <2>1, <2>3, <3>1 DEF LoadedInv
  <2>4. CASE i = 2 /\ loaded = <<"keyboard">>
    <3>1. loaded' = Append(loaded, "mouse") /\ loaded \in Seq(Names)
      BY <2>1, <2>2, <2>4 DEF Wired, Names
    <3>2. /\ loaded' \in Seq(Names) /\ Len(loaded') = 2
          /\ loaded'[1] = "keyboard" /\ loaded'[2] = "mouse"
      BY <3>1, <2>4 DEF Names
    <3>3. /\ Wired \in Seq(Names) /\ Len(Wired) = 2
          /\ Wired[1] = "keyboard" /\ Wired[2] = "mouse"
      BY DEF Wired, Names
    <3>4. loaded' = Wired BY <3>2, <3>3, SeqEqual
    <3> QED BY <2>1, <2>4, <3>4 DEF LoadedInv
  <2> QED BY <2>1, <2>2, <2>3, <2>4 DEF LoadedInv
<1>7. CASE AllLoaded
  <2>1. stage = "load" /\ ~MoreDrivers(i) /\ stage' = "svga" /\ UNCHANGED loaded
    BY <1>7 DEF AllLoaded
  <2>2. Len(drivers) = 2 BY <2>1 DEF MainInv, Wired
  <2>3. i = 3 BY <2>1, <2>2 DEF LoadedInv, MoreDrivers
  <2> QED BY <2>1, <2>3 DEF LoadedInv
<1>8. CASE SvgaInit
  <2>1. /\ stage = "svga" /\ stage' \in {"bringUp", "spin"} /\ FindDevice
        /\ UNCHANGED <<loaded, devices>>
    BY <1>8 DEF SvgaInit, FindDevice
  <2>2. devices \in Seq(Address) BY DEF ScanInv, PciTypeOK
  <2>3. Cardinality(found') = IF \E n \in 1..Len(devices) : devices[n] \in Wanted THEN 1 ELSE 0
    BY <2>1, <2>2, FindsFirst
  <2> QED BY <2>1, <2>3 DEF LoadedInv, Booted
<1>9. CASE SvgaReturns BY <1>9 DEF SvgaReturns, LoadedInv, Booted, pci
<1> QED
  BY <1>1, <1>2, <1>3, <1>4, <1>5, <1>6, <1>7, <1>8, <1>9
  DEF Next, KernelMain, Printing, Key, main, pci, vars

(* kernelMain does not get to its last loop without both drivers loaded,   *)
(* keyboard first, and FindDevice finds the device exactly if the scan     *)
(* listed it, whatever the machine and the user do (kernel.cpp,            *)
(* drivers/driver.cpp, hardware/pci.cpp).                                  *)
THEOREM BootEndsWithAll == Spec => []BootEndsRight
<1>1. Init => LoadedInv BY DEF Init, LoadedInv
<1>2. MainInv /\ ScanInv /\ LoadedInv /\ [Next]_vars => LoadedInv' BY NextKeepsLoaded
<1>3. LoadedInv => BootEndsRight BY DEF LoadedInv, BootEndsRight
<1>4. Spec => [](MainInv /\ ScanInv) BY BootInvariance, PTL
<1> QED BY <1>1, <1>2, <1>3, <1>4, PTL DEF Spec

-----------------------------------------------------------------------------
(* The functions of a device, when the flag is that of the device.         *)
Listed(list, a) == \E n \in 1..Len(list) : list[n] = a
Answering(a) == \A f \in 0..a[2] : <<a[1], f>> \in answers

FlagInv ==
    /\ scanning # "done" =>
          \A a \in answers : a[1] < slot /\ Answering(a) =>
              Listed(tempDevices, a) \/ devCount >= MAX_DEVICES
    /\ scanning = "function" =>
          \A f \in 0..function - 1 : Listed(tempDevices, <<slot, f>>)
    /\ scanning = "done" => FunctionsListed

LEMMA ListedStays ==
    ASSUME NEW list \in Seq(Address), NEW b \in Address
    PROVE  /\ Listed(Append(list, b), b)
           /\ \A a : Listed(list, a) => Listed(Append(list, b), a)
<1> DEFINE list2 == Append(list, b)
<1>1. /\ Len(list) \in Nat /\ Len(list2) = Len(list) + 1 /\ list2[Len(list) + 1] = b
      /\ \A n \in 1..Len(list) : list2[n] = list[n]
  BY LenProperties, AppendProperties
<1> HIDE DEF list2
<1>2. Listed(list2, b)
  <2>1. Len(list) + 1 \in 1..Len(list2) BY <1>1
  <2> QED BY <1>1, <2>1 DEF Listed
<1>3. ASSUME NEW a, Listed(list, a) PROVE Listed(list2, a)
  <2>1. PICK n \in 1..Len(list) : list[n] = a BY <1>3 DEF Listed
  <2>2. n \in 1..Len(list2) /\ list2[n] = a BY <1>1, <2>1
  <2> QED BY <2>2 DEF Listed
<1> QED BY <1>2, <1>3 DEF list2

(* What a step of the scan finds, with the address examined listed.        *)
LEMMA ScanFacts ==
    ASSUME ScanInv, scanning # "done"
    PROVE  /\ tempDevices \in Seq(Address) /\ devCount = Len(tempDevices) /\ devCount \in Nat
           /\ slot \in Nat /\ function \in 0..Functions
           /\ \A a \in answers : /\ a \in Address /\ a[1] \in Nat /\ a[2] \in Nat /\ a[1] < Slots
                                /\ a[2] < Functions /\ a = <<a[1], a[2]>>
           /\ GetDevice => <<slot, function>> \in Address
<1>1. PciTypeOK BY DEF ScanInv
<1>2. tempDevices \in Seq(Address) /\ devCount = Len(tempDevices) BY <1>1 DEF PciTypeOK, devCount
<1>3. \A a \in answers : /\ a \in Address /\ a[1] \in Nat /\ a[2] \in Nat /\ a[1] < Slots
                         /\ a[2] < Functions /\ a = <<a[1], a[2]>>
  BY <1>1, PciAssumption DEF PciTypeOK, Address
<1> QED BY <1>1, <1>2, <1>3, LenProperties DEF PciTypeOK, GetDevice

LEMMA ScanDeviceLists ==
    ASSUME ScanInv, FlagInv, NEW flag \in BOOLEAN, ScanDevice(flag), ReadsOwnFlag
    PROVE  FlagInv'
<1>1. /\ scanning = "device" /\ function = 0 /\ UNCHANGED <<answers, devices, found>>
      /\ tempDevices' = IF GetDevice THEN Append(tempDevices, <<slot, function>>) ELSE tempDevices
  BY DEF ScanDevice, ScanInv
<1>2. /\ tempDevices \in Seq(Address) /\ devCount = Len(tempDevices) /\ devCount \in Nat
      /\ slot \in Nat
      /\ \A a \in answers : /\ a[1] \in Nat /\ a[2] \in Nat /\ a = <<a[1], a[2]>>
      /\ GetDevice => <<slot, function>> \in Address
  BY <1>1, ScanFacts
<1>3. \A a : Listed(tempDevices, a) => Listed(tempDevices', a) BY <1>1, <1>2, ListedStays
<1>4. GetDevice => Listed(tempDevices', <<slot, 0>>) /\ Len(tempDevices') = devCount + 1
  BY <1>1, <1>2, ListedStays, AppendProperties
<1>5. Len(tempDevices') \in Nat /\ Len(tempDevices') >= devCount BY <1>1, <1>2, <1>4
<1>6. devCount' = Len(tempDevices') BY DEF devCount
<1>7. ASSUME NEW a \in answers, a[1] < slot, Answering(a)
      PROVE  Listed(tempDevices', a) \/ Len(tempDevices') >= MAX_DEVICES
  <2>1. Listed(tempDevices, a) \/ devCount >= MAX_DEVICES BY <1>1, <1>7 DEF FlagInv
  <2>2. devCount >= MAX_DEVICES => Len(tempDevices') >= MAX_DEVICES BY <1>2, <1>5, PciAssumption
  <2> QED BY <1>3, <2>1, <2>2
<1>8. \A a : Answering(a)' <=> Answering(a) BY <1>1 DEF Answering
<1>9. CASE GetDevice /\ MoreFit(devCount + 1) /\ flag
  <2>1. scanning' = "function" /\ function' = 1 /\ slot' = slot BY <1>9 DEF ScanDevice
  <2>2. \A f \in 0..function' - 1 : Listed(tempDevices', <<slot', f>>) BY <1>4, <1>9, <2>1
  <2> QED BY <1>1, <1>6, <1>7, <1>8, <2>1, <2>2 DEF FlagInv
<1>10. CASE ~(GetDevice /\ MoreFit(devCount + 1) /\ flag)
  <2>1. scanning' = "device" /\ slot' = slot + 1 BY <1>1, <1>10 DEF ScanDevice, NextSlot
  <2>2. ASSUME NEW a \in answers, a[1] < slot + 1, Answering(a)
        PROVE  Listed(tempDevices', a) \/ Len(tempDevices') >= MAX_DEVICES
    <3>1. CASE a[1] < slot BY <1>7, <2>2, <3>1
    <3>2. CASE a[1] = slot
      <4>1. 0 \in 0..a[2] BY <1>2
      <4>2. GetDevice BY <1>1, <2>2, <3>2, <4>1 DEF Answering, GetDevice
      <4>3. CASE ~MoreFit(devCount + 1)
        BY <1>2, <1>4, <4>2, <4>3, PciAssumption DEF MoreFit
      <4>4. CASE MoreFit(devCount + 1)
        <5>1. flag = FALSE BY <1>10, <4>2, <4>4
        <5>2. <<slot, 1>> \notin answers BY <4>2, <4>4, <5>1 DEF ReadsOwnFlag
        <5>3. ~(1 \in 0..a[2]) BY <2>2, <3>2, <5>2 DEF Answering
        <5>4. a = <<slot, 0>> BY <1>2, <3>2, <5>3
        <5> QED BY <1>4, <4>2, <5>4
      <4> QED BY <4>3, <4>4
    <3> QED BY <1>2, <2>2, <3>1, <3>2
  <2> QED BY <1>1, <1>6, <1>8, <2>1, <2>2 DEF FlagInv
<1> QED BY <1>9, <1>10

LEMMA ScanFunctionLists ==
    ASSUME ScanInv, FlagInv, ScanFunction
    PROVE  FlagInv'
<1> DEFINE filled == function < Functions /\ GetDevice
<1>1. /\ scanning = "function" /\ function > 0 /\ UNCHANGED <<answers, devices, found>>
      /\ tempDevices' = IF filled THEN Append(tempDevices, <<slot, function>>) ELSE tempDevices
  BY DEF ScanFunction, ScanInv
<1>2. /\ tempDevices \in Seq(Address) /\ devCount = Len(tempDevices) /\ devCount \in Nat
      /\ slot \in Nat /\ function \in Nat
      /\ \A a \in answers : a[1] \in Nat /\ a[2] \in Nat /\ a[2] < Functions /\ a = <<a[1], a[2]>>
      /\ GetDevice => <<slot, function>> \in Address
  BY <1>1, ScanFacts, PciAssumption
<1>3. \A a : Listed(tempDevices, a) => Listed(tempDevices', a) BY <1>1, <1>2, ListedStays
<1>4. filled => Listed(tempDevices', <<slot, function>>) /\ Len(tempDevices') = devCount + 1
  BY <1>1, <1>2, ListedStays, AppendProperties
<1>5. Len(tempDevices') \in Nat /\ Len(tempDevices') >= devCount BY <1>1, <1>2, <1>4
<1>6. devCount' = Len(tempDevices') BY DEF devCount
<1>7. ASSUME NEW a \in answers, a[1] < slot, Answering(a)
      PROVE  Listed(tempDevices', a) \/ Len(tempDevices') >= MAX_DEVICES
  <2>1. Listed(tempDevices, a) \/ devCount >= MAX_DEVICES BY <1>1, <1>7 DEF FlagInv
  <2>2. devCount >= MAX_DEVICES => Len(tempDevices') >= MAX_DEVICES BY <1>2, <1>5, PciAssumption
  <2> QED BY <1>3, <2>1, <2>2
<1>8. \A a : Answering(a)' <=> Answering(a) BY <1>1 DEF Answering
<1>9. \A f \in 0..function - 1 : Listed(tempDevices', <<slot, f>>) BY <1>1, <1>3 DEF FlagInv
<1>10. CASE filled /\ MoreFit(devCount + 1)
  <2>1. scanning' = "function" /\ function' = function + 1 /\ slot' = slot
    BY <1>1, <1>10 DEF ScanFunction
  <2>2. \A f \in 0..function' - 1 : Listed(tempDevices', <<slot', f>>)
    <3>1. \A f \in 0..function' - 1 : f = function \/ f \in 0..function - 1 BY <1>2, <2>1
    <3> QED BY <1>4, <1>9, <1>10, <2>1, <3>1
  <2> QED BY <1>1, <1>6, <1>7, <1>8, <2>1, <2>2 DEF FlagInv
<1>11. CASE ~(filled /\ MoreFit(devCount + 1))
  <2>1. scanning' = "device" /\ slot' = slot + 1 BY <1>11 DEF ScanFunction, NextSlot
  <2>2. ASSUME NEW a \in answers, a[1] < slot + 1, Answering(a)
        PROVE  Listed(tempDevices', a) \/ Len(tempDevices') >= MAX_DEVICES
    <3>1. CASE a[1] < slot BY <1>7, <2>2, <3>1
    <3>2. CASE a[1] = slot
      <4>1. CASE filled BY <1>2, <1>4, <1>11, <4>1, PciAssumption DEF MoreFit
      <4>2. CASE ~filled
        <5>1. ~(function \in 0..a[2])
          <6>1. function \in 0..a[2] => function < Functions /\ GetDevice
            BY <1>2, <2>2, <3>2, PciAssumption DEF Answering, GetDevice
          <6> QED BY <4>2, <6>1
        <5>2. a[2] \in 0..function - 1 BY <1>2, <5>1
        <5> QED BY <1>2, <1>9, <3>2, <5>2
      <4> QED BY <4>1, <4>2
    <3> QED BY <1>2, <2>2, <3>1, <3>2
  <2> QED BY <1>1, <1>6, <1>8, <2>1, <2>2 DEF FlagInv
<1> QED BY <1>10, <1>11

LEMMA NextKeepsFlag ==
    ASSUME ScanInv, FlagInv, [Next]_vars, [ReadsOwnFlag]_vars
    PROVE  FlagInv'
<1>1. CASE UNCHANGED <<answers, slot, function, tempDevices, devices, scanning>>
  BY <1>1 DEF FlagInv, FunctionsListed, Listed, Answering, devCount
<1>2. ASSUME NEW flag \in BOOLEAN, ScanDevice(flag) PROVE FlagInv'
  <2>1. vars' # vars
    <3>1. slot' # slot \/ scanning' # scanning
      <4>1. slot \in Nat /\ scanning = "device" BY <1>2 DEF ScanInv, PciTypeOK, ScanDevice
      <4> QED BY <1>2, <4>1 DEF ScanDevice, NextSlot
    <3> QED BY <3>1 DEF vars, pci
  <2> QED BY <1>2, <2>1, ScanDeviceLists
<1>3. CASE ScanFunction BY <1>3, ScanFunctionLists
<1>4. CASE ScanDone
  <2>1. /\ scanning = "device" /\ scanning' = "done" /\ devices' = tempDevices
        /\ slot >= Slots \/ ~MoreFit(devCount)
        /\ UNCHANGED answers
    BY <1>4 DEF ScanDone
  <2>2. /\ devCount = Len(tempDevices) /\ devCount \in Nat /\ slot \in Nat
        /\ \A a \in answers : a[1] \in Nat /\ a[1] < Slots
    BY <2>1, ScanFacts
  <2>3. ASSUME Len(devices') < MAX_DEVICES, NEW a \in answers, Answering(a)
        PROVE  Listed(devices', a)
    <3>1. a[1] < slot BY <2>1, <2>2, <2>3, PciAssumption DEF MoreFit
    <3>2. ~(devCount >= MAX_DEVICES) BY <2>1, <2>2, <2>3, PciAssumption
    <3> QED BY <2>1, <2>3, <3>1, <3>2 DEF FlagInv
  <2>4. FunctionsListed' BY <2>1, <2>3 DEF FunctionsListed, Listed, Answering
  <2> QED BY <2>1, <2>4 DEF FlagInv
<1> QED
  BY <1>1, <1>2, <1>3, <1>4 DEF Next, KernelMain, Parse, RegisterDrivers, ScanBus, Scan, Announce,
     Printing, LoadDriver, AllLoaded, SvgaInit, SvgaReturns, FindDevice, Key, pci, vars

(* The flag is all that is wrong with the scan: were it read from the      *)
(* device just found, ScanBus would list every function up to the first    *)
(* silent one, on every machine its list has room for (hardware/pci.cpp,   *)
(* ScanBus).                                                               *)
THEOREM FlagFindsFunctions == Spec /\ [][ReadsOwnFlag]_vars => []FunctionsListed
<1>1. Init => FlagInv
  <2> SUFFICES ASSUME Init PROVE FlagInv OBVIOUS
  <2>1. scanning = "device" /\ slot = 0 BY DEF Init, PciInit
  <2>2. \A a \in answers : ~(a[1] < slot)
    <3>1. ScanInv BY InitScan
    <3> QED BY <2>1, <3>1, ScanFacts
  <2> QED BY <2>1, <2>2 DEF FlagInv
<1>2. ScanInv /\ FlagInv /\ [Next]_vars /\ [ReadsOwnFlag]_vars => FlagInv' BY NextKeepsFlag
<1>3. FlagInv => FunctionsListed BY DEF FlagInv, FunctionsListed
<1>4. Spec => []ScanInv BY BootInvariance, PTL
<1> QED BY <1>1, <1>2, <1>3, <1>4, PTL DEF Spec

-----------------------------------------------------------------------------
(* The way there.  printf runs inside LoadAll only.                        *)
PrintInv == at # "idle" => stage = "load" /\ part # 1

LEMMA NextKeepsPrinting ==
    ASSUME MainInv, PrintInv, [Next]_vars
    PROVE  PrintInv'
<1>1. CASE UNCHANGED <<at, stage, part>> BY <1>1 DEF PrintInv
<1>2. CASE Announce BY <1>2 DEF Announce, MainInv, PrintInv
<1>3. CASE Printing
  <2>1. at # "idle" /\ UNCHANGED <<stage, part>>
    BY <1>3 DEF Printing, main, PrintStep, PrintReturns, Newline, Glyph, LoadX, StoreX, Wrap,
       LoadY, StoreY, Bottom, ClearY, ClearX
  <2> QED BY <2>1 DEF PrintInv
<1>4. CASE UNCHANGED at /\ at = "idle" BY <1>4 DEF PrintInv
<1>5. CASE Parse \/ RegisterDrivers \/ ScanBus \/ LoadDriver \/ AllLoaded \/ SvgaInit \/ SvgaReturns
  <2>1. at = "idle" /\ UNCHANGED at
    BY <1>5
    DEF Parse, RegisterDrivers, ScanBus, LoadDriver, AllLoaded, SvgaInit, SvgaReturns, PrintInv, console
  <2> QED BY <1>4, <2>1
<1>6. CASE Key
  <2>1. UNCHANGED <<at, stage, part>> BY <1>6 DEF Key, KeyDown, Erase, PrintKey, main
  <2> QED BY <1>1, <2>1
<1>7. UNCHANGED vars => UNCHANGED <<at, stage, part>> BY DEF vars, console, main
<1> QED BY <1>1, <1>2, <1>3, <1>5, <1>6, <1>7 DEF Next, KernelMain

LEMMA StagesInOrder ==
    /\ Later(Stages, "parse", "register") /\ Later(Stages, "register", "scan")
    /\ Later(Stages, "scan", "load") /\ Later(Stages, "load", "svga")
    /\ Later(Stages, "svga", "bringUp") /\ Later(Stages, "svga", "spin")
    /\ Later(Stages, "bringUp", "spin")
<1>1. Len(Stages) = 7 /\ Stages[1] = "parse" /\ Stages[2] = "register" /\ Stages[3] = "scan"
      /\ Stages[4] = "load" /\ Stages[5] = "svga" /\ Stages[6] = "bringUp" /\ Stages[7] = "spin"
  BY DEF Stages
<1> QED BY <1>1 DEF Later

(* The points of printing one character.                                   *)
LEMMA PointsInOrder ==
    /\ Later(Points, "character", "idle") /\ Later(Points, "character", "loadX")
    /\ Later(Points, "character", "loadY") /\ Later(Points, "loadX", "storeX")
    /\ Later(Points, "storeX", "wrap") /\ Later(Points, "wrap", "loadY")
    /\ Later(Points, "wrap", "bottom") /\ Later(Points, "loadY", "storeY")
    /\ Later(Points, "storeY", "bottom") /\ Later(Points, "bottom", "clearY")
    /\ Later(Points, "clearY", "clearX")
<1>1. /\ Len(Points) = 10
      /\ Points[1] = "character" /\ Points[2] = "loadX" /\ Points[3] = "storeX" /\ Points[4] = "wrap"
      /\ Points[5] = "loadY" /\ Points[6] = "storeY" /\ Points[7] = "bottom"
      /\ Points[8] = "clearY" /\ Points[9] = "clearX" /\ Points[10] = "idle"
  BY DEF Points
<1>2. \A m, n \in 1..10 : m < n => Later(Points, Points[m], Points[n]) BY <1>1 DEF Later
<1>3. /\ Later(Points, Points[1], Points[10]) /\ Later(Points, Points[1], Points[2])
      /\ Later(Points, Points[1], Points[5]) /\ Later(Points, Points[2], Points[3])
      /\ Later(Points, Points[3], Points[4]) /\ Later(Points, Points[4], Points[5])
      /\ Later(Points, Points[4], Points[7]) /\ Later(Points, Points[5], Points[6])
      /\ Later(Points, Points[6], Points[7]) /\ Later(Points, Points[7], Points[8])
      /\ Later(Points, Points[8], Points[9])
  BY <1>2
<1> QED BY <1>1, <1>3

LEMMA PrintGoesOn ==
    ASSUME ConsoleInv, PrintInv, Printing
    PROVE  Forward
<1>1. stage = "load" /\ UNCHANGED <<stage, i, part>>
  BY DEF PrintInv, Printing, main, PrintStep, PrintReturns, Newline, Glyph, LoadX, StoreX, Wrap,
     LoadY, StoreY, Bottom, ClearY, ClearX
<1>2. \/ text' = text /\ Later(Points, at, at')
      \/ at \in {"bottom", "clearX"} /\ text' = Tail(text)
  BY PointsInOrder DEF Printing, PrintStep, PrintReturns, Newline, Glyph, LoadX, StoreX, Wrap,
     LoadY, StoreY, Bottom, ClearY, ClearX
<1>3. ASSUME at \in {"bottom", "clearX"}, text' = Tail(text) PROVE Len(text') < Len(text)
  <2>1. text # <<>> /\ text \in Seq(Characters) BY <1>3 DEF ConsoleInv, CursorInv, ConsoleTypeOK
  <2>2. Len(Tail(text)) = Len(text) - 1 /\ Len(text) \in Nat BY <2>1, HeadTailProperties, LenProperties
  <2> QED BY <1>3, <2>2
<1> QED BY <1>1, <1>2, <1>3 DEF Forward

LEMMA ScanGoesOn ==
    ASSUME ScanInv, ScanBus
    PROVE  Forward
<1>1. stage = "scan" /\ stage' = IF scanning' = "done" THEN "load" ELSE "scan" BY DEF ScanBus
<1>2. CASE scanning' = "done" BY <1>1, <1>2, StagesInOrder DEF Forward
<1>3. CASE scanning' # "done"
  <2>1. /\ slot \in Nat /\ function \in 0..Functions /\ Slots \in Nat /\ Functions \in Nat \ {0}
        /\ scanning = "device" => function = 0
        /\ scanning = "function" => slot < Slots
    BY PciAssumption DEF ScanInv, PciTypeOK
  <2>2. ScanFunction \/ \E flag \in BOOLEAN : ScanDevice(flag) BY <1>3 DEF ScanBus, Scan, ScanDone
  <2>3. slot < Slots BY <2>1, <2>2 DEF ScanDevice, ScanFunction
  <2>4. \/ slot' = slot + 1 /\ function' = 0
        \/ slot' = slot /\ function' = function + 1 /\ function < Functions
    BY <2>1, <2>2 DEF ScanDevice, ScanFunction, NextSlot
  <2>5. slot' <= Slots /\ function' <= Functions BY <2>1, <2>3, <2>4
  <2>6. Before(<<slot, function>>, <<slot', function'>>) BY <2>1, <2>4 DEF Before
  <2> QED BY <1>1, <1>3, <2>5, <2>6 DEF Forward
<1> QED BY <1>2, <1>3

LEMMA StepGoesOn ==
    ASSUME \A boot \in BootInfos : WellLaid(boot),
           ConsoleInv, MainInv, ScanInv, PrintInv, ParseInv, Next
    PROVE  Forward \/ (Key /\ UNCHANGED <<pci, multiboot, main, text, at, r>>)
<1>1. CASE Parse
  <2>1. CASE ParseTag /\ UNCHANGED stage
    <3>1. /\ Parsing /\ pointer \in DOMAIN info.tags /\ WellLaid(info) /\ pointer \in Nat
          /\ pointer' = Padded(pointer + info.tags[pointer].size)
      BY <2>1 DEF ParseTag, ParseInv, ParseFollowsTags
    <3>2. info.tags[pointer].size \in Nat \ {0} BY <3>1 DEF WellLaid
    <3>3. pointer' >= pointer + info.tags[pointer].size /\ pointer' \in Nat BY <3>1, <3>2, PaddedGoesOn
    <3>4. pointer < pointer' BY <3>1, <3>2, <3>3
    <3> QED BY <1>1, <2>1, <3>1, <3>4 DEF Parse, Parsing, Forward
  <2>2. CASE stage' = "register" BY <1>1, <2>2, StagesInOrder DEF Parse, Forward
  <2> QED BY <1>1, <2>1, <2>2 DEF Parse
<1>2. CASE RegisterDrivers
  <2>1. /\ stage = "register" /\ drivers \in {<<>>, <<"keyboard">>}
        /\ drivers' = Append(drivers, Wired[Len(drivers) + 1])
        /\ stage' \in {"scan", "register"}
    BY <1>2 DEF RegisterDrivers, RegisterDriver, MainInv
  <2>2. CASE stage' = "scan" BY <2>1, <2>2, StagesInOrder DEF Forward
  <2>3. CASE stage' = "register"
    <3>1. Len(drivers) \in 0..1 BY <2>1
    <3>2. Wired[Len(drivers) + 1] \in Names /\ drivers \in Seq(Names)
      <4>1. CASE drivers = <<>>
        <5>1. Len(drivers) + 1 = 1 BY <4>1
        <5> QED BY <4>1, <5>1 DEF Wired, Names
      <4>2. CASE drivers = <<"keyboard">>
        <5>1. Len(drivers) + 1 = 2 BY <4>2
        <5> QED BY <4>2, <5>1 DEF Wired, Names
      <4> QED BY <2>1, <4>1, <4>2
    <3>3. Len(drivers') = Len(drivers) + 1
      <4> DEFINE next == Wired[Len(drivers) + 1]
      <4>1. next \in Names /\ drivers' = Append(drivers, next) BY <2>1, <3>2
      <4> HIDE DEF next
      <4> QED BY <3>2, <4>1, AppendProperties
    <3>4. Len(Wired) = 2 BY DEF Wired
    <3>5. ASSUME NEW now \in 0..1, NEW next, NEW all, next = now + 1, all = 2
          PROVE  now < next /\ next <= all
      BY <3>5
    <3>6. Len(drivers) < Len(drivers') /\ Len(drivers') <= Len(Wired) BY ONLY <3>1, <3>3, <3>4, <3>5
    <3> QED BY <2>1, <2>3, <3>6 DEF Forward
  <2> QED BY <2>1, <2>2, <2>3
<1>3. CASE ScanBus BY <1>3, ScanGoesOn
<1>4. CASE Announce
  <2>1. drivers = Wired BY <1>4 DEF Announce, MainInv
  <2>2. /\ stage = "load" /\ part <= 3 /\ part' = part + 1 /\ UNCHANGED <<stage, i>>
        /\ i \in 1..3 /\ part \in 1..4 /\ Len(Wired) = 2
    BY <1>4 DEF Announce, MainInv, Wired
  <2>3. Before(<<i, part>>, <<i', part'>>) /\ i' <= Len(Wired) + 1 /\ part' <= 4 BY <2>2 DEF Before
  <2> QED BY <2>2, <2>3 DEF Forward
<1>5. CASE Printing BY <1>5, PrintGoesOn
<1>6. CASE LoadDriver
  <2>1. /\ stage = "load" /\ i' = i + 1 /\ part' = 1 /\ UNCHANGED stage
        /\ i \in 1..2 /\ part \in 1..4 /\ Len(Wired) = 2
    BY <1>6 DEF LoadDriver, MainInv, Wired
  <2>2. Before(<<i, part>>, <<i', part'>>) /\ i' <= Len(Wired) + 1 /\ part' <= 4 BY <2>1 DEF Before
  <2> QED BY <2>1, <2>2 DEF Forward
<1>7. CASE AllLoaded BY <1>7, StagesInOrder DEF AllLoaded, Forward
<1>8. CASE SvgaInit \/ SvgaReturns BY <1>8, StagesInOrder DEF SvgaInit, SvgaReturns, Forward
<1>9. CASE Key BY <1>9 DEF Key, KeyDown, Erase, PrintKey
<1> QED BY <1>1, <1>2, <1>3, <1>4, <1>5, <1>6, <1>7, <1>8, <1>9 DEF Next, KernelMain

(* Every step of kernelMain brings it nearer to its last loop, from tag to *)
(* tag, address to address, driver to driver and character to character;   *)
(* no key sets it back, for every boot information that is well laid, every *)
(* machine, screen and text (kernel.cpp, kernelMain).                      *)
THEOREM BootGetsOn ==
    ASSUME \A boot \in BootInfos : WellLaid(boot)
    PROVE  Spec => BootAdvances
<1>1. Init => PrintInv /\ ParseInv
  <2>1. Init => PrintInv BY DEF Init, ConsoleInit, PrintInv
  <2> QED BY <2>1, Initially
<1>2. MainInv /\ PrintInv /\ ParseInv /\ [Next]_vars => PrintInv' /\ ParseInv'
  BY NextKeepsPrinting, NextKeepsParsing
<1>3. ConsoleInv /\ MainInv /\ ScanInv /\ PrintInv /\ ParseInv /\ [Next]_vars
          => [Forward \/ (Key /\ UNCHANGED <<pci, multiboot, main, text, at, r>>)]_vars
  BY StepGoesOn
<1>4. Spec => [](ConsoleInv /\ MainInv /\ ScanInv) BY BootInvariance
<1> QED BY <1>1, <1>2, <1>3, <1>4, PTL DEF Spec, BootAdvances
=============================================================================
