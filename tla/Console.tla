------------------------------ MODULE Console ------------------------------
(***************************************************************************)
(* The text console (modules/lib.cpp): a cursor in two plain statics that  *)
(* the main program moves with printf and the keyboard interrupt with      *)
(* printc and erase, in the middle of it.                                  *)
(*                                                                         *)
(* The main program prints a character in steps that load or store one of  *)
(* x and y; what it has computed stays in a register r, as in the build    *)
(* with -O1, and is not loaded again for the comparison that follows.  An  *)
(* interrupt handler runs whole.  Cells hold no contents: what matters is  *)
(* where the cursor is and where on the screen is written.                 *)
(***************************************************************************)
EXTENDS Naturals, Sequences

CONSTANTS SCREEN_WIDTH, SCREEN_HEIGHT

ASSUME ConsoleAssumption ==
    SCREEN_WIDTH \in Nat \ {0} /\ SCREEN_HEIGHT \in Nat \ {0}

Characters == {"glyph", "newline"}

VARIABLES
    x, y,       \* the cursor
    text,       \* what printf still has to print
    at,         \* where printf is in its loop, "idle" outside
    r,          \* its register
    cell        \* the cell written last, and by whom

console == <<x, y, text, at, r, cell>>

ConsoleInit ==
    /\ x = 0 /\ y = 0
    /\ text = <<>> /\ at = "idle" /\ r = 0
    /\ cell = [by |-> "main", index |-> 0]

Here(c, l) == SCREEN_WIDTH * l + c

-----------------------------------------------------------------------------
(* printf, called by the main program.                                     *)

Printf(str) ==
    /\ at = "idle"
    /\ text' = str
    /\ at' = "character"
    /\ UNCHANGED <<x, y, r, cell>>

PrintReturns ==
    /\ at = "character" /\ text = <<>>
    /\ at' = "idle"
    /\ UNCHANGED <<x, y, text, r, cell>>

Newline ==
    /\ at = "character" /\ text # <<>> /\ Head(text) = "newline"
    /\ x' = 0
    /\ at' = "loadY"
    /\ UNCHANGED <<y, text, r, cell>>

Glyph ==
    /\ at = "character" /\ text # <<>> /\ Head(text) = "glyph"
    /\ cell' = [by |-> "main", index |-> Here(x, y)]
    /\ at' = "loadX"
    /\ UNCHANGED <<x, y, text, r>>

LoadX == at = "loadX" /\ r' = x + 1 /\ at' = "storeX" /\ UNCHANGED <<x, y, text, cell>>
StoreX == at = "storeX" /\ x' = r /\ at' = "wrap" /\ UNCHANGED <<y, text, r, cell>>

(* Mutation: the end of the line is tested for equality.                   *)
AtLineEnd(c) == c = SCREEN_WIDTH

PastLine(c) == c >= SCREEN_WIDTH

Wrap ==
    /\ at = "wrap"
    /\ IF PastLine(r) THEN x' = 0 /\ at' = "loadY" /\ UNCHANGED r
                      ELSE r' = y /\ at' = "bottom" /\ UNCHANGED x
    /\ UNCHANGED <<y, text, cell>>

LoadY == at = "loadY" /\ r' = y + 1 /\ at' = "storeY" /\ UNCHANGED <<x, y, text, cell>>
StoreY == at = "storeY" /\ y' = r /\ at' = "bottom" /\ UNCHANGED <<x, text, r, cell>>

(* Mutation: the screen is cleared one line later.                         *)
BelowScreen(l) == l > SCREEN_HEIGHT

PastScreen(l) == l >= SCREEN_HEIGHT

Bottom ==
    /\ at = "bottom"
    /\ IF PastScreen(r) THEN at' = "clearY" /\ UNCHANGED text
                        ELSE at' = "character" /\ text' = Tail(text)
    /\ UNCHANGED <<x, y, r, cell>>

(* clear: x = y = 0 stores y first.                                        *)
ClearY == at = "clearY" /\ y' = 0 /\ at' = "clearX" /\ UNCHANGED <<x, text, r, cell>>
ClearX ==
    /\ at = "clearX"
    /\ x' = 0
    /\ at' = "character" /\ text' = Tail(text)
    /\ UNCHANGED <<y, r, cell>>

PrintStep ==
    \/ PrintReturns \/ Newline \/ Glyph \/ LoadX \/ StoreX \/ Wrap
    \/ LoadY \/ StoreY \/ Bottom \/ ClearY \/ ClearX

-----------------------------------------------------------------------------
(* onKeyDown, in the keyboard interrupt.                                   *)

(* printc of a character that is printed; nothing is printed for '\0'.     *)
PrintKey(c) ==
    LET end == PastLine(x + 1)
        nextX == IF c = "newline" \/ end THEN 0 ELSE x + 1
        nextY == IF c = "newline" \/ end THEN y + 1 ELSE y
        clears == PastScreen(nextY)
    IN  /\ x' = IF clears THEN 0 ELSE nextX
        /\ y' = IF clears THEN 0 ELSE nextY
        /\ cell' = IF c = "newline" THEN cell
                   ELSE [by |-> "key", index |-> Here(x, y)]
        /\ UNCHANGED <<text, at, r>>

(* Mutation: the column behind the line.                                   *)
WidthColumn == SCREEN_WIDTH

LastColumn == SCREEN_WIDTH - 1

(* erase(1), for the backspace key.                                        *)
Erase ==
    /\ x # 0 \/ y # 0
    /\ x' = IF x = 0 THEN LastColumn ELSE x - 1
    /\ y' = IF x = 0 THEN y - 1 ELSE y
    /\ cell' = [by |-> "key", index |-> Here(x', y')]
    /\ UNCHANGED <<text, at, r>>

KeyDown == Erase \/ \E c \in Characters : PrintKey(c)

-----------------------------------------------------------------------------
(* Properties.                                                             *)

ConsoleTypeOK ==
    /\ x \in 0..SCREEN_WIDTH /\ y \in 0..SCREEN_HEIGHT
    /\ text \in Seq(Characters)
    /\ at \in {"idle", "character", "loadX", "storeX", "wrap", "loadY", "storeY",
               "bottom", "clearY", "clearX"}
    /\ r \in Nat
    /\ cell \in [by : {"main", "key"}, index : Nat]

(* Whatever keys arrived while a character was being printed, the cursor is *)
(* back on the screen before the next one.                                 *)
CursorSettles ==
    at \in {"idle", "character"} => x < SCREEN_WIDTH /\ y < SCREEN_HEIGHT

(* The main program writes on the screen only.  A key may come while the   *)
(* cursor is past an edge, and then writes at most in the line below it.   *)
WritesInBounds ==
    cell.index < SCREEN_WIDTH * (IF cell.by = "main" THEN SCREEN_HEIGHT
                                 ELSE SCREEN_HEIGHT + 1)
=============================================================================
