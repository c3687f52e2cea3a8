------------------------------ MODULE Terminal ------------------------------
(***************************************************************************)
(* The terminal's hardware side: kbdgetc, which turns the bytes of the     *)
(* keyboard into characters, and the cursor that cgaputc moves.            *)
(***************************************************************************)
EXTENDS Integers, FiniteSetsExt

CONSTANTS COLS, ROWS   \* columns, and rows before the screen scrolls

VARIABLES
  shift,     \* kbdgetc's flags
  held,      \* history: the keys that are down
  pos        \* the cursor

terminalVars == <<shift, held, pos>>

TerminalInit == shift = {} /\ held = {} /\ pos = 0

\* The cursor after a character: cgaputc.
cgaputc(at, c) ==
  LET next == CASE c = "nl" -> at + COLS - (at % COLS)
                [] c = "bs" -> IF at > 0 THEN at - 1 ELSE at
                [] OTHER -> at + 1
  IN IF next \div COLS >= ROWS THEN next - COLS ELSE next

\* The keyboard: a key, or its release, with the E0 prefix a byte of its own.
\* The two control keys differ by the prefix.
Keys == {"a", "shift", "ctl", "e0ctl", "caps"}
Prefixed == {"e0ctl"}
ShiftCode == [k \in Keys |-> CASE k = "shift" -> {"SHIFT"} [] k \in {"ctl", "e0ctl"} -> {"CTL"} [] OTHER -> {}]
ToggleCode == [k \in Keys |-> IF k = "caps" THEN {"CAPSLOCK"} ELSE {}]
CharCode(flags) ==
  IF "CTL" \in flags THEN "^a"
  ELSE IF ("SHIFT" \in flags) # ("CAPSLOCK" \in flags) THEN "A" ELSE "a"

\* Faulty: the prefix is kept, and spoils the next key.
KeyUpKeepsPrefix(flags, key) == flags \ ShiftCode[key]

\* kbdgetc on the release of a key: after an E0 the code is taken as it is,
\* and looks up the same flag as the key's own.
KeyUp(flags, key) == flags \ (ShiftCode[key] \cup {"E0ESC"})

KeyDown(flags, key) == SymDiff((flags \ {"E0ESC"}) \cup ShiftCode[key], ToggleCode[key])

\* The bytes of one key, released or pressed (again, when held down); the
\* character, if there is one, is echoed.
kbdgetc ==
  \E key \in Keys :
    LET f == IF key \in Prefixed THEN shift \cup {"E0ESC"} ELSE shift
    IN \/ /\ key \in held
          /\ held' = held \ {key} /\ shift' = KeyUp(f, key) /\ UNCHANGED pos
       \/ /\ held' = held \cup {key} /\ shift' = KeyDown(f, key)
          /\ pos' = IF key = "a" THEN cgaputc(pos, CharCode(shift')) ELSE pos

\* consolewrite, or the echo of a line's end or of a character rubbed out.
consputc ==
  /\ \E c \in {"nl", "a", "bs"} : pos' = cgaputc(pos, c)
  /\ UNCHANGED <<shift, held>>

TerminalNext == kbdgetc \/ consputc

-----------------------------------------------------------------------------
\* The cursor stays on the screen whatever is printed and rubbed out; and no
\* shift key or prefix remains set once all keys are up, whichever of two
\* control keys was released first (cgaputc, kbdgetc).
TerminalInv ==
  /\ pos \in 0..ROWS * COLS - 1
  /\ held = {} => shift \subseteq {"CAPSLOCK"}
=============================================================================
