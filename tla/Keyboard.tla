------------------------------ MODULE Keyboard ------------------------------
(***************************************************************************)
(* kbdgetc() (kbd.c): the flags for shift, control and caps lock, which    *)
(* follow the bytes that the keys send.  A key is a code, with an escape   *)
(* byte before it or without; up is the bit of a release.                  *)
(***************************************************************************)
EXTENDS Integers

VARIABLES
  shift,      \* the flags
  event,      \* the key event of which the escape byte has come
  pressed,    \* history: flags whose last key event was a press
  caps        \* history: presses of caps lock were odd

keyvars == <<shift, event, pressed, caps>>

NoEvent == <<>>

KeyInit == shift = {} /\ event = NoEvent /\ pressed = {} /\ caps = FALSE

shiftcode(esc, code) ==
  CASE code = 42 /\ ~esc -> {"SHIFT"} [] code = 29 -> {"CTL"} [] OTHER -> {}
togglecode(esc, code) == IF code = 58 /\ ~esc THEN {"CAPSLOCK"} ELSE {}
\* Shift, control left and right, caps lock; the shift that comes with the
\* print key.
Keys == {<<FALSE, 42>>, <<FALSE, 29>>, <<TRUE, 29>>, <<FALSE, 58>>, <<TRUE, 42>>}

\* Mutant: a release forgets the escape.
kbdgetc_NoEsc(esc, code, up) ==
  IF esc /\ "E0ESC" \notin shift THEN shift \cup {"E0ESC"}
  ELSE IF up THEN shift \ (shiftcode(FALSE, code) \cup {"E0ESC"})
  ELSE LET x == "E0ESC" \in shift
           s == (shift \ {"E0ESC"}) \cup shiftcode(x, code)
       IN  (s \ togglecode(x, code)) \cup (togglecode(x, code) \ s)

\* The flags after the next byte of the key.
kbdgetc(esc, code, up) ==
  LET x == "E0ESC" \in shift
      s == (shift \ {"E0ESC"}) \cup shiftcode(x, code)
  IN  IF esc /\ ~x THEN shift \cup {"E0ESC"}
      ELSE IF up THEN shift \ (shiftcode(x, code) \cup {"E0ESC"})
      ELSE (s \ togglecode(x, code)) \cup (togglecode(x, code) \ s)

\* A byte of a key; the next one of an escaped key may come in another
\* interrupt.
kbdintr(key, up) ==
  /\ event \in {NoEvent, <<key, up>>}
  /\ shift' = kbdgetc(key[1], key[2], up)
  /\ IF key[1] /\ event = NoEvent
     THEN event' = <<key, up>> /\ UNCHANGED <<pressed, caps>>
     ELSE /\ event' = NoEvent
          /\ LET code == shiftcode(key[1], key[2])
             IN  pressed' = IF up THEN pressed \ code ELSE pressed \cup code
          /\ caps' = (caps # (~up /\ togglecode(key[1], key[2]) # {}))

KeyNext == \E key \in Keys, up \in BOOLEAN : kbdintr(key, up)

KeySpec == KeyInit /\ [][KeyNext]_keyvars

\* Between key events the shift and control flags are those whose keys' last
\* event was a press, whatever escaped keys came between; caps lock changes
\* with each press of its key; no escape is left over.
FlagsFollowKeys ==
  event = NoEvent =>
    shift = pressed \cup (IF caps THEN {"CAPSLOCK"} ELSE {})
=============================================================================
