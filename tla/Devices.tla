------------------------------ MODULE Devices -------------------------------
(***************************************************************************)
(* The keyboard (drivers/keyboard.c), the input side of the UARTs           *)
(* (drivers/serial.c) and the VGA console (drivers/vga.c) in the echo loop. *)
(*                                                                         *)
(* The BSP runs keyboard_process_keys; the keyboard and the UART interrupt *)
(* it between any two steps.  Other CPUs print.  The printers take turns   *)
(* under the lock of vprintk, which also covers vga_write; the scrolling   *)
(* of the screen takes no lock.  Locks.tla has the interrupt that comes    *)
(* while the BSP itself holds the console lock.                            *)
(*                                                                         *)
(* A screen is the sequence of its cells <<row, col, character>>, a col    *)
(* being the two bytes of a character and its color.                       *)
(***************************************************************************)
EXTENDS Integers, Sequences, TLC, SequencesExt

CONSTANTS KEY_BUF,      \* size of the keyboard's ring
          INPUT_BUF,    \* size of the UARTs' buffer
          VGA_SCREENS, VGA_ROWS, VGA_COLS,
          ComPorts,     \* number of UARTs
          Scans,        \* the scan codes the keyboard sends
          Bytes,        \* the bytes that come in on a UART
          Texts,        \* what the other CPUs print
          MaxEvents     \* bound on the codes, bytes and texts together

ASSUME DevicesAssumption ==
  /\ {KEY_BUF, INPUT_BUF, VGA_SCREENS, ComPorts} \subseteq Nat \ {0}
  /\ VGA_ROWS \in Nat \ {0, 1} /\ VGA_COLS \in Nat \ {0, 1}

VARIABLES kbd,     \* keyboard_state
          proc,    \* keyboard_process_keys: [at, scan, screen]
          input,   \* input_state: [buf, curr]
          uart,    \* uart_interrupt_handler: [port, c], and its break_cmd
          con,     \* who is in vprintk: [by, text, at]
          vga,     \* vga_buffer, scroll_screen, the VGA memory and the cursor
          rebooted, \* "", or who called reboot
          seen     \* history: what came in, and what became of it

devVars == <<kbd, proc, input, uart, con, vga, rebooted, seen>>

SCAN_CTRL == 29
SCAN_SHIFTS == {42, 54}
SCAN_ALT == 56
SCAN_CAPS == 58
SCAN_PAGEUP == 73
SCAN_PAGEDOWN == 81
SCAN_DEL == 83
SCAN_RELEASE_MASK == 128

\* The part of key_map the model uses, and the sizes of both maps: 1, i, s and
\* three keys that map to their scan code.
key_map == (2 :> 49) @@ (23 :> 105) @@ (31 :> 115) @@ (73 :> 73) @@ (81 :> 81) @@ (83 :> 83)
key_map_up == 2 :> 33
KeyMapSize == 89
KeyMapUpSize == 54
NewLine == 10

Plus == 43
NUM_PLUS == 3
NoOne == [by |-> "none", text |-> <<>>, at |-> "idle"]

keyboard_scan_to_key(scan) ==
  LET key == key_map[scan]
  IN  IF key \in 97 .. 122 THEN IF kbd.caps # kbd.shift THEN key - 32 ELSE key
      ELSE IF kbd.shift /\ scan < KeyMapUpSize THEN key_map_up[scan]
      ELSE key

isprint(c) == c \in 32 .. 126

-----------------------------------------------------------------------------
(* The interrupts.  Both come to the BSP, with interrupts off in a handler. *)

InHandler == uart.port # 0

\* Mutant of Buffered: the index stops at the last place of the ring.
BufferedSticky(scan) ==
  [kbd EXCEPT !.buf[kbd.curr] = scan,
              !.curr = IF kbd.curr = KEY_BUF - 1 THEN kbd.curr ELSE kbd.curr + 1]

\* There is no check that the ring has room.
Buffered(scan) ==
  [kbd EXCEPT !.buf[kbd.curr] = scan, !.curr = (@ + 1) % KEY_BUF]

KeyboardInterrupt(code) ==
  LET released == code >= SCAN_RELEASE_MASK
      scan == code % SCAN_RELEASE_MASK
      fills == scan \notin SCAN_SHIFTS \cup {SCAN_CAPS, SCAN_CTRL, SCAN_ALT}
               /\ ~released /\ scan < KeyMapSize
  IN  /\ ~InHandler
      /\ seen.events < MaxEvents
      /\ kbd' = CASE scan \in SCAN_SHIFTS -> [kbd EXCEPT !.shift = ~released]
                  [] scan = SCAN_CAPS -> [kbd EXCEPT !.caps = (@ # ~released)]
                  [] scan = SCAN_CTRL -> [kbd EXCEPT !.ctrl = ~released]
                  [] scan = SCAN_ALT -> [kbd EXCEPT !.alt = ~released]
                  [] fills -> Buffered(scan)
                  [] OTHER -> kbd
      /\ seen' = [seen EXCEPT !.events = @ + 1,
                              !.typed = IF fills THEN Append(@, scan) ELSE @,
                              !.overrun = @ \/ (fills /\ (kbd.curr + 1) % KEY_BUF = kbd.init)]
      /\ UNCHANGED <<proc, input, uart, con, vga, rebooted>>

UartInterruptComes ==
  /\ ~InHandler /\ con.by # "bsp"
  /\ seen.events < MaxEvents
  /\ uart' = [uart EXCEPT !.port = 1]
  /\ UNCHANGED <<kbd, proc, input, con, vga, rebooted, seen>>

NextPort == (uart.port + 1) % (ComPorts + 1)

\* The port has nothing for us.
UartPortIdle ==
  /\ InHandler /\ uart.c = 0
  /\ uart' = [uart EXCEPT !.port = NextPort]
  /\ UNCHANGED <<kbd, proc, input, con, vga, rebooted, seen>>

\* The byte is stored, then printed once the console lock is free.
UartReceive(c) ==
  /\ InHandler /\ uart.c = 0 /\ con = NoOne
  /\ seen.events < MaxEvents
  /\ input' = [buf |-> [input.buf EXCEPT ![input.curr] = c],
               curr |-> (input.curr + 1) % INPUT_BUF]
  /\ uart' = [uart EXCEPT !.c = c]
  /\ con' = [by |-> "uart", text |-> <<c>>, at |-> "buffer"]
  /\ seen' = [seen EXCEPT !.events = @ + 1, !.received = Append(@, c)]
  /\ UNCHANGED <<kbd, proc, vga, rebooted>>

BreakCmd(c) == IF c # Plus THEN NUM_PLUS ELSE uart.break_cmd - 1

\* uart_reboot of a byte that has been printed; one counter for all ports.
UartReboot ==
  /\ InHandler /\ uart.c # 0 /\ con.by # "uart"
  /\ uart' = [port |-> NextPort, c |-> 0, break_cmd |-> BreakCmd(uart.c)]
  /\ rebooted' = IF BreakCmd(uart.c) = 0 THEN "uart" ELSE ""
  /\ UNCHANGED <<kbd, proc, input, con, vga, seen>>

-----------------------------------------------------------------------------
(* The screen.                                                             *)

\* Mutant of NextScreen: the screen is not cleared before it is used again.
NextScreenKept(v) ==
  [v EXCEPT !.screen = (@ + 1) % VGA_SCREENS, !.row = 0, !.col = 0]

NextScreen(v) ==
  LET s == (v.screen + 1) % VGA_SCREENS
  IN  [v EXCEPT !.screen = s, !.buffer[s] = <<>>, !.row = 0, !.col = 0]

\* One turn of the loop of vga_write.
VgaChar(v, c) ==
  LET full == v.col > 0 /\ v.col % (VGA_COLS - 1) = 0
      line == IF full \/ c = NewLine THEN [v EXCEPT !.row = @ + 1, !.col = 0] ELSE v
      here == IF line.row = VGA_ROWS - 1 THEN NextScreen(line) ELSE line
  IN  IF c = NewLine THEN here
      ELSE [here EXCEPT !.buffer[here.screen] = Append(@, <<here.row, here.col, c>>),
                        !.col = @ + 1]

Scrolling == proc.at \in {"scroll", "copy"}

\* vga_write under the lock: the characters and the new scroll_screen, then
\* the copy.
VgaWrite ==
  /\ con # NoOne
  /\ con' = IF con.at = "buffer" THEN [con EXCEPT !.at = "copy"] ELSE NoOne
  /\ vga' = IF con.at = "buffer"
            THEN LET v == FoldLeft(VgaChar, vga, con.text)
                 IN  [v EXCEPT !.scroll_screen = v.screen]
            ELSE [vga EXCEPT !.memory = vga.buffer[vga.screen]]
  /\ seen' = [seen EXCEPT
       !.printed = IF con.at = "buffer"
                   THEN @ \o SelectSeq(con.text, LAMBDA c : c # NewLine) ELSE @,
       !.overlap = Scrolling \/ (@ /\ con.at # "buffer")]
  /\ UNCHANGED <<kbd, proc, input, uart, rebooted>>

\* printk of another CPU.
PrintOther(text) ==
  /\ con = NoOne
  /\ seen.events < MaxEvents
  /\ con' = [by |-> "other", text |-> text, at |-> "buffer"]
  /\ seen' = [seen EXCEPT !.events = @ + 1]
  /\ UNCHANGED <<kbd, proc, input, uart, vga, rebooted>>

-----------------------------------------------------------------------------
(* keyboard_process_keys, called for ever from the echo loop.              *)

TakeKey ==
  /\ ~InHandler /\ proc.at = "idle" /\ kbd.curr # kbd.init
  /\ proc' = [proc EXCEPT !.at = "key", !.scan = kbd.buf[kbd.init]]
  /\ UNCHANGED <<kbd, input, uart, con, vga, rebooted, seen>>

\* The switch, whose modifiers are those of now and not of the key press.  The
\* scroll reads scroll_screen once, stores it and copies that screen.
HandleKey ==
  LET key == keyboard_scan_to_key(proc.scan)
      up == key = SCAN_PAGEUP /\ kbd.shift /\ vga.scroll_screen > 0
      down == key = SCAN_PAGEDOWN /\ kbd.shift /\ vga.scroll_screen < VGA_SCREENS - 1
      asked == key = SCAN_DEL /\ kbd.alt /\ kbd.ctrl
      print == key \notin {SCAN_PAGEUP, SCAN_PAGEDOWN, SCAN_DEL} /\ isprint(key)
  IN  /\ ~InHandler /\ proc.at = "key"
      /\ print => con = NoOne
      /\ con' = IF print THEN [by |-> "bsp", text |-> <<key>>, at |-> "buffer"] ELSE con
      /\ proc' = [proc EXCEPT !.at = IF up \/ down THEN "scroll" ELSE "done",
                              !.screen = IF up THEN vga.scroll_screen - 1
                                         ELSE IF down THEN vga.scroll_screen + 1 ELSE 0]
      /\ rebooted' = IF asked THEN "keyboard" ELSE ""
      /\ seen' = [seen EXCEPT !.overlap = @ \/ ((up \/ down) /\ con # NoOne)]
      /\ UNCHANGED <<kbd, input, uart, vga>>

ScrollScreen ==
  /\ ~InHandler /\ Scrolling
  /\ proc' = [proc EXCEPT !.at = IF @ = "scroll" THEN "copy" ELSE "done"]
  /\ vga' = IF proc.at = "scroll" THEN [vga EXCEPT !.scroll_screen = proc.screen]
            ELSE [vga EXCEPT !.memory = vga.buffer[proc.screen]]
  /\ seen' = [seen EXCEPT !.overlap = @ \/ con # NoOne]
  /\ UNCHANGED <<kbd, input, uart, con, rebooted>>

NextKey ==
  /\ ~InHandler /\ proc.at = "done" /\ con.by # "bsp"
  /\ kbd' = [kbd EXCEPT !.init = (@ + 1) % KEY_BUF]
  /\ proc' = [proc EXCEPT !.at = "idle", !.scan = 0, !.screen = 0]
  /\ seen' = [seen EXCEPT !.done = Append(@, proc.scan)]
  /\ UNCHANGED <<input, uart, con, vga, rebooted>>

DevicesStep ==
  /\ rebooted = ""
  /\ \/ \E code \in Scans : KeyboardInterrupt(code)
     \/ UartInterruptComes \/ UartPortIdle \/ UartReboot
     \/ \E c \in Bytes : UartReceive(c)
     \/ VgaWrite
     \/ \E text \in Texts : PrintOther(text)
     \/ TakeKey \/ HandleKey \/ ScrollScreen \/ NextKey

DevicesInit ==
  /\ kbd = [shift |-> FALSE, caps |-> FALSE, ctrl |-> FALSE, alt |-> FALSE,
            buf |-> [i \in 0 .. KEY_BUF - 1 |-> 0], curr |-> 0, init |-> 0]
  /\ proc = [at |-> "idle", scan |-> 0, screen |-> 0]
  /\ input = [buf |-> [i \in 0 .. INPUT_BUF - 1 |-> 0], curr |-> 0]
  /\ uart = [port |-> 0, c |-> 0, break_cmd |-> NUM_PLUS]
  /\ con = NoOne
  /\ vga = [buffer |-> [s \in 0 .. VGA_SCREENS - 1 |-> <<>>], memory |-> <<>>,
            scroll_screen |-> 0, screen |-> 0, row |-> 0, col |-> 0]
  /\ rebooted = ""
  /\ seen = [events |-> 0, typed |-> <<>>, done |-> <<>>,
             received |-> <<>>, printed |-> <<>>, overrun |-> FALSE, overlap |-> FALSE]

-----------------------------------------------------------------------------
(* Properties.                                                             *)

Unread == [i \in 1 .. (kbd.curr - kbd.init) % KEY_BUF |-> kbd.buf[(kbd.init + i - 1) % KEY_BUF]]

EndsInBreak(s) == Len(s) >= NUM_PLUS /\ \A i \in Len(s) - NUM_PLUS + 1 .. Len(s) : s[i] = Plus

(***************************************************************************)
(* What comes in is heard once, in order, and only what asks for it        *)
(* reboots the machine.  As long as the interrupt never filled all of the  *)
(* ring, the keys that keyboard_process_keys handled, followed by the      *)
(* unread ones, are the keys that were typed.  The interrupt does not look *)
(* whether there is room, and what is lost when there is none are whole    *)
(* rings of keys: as many as were typed and neither handled nor unread,    *)
(* and a key that is handled, or unread, is one that was typed a number of *)
(* whole rings later, or the very one.  The ring always ends in the last   *)
(* key typed.  The UART reboots exactly when the last NUM_PLUS             *)
(* bytes of all ports together are '+', and the keyboard only for a key    *)
(* that maps to SCAN_DEL (the key DEL, and the capital letter S, which has *)
(* the same code) with ctrl and alt down.                                  *)
(***************************************************************************)
InputHandled ==
  LET heard == seen.done \o Unread IN
  /\ ~seen.overrun => heard = seen.typed
  /\ Len(heard) <= Len(seen.typed) /\ (Len(seen.typed) - Len(heard)) % KEY_BUF = 0
  /\ \A i \in DOMAIN heard : \E j \in i .. Len(seen.typed) :
       (j - i) % KEY_BUF = 0 /\ heard[i] = seen.typed[j]
  /\ seen.typed # <<>> => kbd.buf[(kbd.curr - 1) % KEY_BUF] = seen.typed[Len(seen.typed)]
  /\ rebooted = "uart" => EndsInBreak(seen.received)
  /\ EndsInBreak(seen.received) => rebooted = "uart" \/ uart.c = Plus
  /\ rebooted = "keyboard" =>
       /\ kbd.ctrl /\ kbd.alt
       /\ \/ proc.scan = SCAN_DEL
          \/ proc.scan = 31 /\ kbd.caps # kbd.shift

(***************************************************************************)
(* The screens hold the end of what was printed: from the one after the    *)
(* current screen round to the current one, their cells are the last       *)
(* characters given to vga_write, each in a place of its own inside the    *)
(* screen.  While nobody writes or scrolls, the VGA memory shows the       *)
(* screen scroll_screen names, unless a scroll ran at the same time as a   *)
(* write and no write has begun since.                                     *)
(***************************************************************************)
ScreenShown ==
  LET oldest == (vga.screen + 1) % VGA_SCREENS
      cells == FlattenSeq([i \in 1 .. VGA_SCREENS |-> vga.buffer[(oldest + i - 1) % VGA_SCREENS]])
      n == Len(seen.printed)
  IN  /\ \A s \in 0 .. VGA_SCREENS - 1 : \A i, j \in DOMAIN vga.buffer[s] :
           /\ vga.buffer[s][i][1] \in 0 .. VGA_ROWS - 1
           /\ vga.buffer[s][i][2] \in 0 .. VGA_COLS - 1
           /\ i # j => SubSeq(vga.buffer[s][i], 1, 2) # SubSeq(vga.buffer[s][j], 1, 2)
      /\ Len(cells) <= n
      /\ \A i \in DOMAIN cells : cells[i][3] = seen.printed[n - Len(cells) + i]
      /\ vga.scroll_screen \in 0 .. VGA_SCREENS - 1
      /\ ~seen.overlap /\ ~Scrolling /\ con = NoOne =>
           vga.memory = vga.buffer[vga.scroll_screen]
=============================================================================
