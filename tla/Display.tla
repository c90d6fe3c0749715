------------------------------- MODULE Display -------------------------------
(***************************************************************************)
(* The LCD: the registers 0x05, 0x06, 0x0b and 0x0c (io_new.cpp,           *)
(* NekoDriverIO.cpp) and what the two resets leave of them (nc2000.cpp,    *)
(* state.h), and Render() of the SDL build (display.cpp) and of the        *)
(* framebuffer port (display_fb.cpp) with CopyLcdBuffer().                 *)
(*                                                                         *)
(* The nc2000 shows one of two places of its memory: the monochrome buffer *)
(* at 0x19c0 or, when the registers say 0x1380, the one with grey levels.  *)
(* A picture is a value; one of its pixels is followed through the slow    *)
(* crystal that the SDL build imitates.  That build draws every 8 ms and   *)
(* presents every other drawing; the screen here is the drawing.  While it *)
(* saves power its main loop (main.cpp) runs no slice and draws nothing.   *)
(***************************************************************************)
EXTENDS Integers

CONSTANTS Pictures,     \* what the guest draws
          ColorOf,      \* the shade of a pixel in a picture, blank or the console
          Charge, Discharge, \* <<a, b>>: the part a / b by which a pixel darkens
                             \* and fades, 1/6 and 1/8
          InnerInterval, \* LCD_INNER_REFRESH_INTERVAL; the port has one interval
          Bytes06, Bytes0B, Bytes0C, \* bound: values the guest writes, of the
                                     \* bits that concern the LCD
          Clocks         \* bound: clock selections (CKS) the guest writes

Blank == "blank"
ConsoleText == "console"
Buffers == {"mono", "grey"}

\* CKS: the factor by which each selection slows the CPU down; 7 is off.
int_inf == 2147483647
ScaledownOf == [cks \in 0 .. 7 |-> CASE cks = 0 -> 8 [] cks = 1 -> 4 [] cks = 2 -> 2 [] cks = 3 -> 1
                                     [] cks = 4 -> 64 [] cks = 5 -> 32 [] cks = 6 -> 16
                                     [] cks = 7 -> int_inf]

ASSUME DisplayAssumption ==
    /\ ColorOf \in [Pictures \cup {Blank, ConsoleText} -> Nat]
    /\ \A p \in {Charge, Discharge} : p[2] \in Nat \ {0} /\ p[1] \in 0 .. p[2]
    /\ InnerInterval \in Nat \ {0}
    /\ Bytes06 \subseteq 0 .. 255 /\ Bytes0B \subseteq 0 .. 3 /\ Bytes0C \subseteq 0 .. 3
    /\ Clocks \subseteq 0 .. 7

VARIABLES port,            \* the build: "sdl" or "fb"
          cks, lcdon,      \* register 0x05
          speed_scaledown,
          io06, io0C, io0B, \* registers 0x06, 0x0c (bits 0, 1) and 0x0b (bits 5, 6)
          lcdbuffaddr, lcdbuffaddrmask, lcden,
          memory,          \* the picture in each buffer
          console_shown,   \* console_on; only in the SDL build
          asleep,          \* power_save; only in the SDL build
          lcd_buf, screen, shade,
          tick,            \* the main loop's, within an interval
          another,         \* it has left the interval of last_render_tick
          written,         \* history: address registers written since a cold reset
          still            \* history: the guest and the user change nothing

registers == <<cks, lcdon, speed_scaledown, io06, io0C, io0B, lcdbuffaddr,
               lcdbuffaddrmask, lcden, written>>
shown == <<lcd_buf, screen, shade, tick, another>>
host == <<port, console_shown, asleep>>
displayVars == <<registers, host, memory, shown, still>>

ColdRegisters == /\ cks' = 0 /\ lcdon' = 0 /\ speed_scaledown' = 1
                 /\ io06' = 0 /\ io0C' = 0 /\ io0B' = 0
                 /\ lcdbuffaddr' = 2496 /\ lcdbuffaddrmask' = 4095   \* 0x09C0, 0x0FFF
                 /\ lcden' = 0 /\ written' = {}

DisplayInit == /\ port \in {"sdl", "fb"}
               /\ cks = 0 /\ lcdon = 0 /\ speed_scaledown = 1
               /\ io06 = 0 /\ io0C = 0 /\ io0B = 0
               /\ lcdbuffaddr = 2496 /\ lcdbuffaddrmask = 4095
               /\ lcden = 0 /\ written = {}
               /\ memory \in [Buffers -> {CHOOSE p \in Pictures : TRUE}]
               /\ console_shown = FALSE /\ asleep = FALSE
               /\ lcd_buf = Blank /\ screen = [grey |-> FALSE, picture |-> Blank]
               /\ shade = 0
               /\ tick = 0 /\ another = FALSE
               /\ still = FALSE
-----------------------------------------------------------------------------
(* Registers *)

\* The guest runs, and the user may still change something.
Running == ~still /\ ~asleep

Writes(address) == /\ Running
                   /\ written' = written \cup address
                   /\ UNCHANGED <<host, memory, shown, still>>

\* The factor changes only with the selection: after a reset it stays 1 until
\* another clock is selected.
Write05ClockCtrl(select, on) ==
    /\ Writes({})
    /\ cks' = select /\ lcdon' = on
    /\ speed_scaledown' = IF select # cks THEN ScaledownOf[select] ELSE speed_scaledown
    /\ UNCHANGED <<io06, io0C, io0B, lcdbuffaddr, lcdbuffaddrmask, lcden>>

\* Mutant: the bits of the other register are lost.
Write06Alone(value) ==
    /\ Writes({"06"})
    /\ io06' = value
    /\ lcdbuffaddr' = value * 16
    /\ UNCHANGED <<cks, lcdon, speed_scaledown, io0C, io0B, lcdbuffaddrmask, lcden>>

\* Bits 4 to 11 of the address.
Write06LCDStartAddr(value) ==
    /\ Writes({"06"})
    /\ io06' = value
    /\ lcdbuffaddr' = lcdbuffaddr - ((lcdbuffaddr \div 16) % 256) * 16 + value * 16
    /\ UNCHANGED <<cks, lcdon, speed_scaledown, io0C, io0B, lcdbuffaddrmask, lcden>>

\* Bits 12 and 13; the other bits of the register are the timers'.
Write0CTimer01Control(low) ==
    /\ Writes({"0c"})
    /\ io0C' = low
    /\ lcdbuffaddr' = lcdbuffaddr - ((lcdbuffaddr \div 4096) % 4) * 4096 + low * 4096
    /\ UNCHANGED <<cks, lcdon, speed_scaledown, io06, io0B, lcdbuffaddrmask, lcden>>

Power2 == <<1, 2, 4, 8>>

\* How many bits of the address count, and whether the LCD is enabled.
Write0BPort3LCDStartAddr(bits, enable) ==
    /\ Writes({"0b"})
    /\ io0B' = bits
    /\ lcdbuffaddrmask' = 16383 \div Power2[bits + 1]   \* 0x3fff >> bits
    /\ lcden' = enable
    /\ UNCHANGED <<cks, lcdon, speed_scaledown, io06, io0C, lcdbuffaddr>>

\* A file command runs the guest at full speed.
FullSpeed == /\ Running /\ speed_scaledown' = 1
             /\ UNCHANGED <<cks, lcdon, io06, io0C, io0B, lcdbuffaddr, lcdbuffaddrmask, lcden,
                            written, host, memory, shown, still>>

nc2k_state_warm_reset ==
    /\ Running /\ cks' = 0 /\ speed_scaledown' = 1
    /\ UNCHANGED <<lcdon, io06, io0C, io0B, lcdbuffaddr, lcdbuffaddrmask, lcden,
                   written, host, memory, shown, still>>

nc2k_state_cold_reset == /\ Running /\ ColdRegisters
                         /\ UNCHANGED <<host, memory, shown, still>>

Draw(buffer, p) == /\ Running /\ cks # 7
                   /\ memory' = [memory EXCEPT ![buffer] = p]
                   /\ UNCHANGED <<registers, host, shown, still>>

\* Every key ends power saving, the console's too.
ToggleConsole == /\ ~still /\ port = "sdl"
                 /\ console_shown' = ~console_shown /\ asleep' = FALSE
                 /\ UNCHANGED <<registers, port, memory, shown, still>>
KeyPressed == /\ asleep /\ asleep' = FALSE
              /\ UNCHANGED <<registers, port, console_shown, memory, shown, still>>

\* After a time without a key, which Pacing counts.
EnterPowerSave == /\ port = "sdl" /\ ~asleep /\ asleep' = TRUE
                  /\ UNCHANGED <<registers, port, console_shown, memory, shown, still>>

LeaveStill == /\ ~still /\ still' = TRUE
              /\ UNCHANGED <<registers, host, memory, shown>>
-----------------------------------------------------------------------------
(* Render() *)

\* lcdbuffaddr & lcdbuffaddrmask; the mask is all ones below a power of two.
LcdAddress == lcdbuffaddr % (lcdbuffaddrmask + 1)
is_grey_mode == ~console_shown /\ LcdAddress = 4992   \* 0x1380
lcd_on == lcden = 1 /\ lcdon = 1 /\ cks # 7

\* Nothing is copied while the address is 0.
CanCopy == LcdAddress # 0
CopyLcdBuffer == IF CanCopy THEN memory[IF is_grey_mode THEN "grey" ELSE "mono"] ELSE lcd_buf

\* Mutant: the last step, which rounds to nothing, is left out.
StepRounds(from, to) ==
    IF to < from THEN from - ((from - to) * Charge[1]) \div Charge[2]
    ELSE from + ((to - from) * Discharge[1]) \div Discharge[2]

\* handle_pixel(): a step towards the color, of at least one.
AtLeast1(delta) == IF delta = 0 THEN 1 ELSE delta
handle_pixel(from, to) ==
    CASE to < from -> from - AtLeast1(((from - to) * Charge[1]) \div Charge[2])
      [] to > from -> from + AtLeast1(((to - from) * Discharge[1]) \div Discharge[2])
      [] OTHER -> from

Frame == CASE console_shown -> ConsoleText
           [] ~console_shown /\ ~lcd_on -> Blank
           [] OTHER -> CopyLcdBuffer

\* Only when the tick has reached another interval.  The port leaves the screen
\* as it is when nothing can be copied; the SDL build draws the old bytes.
Render == /\ lcd_buf' = Frame
          /\ IF port = "fb" /\ lcd_on /\ ~CanCopy THEN UNCHANGED <<screen, shade>>
             ELSE /\ screen' = [grey |-> is_grey_mode, picture |-> Frame]
                  /\ shade' = IF port = "fb" THEN ColorOf[Frame]
                              ELSE handle_pixel(shade, ColorOf[Frame])

\* A pass of the main loop, which moves the tick on.
RenderStep ==
    LET drawn == another /\ ~asleep
    IN  /\ IF drawn THEN Render ELSE UNCHANGED <<lcd_buf, screen, shade>>
        /\ tick' = (tick + 1) % InnerInterval
        /\ another' = (tick' = 0 \/ (another /\ ~drawn))
        /\ UNCHANGED <<registers, host, memory, still>>

DisplayNext == \/ \E select \in Clocks, on \in {0, 1} : Write05ClockCtrl(select, on)
               \/ \E value \in Bytes06 : Write06LCDStartAddr(value)
               \/ \E low \in Bytes0C : Write0CTimer01Control(low)
               \/ \E bits \in Bytes0B, enable \in {0, 1} : Write0BPort3LCDStartAddr(bits, enable)
               \/ FullSpeed \/ nc2k_state_warm_reset \/ nc2k_state_cold_reset
               \/ \E buffer \in Buffers, p \in Pictures : Draw(buffer, p)
               \/ ToggleConsole \/ KeyPressed \/ EnterPowerSave \/ LeaveStill
               \/ RenderStep

\* The main loop calls Render() again and again unless it saves power, and a
\* key keeps it from that for many passes.
DisplayFairness == SF_displayVars(~asleep /\ RenderStep)
DisplaySpec == DisplayInit /\ [][DisplayNext]_displayVars /\ DisplayFairness
-----------------------------------------------------------------------------
(* Properties *)

\* The address is put together by two registers, one of which the timers share,
\* and resets to a value that neither holds.  Once the guest has written both,
\* it is what they say, whatever it was before and in whichever order they come
\* (0x06, 0x0c), and so is the number of its bits that count (0x0b).
AddressAsWritten ==
    /\ {"06", "0c"} \subseteq written => lcdbuffaddr = io06 * 16 + io0C * 4096
    /\ "0b" \in written => lcdbuffaddrmask + 1 = 16384 \div Power2[io0B + 1]

\* The emulator may run the CPU faster than the guest asks, never slower; and
\* not at all only while the clock is off (0x05, the resets, cpu_run3).
SpeedHonest == speed_scaledown \in {1, ScaledownOf[cks]}

\* What has been derived from the registers agrees with them, whatever writes
\* and resets came in between.
RegistersObeyed == AddressAsWritten /\ SpeedHonest

\* What the screen is to show.
Expected == IF console_shown THEN ConsoleText
            ELSE IF ~lcd_on THEN Blank
            ELSE memory[IF is_grey_mode THEN "grey" ELSE "mono"]

\* The screen catches up: when the guest has drawn its last picture, selected
\* the other buffer or turned the LCD off, the screen comes to show it, in the
\* right number of levels, and each pixel reaches its shade, unless the SDL
\* build saves power for ever: what is then not yet drawn, or faded half way,
\* stays so until a key is pressed.  (With an address of 0 there is nothing to
\* show.)
ScreenFollows ==
    []<>~asleep =>
      ((still /\ (CanCopy \/ ~lcd_on \/ console_shown)) ~>
          (screen = [grey |-> is_grey_mode, picture |-> Expected] /\ shade = ColorOf[Expected]))
-----------------------------------------------------------------------------
(* What makes RegistersObeyed inductive *)

RegistersTypeOK == /\ cks \in 0 .. 7 /\ written \subseteq {"06", "0b", "0c"}
                   /\ io06 \in 0 .. 255 /\ io0C \in 0 .. 3 /\ io0B \in 0 .. 3

\* The address has the bits of two registers and zeros below them, each from its
\* register once that has been written.
AddressMade ==
    \E mid \in 0 .. 255, high \in 0 .. 3 :
        /\ lcdbuffaddr = high * 4096 + mid * 16
        /\ "06" \in written => mid = io06
        /\ "0c" \in written => high = io0C

MaskMade == "0b" \in written => lcdbuffaddrmask = 16383 \div Power2[io0B + 1]

RegistersInv == RegistersTypeOK /\ AddressMade /\ MaskMade /\ SpeedHonest
=============================================================================
