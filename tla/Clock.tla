-------------------------------- MODULE Clock --------------------------------
(***************************************************************************)
(* The real-time clock of the nc2000 and its alarm: the 1/256 s step of    *)
(* cpu_run3() with bumpRTC() and chk_ar() (cpu_loop_new.cpp), the guest's  *)
(* writes to the clock's registers (io_new.cpp, iv_uart.cpp), and          *)
(* sync_time_2000(), by which the emulator sets the clock to the host's.   *)
(*                                                                         *)
(* The registers are bytes, and the guest may write any value.  The sizes  *)
(* are parameters, so that TLC can have a short day; Clock256 is the       *)
(* machine's.                                                              *)
(***************************************************************************)
EXTENDS Integers

CONSTANTS Byte,     \* values of a register, 256
          Ticks,    \* steps of a second, 256: TR_ms wraps as a byte
          Minute,   \* seconds of a minute, 60
          Hour,     \* minutes of an hour, 60
          Day,      \* hours of a day, 24
          Mask,     \* 64 and 32: what chk_ar() masks a field with, plus 1
          TimeBytes, AlarmBytes  \* bound: bytes the guest writes

Fields == {"s", "m", "h"}
Registers == {"TR_ms", "TR_s", "TR_m", "TR_h", "TR_d", "AR_s", "AR_m", "AR_h"}
TR(f) == CASE f = "s" -> "TR_s" [] f = "m" -> "TR_m" [] f = "h" -> "TR_h"
AR(f) == CASE f = "s" -> "AR_s" [] f = "m" -> "AR_m" [] f = "h" -> "AR_h"
Size(f) == CASE f = "s" -> Minute [] f = "m" -> Hour [] f = "h" -> Day

\* Bit 7 of an alarm register switches its field on.
Bit7 == Byte \div 2

ASSUME ClockAssumption ==
    /\ Byte \in Nat \ {0} /\ Ticks \in 1 .. Byte
    /\ Minute \in Nat \ {0} /\ Hour \in Nat \ {0} /\ Day \in Nat \ {0}
    /\ Mask \in [Fields -> Nat \ {0}]
    /\ \A f \in Fields : Size(f) <= Mask[f] /\ Mask[f] <= Bit7
    /\ TimeBytes \subseteq 0 .. Byte - 1 /\ AlarmBytes \subseteq 0 .. Byte - 1

VARIABLES rtc_reg,     \* the registers
          alarm_on,    \* RCR0 enables the alarm interrupt
          protected,   \* bit 7 of RCR1 protects the time
          alarm,       \* IV_ALARM is pending
          settled      \* history: the guest and the host leave the clock alone

clockVars == <<rtc_reg, alarm_on, protected, alarm, settled>>

ClockInit == /\ rtc_reg = [r \in Registers |-> 0]
             /\ alarm_on = FALSE /\ protected = FALSE
             /\ alarm = FALSE /\ settled = FALSE
-----------------------------------------------------------------------------
(* The 1/256 s step *)

\* Mutant: a carry at 59.
bumpEarly(r) ==
    LET s == (r["TR_s"] + 1) % Byte
        m == (r["TR_m"] + 1) % Byte
        h == (r["TR_h"] + 1) % Byte
    IN  CASE s # Minute - 1 -> [r EXCEPT !["TR_s"] = s]
          [] s = Minute - 1 /\ m # Hour -> [r EXCEPT !["TR_s"] = 0, !["TR_m"] = m]
          [] s = Minute - 1 /\ m = Hour /\ h # Day ->
                [r EXCEPT !["TR_s"] = 0, !["TR_m"] = 0, !["TR_h"] = h]
          [] OTHER -> [r EXCEPT !["TR_s"] = 0, !["TR_m"] = 0, !["TR_h"] = 0,
                                !["TR_d"] = (@ + 1) % Byte]

\* Mutant: the minutes that are too large stay.
bumpSticks(r) ==
    LET s == (r["TR_s"] + 1) % Byte
    IN  IF s # Minute THEN [r EXCEPT !["TR_s"] = s]
        ELSE [r EXCEPT !["TR_s"] = 0,
                       !["TR_m"] = IF @ >= Hour THEN @ ELSE (@ + 1) % Hour]

\* A field carries when it becomes its size; one that is larger already counts
\* on until the byte wraps, and then carries nothing.
bumpRTC(r) ==
    LET s == (r["TR_s"] + 1) % Byte
        m == (r["TR_m"] + 1) % Byte
        h == (r["TR_h"] + 1) % Byte
    IN  CASE s # Minute -> [r EXCEPT !["TR_s"] = s]
          [] s = Minute /\ m # Hour -> [r EXCEPT !["TR_s"] = 0, !["TR_m"] = m]
          [] s = Minute /\ m = Hour /\ h # Day ->
                [r EXCEPT !["TR_s"] = 0, !["TR_m"] = 0, !["TR_h"] = h]
          [] OTHER -> [r EXCEPT !["TR_s"] = 0, !["TR_m"] = 0, !["TR_h"] = 0,
                                !["TR_d"] = (@ + 1) % Byte]

\* Mutant: the hour is not compared.
chk_ar_short(r) ==
    /\ \E f \in Fields : r[AR(f)] >= Bit7
    /\ \A f \in {"s", "m"} : r[AR(f)] >= Bit7 => r[AR(f)] % Mask[f] = r[TR(f)] % Mask[f]

\* Some field is on, and each that is on matches the time.
chk_ar(r) ==
    /\ \E f \in Fields : r[AR(f)] >= Bit7
    /\ \A f \in Fields : r[AR(f)] >= Bit7 => r[AR(f)] % Mask[f] = r[TR(f)] % Mask[f]

Tick == LET ms == (rtc_reg["TR_ms"] + 1) % Ticks
            reg == [rtc_reg EXCEPT !["TR_ms"] = ms]
        IN  /\ rtc_reg' = IF ms = 0 THEN bumpRTC(reg) ELSE reg
            /\ alarm' = (alarm \/ (ms = 0 /\ alarm_on /\ chk_ar(rtc_reg')))
            /\ UNCHANGED <<alarm_on, protected, settled>>
-----------------------------------------------------------------------------
(* The guest's writes to 0x3f, and the host's clock *)

\* Protection covers the registers below 7: all but the alarm's hour.
Write(r, value) ==
    /\ ~settled
    /\ rtc_reg' = IF protected /\ r # "AR_h" THEN rtc_reg
                  ELSE [rtc_reg EXCEPT ![r] = value]
    /\ UNCHANGED <<alarm_on, protected, alarm, settled>>

write_rcr0(enable) == /\ ~settled
                      /\ alarm_on' = enable
                      /\ UNCHANGED <<rtc_reg, protected, alarm, settled>>

write_rcr1(protect, acknowledge) ==
    /\ settled => protect = protected
    /\ protected' = protect
    /\ alarm' = (alarm /\ ~acknowledge)
    /\ UNCHANGED <<rtc_reg, alarm_on, settled>>

\* The step within the second stays.
sync_time_2000(h, m, s) ==
    /\ ~settled
    /\ rtc_reg' = [rtc_reg EXCEPT !["TR_h"] = h, !["TR_m"] = m, !["TR_s"] = s]
    /\ UNCHANGED <<alarm_on, protected, alarm, settled>>

Settle == /\ ~settled /\ settled' = TRUE
          /\ UNCHANGED <<rtc_reg, alarm_on, protected, alarm>>

GuestWrites == \/ \E r \in {"TR_ms", "TR_s", "TR_m", "TR_h", "TR_d"}, value \in TimeBytes :
                     (r = "TR_ms" => value < Ticks) /\ Write(r, value)
               \/ \E f \in Fields, value \in AlarmBytes : Write(AR(f), value)

ClockNext == \/ Tick
             \/ GuestWrites
             \/ \E enable \in BOOLEAN : write_rcr0(enable)
             \/ \E protect, acknowledge \in BOOLEAN : write_rcr1(protect, acknowledge)
             \/ \E h \in 0 .. Day - 1, m \in 0 .. Hour - 1, s \in 0 .. Minute - 1 :
                   sync_time_2000(h, m, s)
             \/ Settle

\* cpu_run3() is called again and again, so time goes on.
ClockFairness == WF_clockVars(Tick)
ClockSpec == ClockInit /\ [][ClockNext]_clockVars /\ ClockFairness
-----------------------------------------------------------------------------
(* Properties *)

ClockTypeOK == /\ rtc_reg \in [Registers -> 0 .. Byte - 1]
               /\ rtc_reg["TR_ms"] < Ticks
               /\ alarm_on \in BOOLEAN /\ protected \in BOOLEAN
               /\ alarm \in BOOLEAN /\ settled \in BOOLEAN

Legal == \A f \in Fields : rtc_reg[TR(f)] < Size(f)

\* The seconds since day 0, which the registers count in mixed radix.
Now == ((rtc_reg["TR_d"] * Day + rtc_reg["TR_h"]) * Hour + rtc_reg["TR_m"]) * Minute
          + rtc_reg["TR_s"]

\* A legal time counts seconds: every 256th step adds one to the number that
\* the day, hour, minute and second make, and no other step changes it.  Only
\* the guest and the host set the clock (bumpRTC).
SecondsCounted ==
    [][Tick /\ Legal =>
         /\ Legal'
         /\ Now' = IF rtc_reg["TR_ms"] # Ticks - 1 THEN Now
                   ELSE (Now + 1) % (Byte * Day * Hour * Minute)]_clockVars

\* The fields that are on hold values which occur.
Armed == /\ alarm_on
         /\ \E f \in Fields : rtc_reg[AR(f)] >= Bit7
         /\ \A f \in Fields : rtc_reg[AR(f)] >= Bit7 => rtc_reg[AR(f)] % Mask[f] < Size(f)

\* A guest may set a time that does not exist.  The clock comes back to a legal
\* one once it is left alone and stays there, and then an alarm for a time that
\* exists rings (bumpRTC's == 60 and the byte's wrap).
ClockRecovers == /\ settled ~> []Legal
                 /\ (settled /\ Armed) ~> alarm

\* It rings at that time and at no other: with a legal time and an alarm for a
\* time that exists, IV_ALARM comes in the step that makes each field that is
\* on the same as the time's (chk_ar's masks).
AlarmOnTime ==
    [][Tick /\ Legal /\ Armed /\ ~alarm =>
         (alarm' <=> /\ rtc_reg'["TR_ms"] = 0
                     /\ \A f \in Fields : rtc_reg[AR(f)] >= Bit7 =>
                           rtc_reg'[TR(f)] = rtc_reg[AR(f)] % Mask[f])]_clockVars
=============================================================================
