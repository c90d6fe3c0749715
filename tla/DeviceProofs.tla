----------------------------- MODULE DeviceProofs -----------------------------
(***************************************************************************)
(* Proofs about Clock, Timers and TimeBase, for registers, prescalers and  *)
(* rates of any size: the clock counts seconds, the alarm rings on time,   *)
(* no cycle is lost in a timer, and the timers are fed every cycle once.   *)
(* And about Uart: handlers leave its registers as they were.              *)
(***************************************************************************)
EXTENDS Clock, Timers, TimeBase, Uart, TLAPS

(* Numbers in mixed radix *)

\* Quotient and remainder.
LEMMA DivMod ==
    ASSUME NEW n \in Nat, NEW k \in Nat \ {0}
    PROVE  /\ n \div k \in Nat /\ n % k \in 0 .. k - 1
           /\ n = k * (n \div k) + (n % k)
  OBVIOUS

LEMMA Small == ASSUME NEW k \in Nat \ {0}, NEW n \in 0 .. k - 1
               PROVE  n % k = n /\ n \div k = 0
  OBVIOUS

\* A carry out of the lower digit goes to the upper one.
LEMMA Carry ==
    ASSUME NEW hi \in Nat, NEW lo \in Nat, NEW k \in Nat \ {0}
    PROVE  hi * k + lo = (hi + lo \div k) * k + (lo % k)
  <1>1. lo = k * (lo \div k) + (lo % k) /\ lo \div k \in Nat /\ lo % k \in Nat
    BY DivMod
  <1> DEFINE q == lo \div k
             r == lo % k
  <1> HIDE DEF q, r
  <1>2. lo = k * q + r /\ q \in Nat /\ r \in Nat
    BY <1>1 DEF q, r
  <1>3. hi * k + (k * q + r) = (hi + q) * k + r
    BY <1>2
  <1>4. QED
    BY <1>2, <1>3 DEF q, r

\* A number of two digits is below the product of their ranges.
LEMMA TwoDigits ==
    ASSUME NEW n \in Nat \ {0}, NEW k \in Nat \ {0}, NEW hi \in 0 .. n - 1, NEW lo \in 0 .. k - 1
    PROVE  hi * k + lo \in 0 .. n * k - 1
  <1>1. hi * k \in Nat /\ n * k \in Nat
    OBVIOUS
  <1>2. (n - 1 - hi) * k >= 0
    OBVIOUS
  <1>3. (n - 1 - hi) * k = n * k - k - hi * k
    OBVIOUS
  <1>4. QED
    BY <1>1, <1>2, <1>3

\* The remainder of a number that is some rounds beyond a small one.
LEMMA Rounds ==
    ASSUME NEW k \in Nat \ {0}, NEW q \in Nat, NEW r \in 0 .. k - 1
    PROVE  /\ (q * k + r) % k = r
           /\ q * k + r >= k <=> q >= 1
  OBVIOUS
-----------------------------------------------------------------------------
(* The clock *)

\* The values of a register.
Values == 0 .. Byte - 1

LEMMA Sizes ==
    /\ Byte \in Nat \ {0} /\ Bit7 \in Nat /\ Bit7 < Byte
    /\ \A f \in Fields : /\ Size(f) \in Nat \ {0} /\ Mask[f] \in Nat \ {0}
                         /\ Size(f) <= Mask[f] /\ Mask[f] <= Bit7
    /\ Minute \in Nat \ {0} /\ Hour \in Nat \ {0} /\ Day \in Nat \ {0}
    /\ Minute < Byte /\ Hour < Byte /\ Day < Byte
    /\ Ticks \in Nat \ {0} /\ Ticks <= Byte
  <1> USE ClockAssumption
  <1>1. Byte \in Nat \ {0} /\ Bit7 \in Nat /\ Bit7 < Byte
    BY DEF Bit7
  <1>2. \A f \in Fields : /\ Size(f) \in Nat \ {0} /\ Mask[f] \in Nat \ {0}
                          /\ Size(f) <= Mask[f] /\ Mask[f] <= Bit7
    BY DEF Fields, Size
  <1>3. Size("s") = Minute /\ Size("m") = Hour /\ Size("h") = Day
    BY DEF Size
  <1>4. {"s", "m", "h"} = Fields
    BY DEF Fields
  <1>5. Minute <= Mask["s"] /\ Hour <= Mask["m"] /\ Day <= Mask["h"]
    BY <1>2, <1>3, <1>4
  <1>6. Mask["s"] \in Nat /\ Mask["m"] \in Nat /\ Mask["h"] \in Nat
        /\ Mask["s"] <= Bit7 /\ Mask["m"] <= Bit7 /\ Mask["h"] <= Bit7
    BY <1>2, <1>4
  <1>7. Minute < Byte /\ Hour < Byte /\ Day < Byte
    BY <1>1, <1>5, <1>6
  <1>8. QED
    BY <1>1, <1>2, <1>7

\* The registers by name.
LEMMA Names8 ==
    /\ TR("s") = "TR_s" /\ TR("m") = "TR_m" /\ TR("h") = "TR_h"
    /\ AR("s") = "AR_s" /\ AR("m") = "AR_m" /\ AR("h") = "AR_h"
    /\ \A f \in Fields : TR(f) \in Registers /\ AR(f) \in {"AR_s", "AR_m", "AR_h"}
    /\ {"AR_s", "AR_m", "AR_h"} \subseteq Registers
  BY DEF TR, AR, Fields, Registers

\* A second leaves the steps within it and the alarm alone.
LEMMA BumpKeeps ==
    ASSUME NEW r \in [Registers -> Values]
    PROVE  /\ bumpRTC(r) \in [Registers -> Values]
           /\ \A x \in {"TR_ms", "AR_s", "AR_m", "AR_h"} : bumpRTC(r)[x] = r[x]
  <1> DEFINE s == (r["TR_s"] + 1) % Byte
             m == (r["TR_m"] + 1) % Byte
             h == (r["TR_h"] + 1) % Byte
             d == (r["TR_d"] + 1) % Byte
  <1>1. /\ s \in Values /\ m \in Values /\ h \in Values /\ d \in Values /\ 0 \in Values
    <2>1. \A x \in Values : (x + 1) % Byte \in Values
      BY Sizes DEF Values
    <2>2. {r["TR_s"], r["TR_m"], r["TR_h"], r["TR_d"]} \subseteq Values
      BY DEF Registers
    <2>3. 0 \in Values
      BY Sizes DEF Values
    <2>4. QED
      BY <2>1, <2>2, <2>3
  <1> HIDE DEF s, m, h, d
  <1>2. \/ bumpRTC(r) = [r EXCEPT !["TR_s"] = s]
        \/ bumpRTC(r) = [r EXCEPT !["TR_s"] = 0, !["TR_m"] = m]
        \/ bumpRTC(r) = [r EXCEPT !["TR_s"] = 0, !["TR_m"] = 0, !["TR_h"] = h]
        \/ bumpRTC(r) = [r EXCEPT !["TR_s"] = 0, !["TR_m"] = 0, !["TR_h"] = 0, !["TR_d"] = d]
    BY DEF bumpRTC, s, m, h, d
  <1>3. QED
    BY <1>1, <1>2 DEF Registers

\* A legal time of seconds, minutes and hours.
LegalTime(r) == r["TR_s"] < Minute /\ r["TR_m"] < Hour /\ r["TR_h"] < Day

Seconds(r) == ((r["TR_d"] * Day + r["TR_h"]) * Hour + r["TR_m"]) * Minute + r["TR_s"]

\* All the seconds that the registers can count.
Rounded == Byte * Day * Hour * Minute

LEMMA LegalIs == Legal <=> LegalTime(rtc_reg)
  BY DEF Legal, LegalTime, Fields, TR, Size

\* A legal time is below Rounded.
LEMMA SecondsBounded ==
    ASSUME NEW r \in [Registers -> Values], LegalTime(r)
    PROVE  Seconds(r) \in 0 .. Rounded - 1 /\ Rounded \in Nat \ {0}
  <1> USE Sizes
  <1>1. r["TR_d"] \in 0 .. Byte - 1 /\ r["TR_h"] \in 0 .. Day - 1 /\ r["TR_m"] \in 0 .. Hour - 1
        /\ r["TR_s"] \in 0 .. Minute - 1
    BY DEF Registers, Values, LegalTime
  <1>2. Byte * Day \in Nat \ {0}
    OBVIOUS
  <1>3. (Byte * Day) * Hour \in Nat \ {0}
    BY <1>2
  <1>4. ((Byte * Day) * Hour) * Minute \in Nat \ {0}
    BY <1>3
  <1>5. r["TR_d"] * Day + r["TR_h"] \in 0 .. Byte * Day - 1
    BY <1>1, TwoDigits
  <1>6. (r["TR_d"] * Day + r["TR_h"]) * Hour + r["TR_m"] \in 0 .. (Byte * Day) * Hour - 1
    BY <1>1, <1>2, <1>5, TwoDigits
  <1>7. Seconds(r) \in 0 .. ((Byte * Day) * Hour) * Minute - 1
    BY <1>1, <1>3, <1>6, TwoDigits DEF Seconds
  <1>8. QED
    BY <1>4, <1>7 DEF Rounded

\* A second adds one, with its carries, and the time stays legal.
LEMMA BumpCounts ==
    ASSUME NEW r \in [Registers -> Values], LegalTime(r)
    PROVE  /\ LegalTime(bumpRTC(r))
           /\ Seconds(bumpRTC(r)) = (Seconds(r) + 1) % Rounded
  <1> USE Sizes
  <1> DEFINE s == r["TR_s"] + 1
             m == r["TR_m"] + 1
             h == r["TR_h"] + 1
             d == (r["TR_d"] + 1) % Byte
             b == bumpRTC(r)
  <1>1. /\ r["TR_d"] \in 0 .. Byte - 1 /\ r["TR_h"] \in 0 .. Day - 1
        /\ r["TR_m"] \in 0 .. Hour - 1 /\ r["TR_s"] \in 0 .. Minute - 1
    BY DEF Registers, Values, LegalTime
  <1>2. /\ (r["TR_s"] + 1) % Byte = s /\ (r["TR_m"] + 1) % Byte = m /\ (r["TR_h"] + 1) % Byte = h
    BY <1>1, Small
  <1>3. /\ Seconds(r) + 1 \in 1 .. Rounded /\ Rounded \in Nat \ {0}
    BY SecondsBounded
  <1>4. SUFFICES /\ LegalTime(b)
                 /\ Seconds(b) = Seconds(r) + 1 \/ (Seconds(b) = 0 /\ Seconds(r) + 1 = Rounded)
    <2>1. ASSUME Seconds(r) + 1 = Rounded, Seconds(b) = 0 PROVE Seconds(b) = (Seconds(r) + 1) % Rounded
      BY <1>3, <2>1
    <2>2. ASSUME LegalTime(b), Seconds(b) = Seconds(r) + 1 PROVE Seconds(b) = (Seconds(r) + 1) % Rounded
      <3>1. Seconds(b) \in 0 .. Rounded - 1
        BY <2>2, BumpKeeps, SecondsBounded
      <3>2. QED
        BY <1>3, <2>2, <3>1, Small
    <2>3. QED
      BY <1>4, <2>1, <2>2
  <1>5. {"TR_s", "TR_m", "TR_h", "TR_d"} \subseteq Registers
    BY DEF Registers
  <1>6. CASE s # Minute
    <2>1. b = [r EXCEPT !["TR_s"] = s]
      BY <1>2, <1>6 DEF bumpRTC
    <2>2. b["TR_s"] = s /\ b["TR_m"] = r["TR_m"] /\ b["TR_h"] = r["TR_h"] /\ b["TR_d"] = r["TR_d"]
      BY <1>5, <2>1
    <2>3. s < Minute
      BY <1>1, <1>6
    <2>4. ((r["TR_d"] * Day + r["TR_h"]) * Hour + r["TR_m"]) * Minute \in Nat
      BY <1>1
    <2>5. Seconds(b) = Seconds(r) + 1
      BY <1>1, <2>2, <2>4 DEF Seconds
    <2>6. QED
      BY <2>2, <2>3, <2>5 DEF LegalTime
  <1>7. CASE s = Minute /\ m # Hour
    <2>1. b = [r EXCEPT !["TR_s"] = 0, !["TR_m"] = m]
      BY <1>2, <1>7 DEF bumpRTC
    <2>2. b["TR_s"] = 0 /\ b["TR_m"] = m /\ b["TR_h"] = r["TR_h"] /\ b["TR_d"] = r["TR_d"]
      BY <1>5, <2>1
    <2>3. m < Hour
      BY <1>1, <1>7
    <2> DEFINE x == (r["TR_d"] * Day + r["TR_h"]) * Hour
    <2>4. x \in Nat
      BY <1>1
    <2>5. (x + m) * Minute + 0 = (x + r["TR_m"]) * Minute + s
      <3> HIDE DEF x
      <3>1. (x + r["TR_m"] + 1) * Minute = (x + r["TR_m"]) * Minute + Minute
        BY <1>1, <2>4
      <3>2. QED
        BY <1>1, <1>7, <2>4, <3>1
    <2>6. Seconds(b) = Seconds(r) + 1
      BY <1>1, <2>2, <2>4, <2>5 DEF Seconds
    <2>7. QED
      BY <2>2, <2>3, <2>6 DEF LegalTime
  <1>8. CASE s = Minute /\ m = Hour /\ h # Day
    <2>1. b = [r EXCEPT !["TR_s"] = 0, !["TR_m"] = 0, !["TR_h"] = h]
      BY <1>2, <1>8 DEF bumpRTC
    <2>2. b["TR_s"] = 0 /\ b["TR_m"] = 0 /\ b["TR_h"] = h /\ b["TR_d"] = r["TR_d"]
      BY <1>5, <2>1
    <2>3. h < Day
      BY <1>1, <1>8
    <2> DEFINE x == r["TR_d"] * Day
    <2>4. x \in Nat
      BY <1>1
    <2>5. ((x + h) * Hour + 0) * Minute + 0 = ((x + r["TR_h"]) * Hour + r["TR_m"]) * Minute + s
      <3> HIDE DEF x
      <3>1. (x + r["TR_h"] + 1) * Hour = (x + r["TR_h"]) * Hour + m
        BY <1>1, <1>8, <2>4
      <3>2. ((x + r["TR_h"]) * Hour + r["TR_m"] + 1) * Minute
              = ((x + r["TR_h"]) * Hour + r["TR_m"]) * Minute + s
        BY <1>1, <1>8, <2>4
      <3>3. QED
        BY <1>1, <1>8, <2>4, <3>1, <3>2
    <2>6. Seconds(b) = Seconds(r) + 1
      BY <1>1, <2>2, <2>4, <2>5 DEF Seconds
    <2>7. QED
      BY <2>2, <2>3, <2>6 DEF LegalTime
  <1>9. CASE s = Minute /\ m = Hour /\ h = Day
    <2>1. b = [r EXCEPT !["TR_s"] = 0, !["TR_m"] = 0, !["TR_h"] = 0, !["TR_d"] = d]
      BY <1>2, <1>9 DEF bumpRTC
    <2>2. b["TR_s"] = 0 /\ b["TR_m"] = 0 /\ b["TR_h"] = 0 /\ b["TR_d"] = d
      BY <1>5, <2>1
    <2>3. Seconds(r) + 1 = (r["TR_d"] + 1) * Day * Hour * Minute
      <3>1. (r["TR_d"] + 1) * Day = r["TR_d"] * Day + h
        BY <1>1, <1>9
      <3> DEFINE x == r["TR_d"] * Day
                 y == (x + r["TR_h"]) * Hour
      <3>2. x \in Nat
        BY <1>1
      <3> HIDE DEF x
      <3>3. y \in Nat /\ (x + r["TR_h"] + 1) * Hour = y + m
        BY <1>1, <1>9, <3>2
      <3> HIDE DEF y
      <3>4. (y + r["TR_m"] + 1) * Minute = (y + r["TR_m"]) * Minute + s
        BY <1>1, <1>9, <3>3
      <3>5. ((r["TR_d"] + 1) * Day) * Hour = y + r["TR_m"] + 1
        BY <1>1, <3>1, <3>2, <3>3 DEF x
      <3>6. QED
        <4>1. ((r["TR_d"] + 1) * Day) * Hour * Minute = (y + r["TR_m"]) * Minute + s
          BY <3>4, <3>5
        <4>2. (y + r["TR_m"]) * Minute \in Nat
          BY <1>1, <3>3
        <4>3. Seconds(r) = (y + r["TR_m"]) * Minute + r["TR_s"]
          BY DEF Seconds, x, y
        <4>4. Seconds(r) + 1 = (y + r["TR_m"]) * Minute + s
          <5> DEFINE z == (y + r["TR_m"]) * Minute
          <5> HIDE DEF z
          <5>1. z \in Nat /\ Seconds(r) = z + r["TR_s"]
            BY <4>2, <4>3 DEF z
          <5>2. Seconds(r) + 1 = z + s
            BY <1>1, <5>1
          <5>3. QED
            BY <5>2 DEF z
        <4>5. QED
          BY <4>1, <4>4
    <2>4. CASE r["TR_d"] + 1 < Byte
      <3>1. d = r["TR_d"] + 1
        <4>1. r["TR_d"] + 1 \in 0 .. Byte - 1
          BY <1>1, <2>4
        <4>2. QED
          BY <4>1, Small
      <3>2. d * Day \in Nat
        BY <1>1, <3>1
      <3>3. d * Day + 0 = d * Day
        BY <3>2
      <3>4. (d * Day) * Hour \in Nat
        BY <3>2
      <3>5. (d * Day) * Hour + 0 = (d * Day) * Hour
        BY <3>4
      <3>6. ((d * Day) * Hour) * Minute + 0 = ((d * Day) * Hour) * Minute
        BY <3>4
      <3>7. Seconds(b) = ((d * Day) * Hour) * Minute
        BY <2>2, <3>3, <3>5, <3>6 DEF Seconds
      <3>8. QED
        BY <2>2, <2>3, <3>1, <3>7 DEF LegalTime
    <2>5. CASE r["TR_d"] + 1 = Byte
      <3>1. d = 0
        BY <1>1, <2>5
      <3>2. Seconds(b) = 0
        BY <2>2, <3>1 DEF Seconds
      <3>3. QED
        BY <2>2, <2>3, <2>5, <3>2 DEF LegalTime, Rounded
    <2>6. QED
      BY <1>1, <2>4, <2>5
  <1>10. QED
    BY <1>6, <1>7, <1>8, <1>9

LEMMA NowIs == Now = Seconds(rtc_reg)
  BY DEF Now, Seconds

\* What a 1/256 s step does to the registers.
LEMMA TickDoes ==
    ASSUME ClockTypeOK, Tick
    PROVE  /\ rtc_reg' \in [Registers -> Values]
           /\ \A x \in {"AR_s", "AR_m", "AR_h"} : rtc_reg'[x] = rtc_reg[x]
           /\ rtc_reg'["TR_ms"] = (rtc_reg["TR_ms"] + 1) % Ticks
           /\ rtc_reg'["TR_ms"] \in 0 .. Ticks - 1
           /\ rtc_reg'["TR_ms"] = 0 <=> rtc_reg["TR_ms"] = Ticks - 1
           /\ IF rtc_reg["TR_ms"] = Ticks - 1
              THEN \E reg \in [Registers -> Values] :
                     /\ rtc_reg' = bumpRTC(reg)
                     /\ Seconds(reg) = Seconds(rtc_reg)
                     /\ LegalTime(reg) <=> LegalTime(rtc_reg)
              ELSE /\ Seconds(rtc_reg') = Seconds(rtc_reg)
                   /\ LegalTime(rtc_reg') <=> LegalTime(rtc_reg)
  <1> DEFINE ms == (rtc_reg["TR_ms"] + 1) % Ticks
             reg == [rtc_reg EXCEPT !["TR_ms"] = ms]
  <1>1. /\ rtc_reg \in [Registers -> Values] /\ rtc_reg["TR_ms"] \in 0 .. Ticks - 1
    <2>1. rtc_reg \in [Registers -> Values] /\ rtc_reg["TR_ms"] \in Values /\ rtc_reg["TR_ms"] < Ticks
      BY DEF ClockTypeOK, Values, Registers
    <2>2. QED
      BY <2>1, Sizes DEF Values
  <1>2. ms \in 0 .. Ticks - 1 /\ (ms = 0 <=> rtc_reg["TR_ms"] = Ticks - 1)
    BY <1>1, Sizes
  <1>3. ms \in Values
    BY <1>2, Sizes DEF Values
  <1>4. rtc_reg' = IF ms = 0 THEN bumpRTC(reg) ELSE reg
    BY DEF Tick
  <1> HIDE DEF ms
  <1>5. /\ reg \in [Registers -> Values] /\ reg["TR_ms"] = ms
        /\ \A x \in Registers : x # "TR_ms" => reg[x] = rtc_reg[x]
    BY <1>1, <1>3 DEF Registers
  <1>6. /\ "TR_s" \in Registers /\ "TR_m" \in Registers /\ "TR_h" \in Registers
        /\ "TR_d" \in Registers /\ {"AR_s", "AR_m", "AR_h"} \subseteq Registers \ {"TR_ms"}
    BY DEF Registers
  <1> HIDE DEF reg
  <1>7. Seconds(reg) = Seconds(rtc_reg) /\ (LegalTime(reg) <=> LegalTime(rtc_reg))
    BY <1>5, <1>6 DEF Seconds, LegalTime
  <1>8. CASE ms = 0
    <2>1. rtc_reg' = bumpRTC(reg)
      BY <1>4, <1>8
    <2>2. rtc_reg' \in [Registers -> Values] /\ rtc_reg'["TR_ms"] = ms
          /\ \A x \in {"AR_s", "AR_m", "AR_h"} : rtc_reg'[x] = rtc_reg[x]
      BY <1>5, <1>6, <2>1, BumpKeeps
    <2>3. QED
      BY <1>2, <1>5, <1>7, <1>8, <2>1, <2>2 DEF ms
  <1>9. CASE ms # 0
    <2>1. rtc_reg' = reg
      BY <1>4, <1>9
    <2>2. \A x \in {"AR_s", "AR_m", "AR_h"} : rtc_reg'[x] = rtc_reg[x]
      BY <1>5, <1>6, <2>1
    <2>3. QED
      BY <1>2, <1>5, <1>7, <1>9, <2>1, <2>2 DEF ms
  <1>10. QED
    BY <1>8, <1>9

\* The registers are bytes, and the step within a second is one of Ticks.
LEMMA ClockTypes == ClockSpec => []ClockTypeOK
  <1>1. ClockInit => ClockTypeOK
    <2> SUFFICES ASSUME ClockInit PROVE ClockTypeOK
      OBVIOUS
    <2>1. rtc_reg \in [Registers -> 0 .. Byte - 1] /\ rtc_reg["TR_ms"] < Ticks
      BY Sizes DEF ClockInit, Registers
    <2>2. alarm_on \in BOOLEAN /\ protected \in BOOLEAN /\ alarm \in BOOLEAN /\ settled \in BOOLEAN
      BY Zenon DEF ClockInit
    <2>3. QED
      BY <2>1, <2>2 DEF ClockTypeOK
  <1>2. ASSUME ClockTypeOK, [ClockNext]_clockVars PROVE ClockTypeOK'
    <2>1. CASE Tick
      <3>1. rtc_reg' \in [Registers -> 0 .. Byte - 1] /\ rtc_reg'["TR_ms"] < Ticks
        BY <1>2, <2>1, TickDoes, Sizes DEF Values
      <3>2. alarm' \in BOOLEAN /\ UNCHANGED <<alarm_on, protected, settled>>
        BY <2>1 DEF Tick
      <3>3. QED
        BY <1>2, <3>1, <3>2 DEF ClockTypeOK
    <2>2. CASE GuestWrites
      <3>1. PICK r \in Registers, value \in 0 .. Byte - 1 :
                (r = "TR_ms" => value < Ticks) /\ Write(r, value)
        <4>1. /\ {"TR_ms", "TR_s", "TR_m", "TR_h", "TR_d"} \subseteq Registers
              /\ TimeBytes \subseteq 0 .. Byte - 1 /\ AlarmBytes \subseteq 0 .. Byte - 1
          BY ClockAssumption DEF Registers
        <4>2. \A f \in Fields : AR(f) \in Registers /\ AR(f) # "TR_ms"
          BY Names8
        <4>3. QED
          BY <2>2, <4>1, <4>2 DEF GuestWrites
      <3>2. rtc_reg' = rtc_reg \/ rtc_reg' = [rtc_reg EXCEPT ![r] = value]
        BY <3>1 DEF Write
      <3>3. rtc_reg' \in [Registers -> 0 .. Byte - 1] /\ rtc_reg'["TR_ms"] < Ticks
        BY <1>2, <3>1, <3>2 DEF ClockTypeOK, Registers
      <3>4. UNCHANGED <<alarm_on, protected, alarm, settled>>
        BY <3>1 DEF Write
      <3>5. QED
        BY <1>2, <3>3, <3>4 DEF ClockTypeOK
    <2>3. CASE \E enable \in BOOLEAN : write_rcr0(enable)
      BY <1>2, <2>3 DEF write_rcr0, ClockTypeOK
    <2>4. CASE \E protect, acknowledge \in BOOLEAN : write_rcr1(protect, acknowledge)
      <3>1. protected' \in BOOLEAN /\ alarm' \in BOOLEAN /\ UNCHANGED <<rtc_reg, alarm_on, settled>>
        BY <2>4 DEF write_rcr1
      <3>2. QED
        BY <1>2, <3>1 DEF ClockTypeOK
    <2>5. CASE \E h \in 0 .. Day - 1, m \in 0 .. Hour - 1, s \in 0 .. Minute - 1 :
                  sync_time_2000(h, m, s)
      <3>1. PICK h \in 0 .. Day - 1, m \in 0 .. Hour - 1, s \in 0 .. Minute - 1 :
                  sync_time_2000(h, m, s)
        BY <2>5
      <3>2. h \in 0 .. Byte - 1 /\ m \in 0 .. Byte - 1 /\ s \in 0 .. Byte - 1
        BY Sizes
      <3>3. rtc_reg' \in [Registers -> 0 .. Byte - 1] /\ rtc_reg'["TR_ms"] = rtc_reg["TR_ms"]
        BY <1>2, <3>1, <3>2 DEF sync_time_2000, ClockTypeOK, Registers
      <3>4. UNCHANGED <<alarm_on, protected, alarm, settled>>
        BY <3>1 DEF sync_time_2000
      <3>5. QED
        BY <1>2, <3>3, <3>4 DEF ClockTypeOK
    <2>6. CASE Settle
      <3>1. settled' \in BOOLEAN /\ UNCHANGED <<rtc_reg, alarm_on, protected, alarm>>
        BY <2>6 DEF Settle
      <3>2. QED
        BY <1>2, <3>1 DEF ClockTypeOK
    <2>7. CASE UNCHANGED clockVars
      BY <1>2, <2>7 DEF clockVars, ClockTypeOK
    <2>8. QED
      BY <1>2, <2>1, <2>2, <2>3, <2>4, <2>5, <2>6, <2>7 DEF ClockNext
  <1>3. QED
    BY <1>1, <1>2, PTL DEF ClockSpec

\* Every 256th step adds a second to a legal time and no other does (bumpRTC).
THEOREM ClockCountsSeconds == ClockSpec => SecondsCounted
  <1> DEFINE P == Tick /\ Legal =>
                    /\ Legal'
                    /\ Now' = IF rtc_reg["TR_ms"] # Ticks - 1 THEN Now
                              ELSE (Now + 1) % (Byte * Day * Hour * Minute)
  <1>1. ASSUME ClockTypeOK, [ClockNext]_clockVars PROVE P
    <2> SUFFICES ASSUME Tick, Legal
                 PROVE  /\ Legal'
                        /\ Now' = IF rtc_reg["TR_ms"] # Ticks - 1 THEN Now
                                  ELSE (Now + 1) % (Byte * Day * Hour * Minute)
      OBVIOUS
    <2>1. LegalTime(rtc_reg) /\ Now = Seconds(rtc_reg)
      BY LegalIs, NowIs
    <2>2. (Legal' <=> LegalTime(rtc_reg')) /\ Now' = Seconds(rtc_reg')
      BY DEF Legal, LegalTime, Fields, TR, Size, Now, Seconds
    <2>3. CASE rtc_reg["TR_ms"] = Ticks - 1
      <3>1. PICK reg \in [Registers -> Values] :
                /\ rtc_reg' = bumpRTC(reg) /\ Seconds(reg) = Seconds(rtc_reg)
                /\ LegalTime(reg) <=> LegalTime(rtc_reg)
        BY <1>1, <2>3, TickDoes
      <3>2. LegalTime(rtc_reg') /\ Seconds(rtc_reg') = (Seconds(rtc_reg) + 1) % Rounded
        BY <2>1, <3>1, BumpCounts
      <3>3. Legal'
        BY <2>2, <3>2
      <3>4. Now' = (Now + 1) % (Byte * Day * Hour * Minute)
        BY <2>1, <2>2, <3>2 DEF Rounded
      <3>5. QED
        BY <2>3, <3>3, <3>4
    <2>4. CASE rtc_reg["TR_ms"] # Ticks - 1
      <3>1. Seconds(rtc_reg') = Seconds(rtc_reg) /\ (LegalTime(rtc_reg') <=> LegalTime(rtc_reg))
        BY <1>1, <2>4, TickDoes
      <3>2. Legal'
        BY <2>1, <2>2, <3>1
      <3>3. Now' = Now
        BY <2>1, <2>2, <3>1
      <3>4. QED
        BY <2>4, <3>2, <3>3
    <2>5. QED
      BY <2>3, <2>4
  <1>2. QED
    BY <1>1, ClockTypes, PTL DEF ClockSpec, SecondsCounted

\* A legal field is its own value under its mask.
LEMMA FieldFits ==
    ASSUME NEW r \in [Registers -> Values], LegalTime(r), NEW f \in Fields
    PROVE  r[TR(f)] % Mask[f] = r[TR(f)]
  <1>1. r["TR_s"] \in Nat /\ r["TR_m"] \in Nat /\ r["TR_h"] \in Nat
    BY Sizes DEF Registers, Values
  <1>2. r[TR(f)] \in Nat /\ r[TR(f)] < Size(f)
    BY <1>1, Names8 DEF LegalTime, Fields, Size
  <1>3. Size(f) \in Nat /\ Mask[f] \in Nat \ {0} /\ Size(f) <= Mask[f]
    BY Sizes
  <1>4. r[TR(f)] \in 0 .. Mask[f] - 1
    BY <1>2, <1>3
  <1>5. QED
    BY <1>3, <1>4, Small

\* With a legal time the alarm rings in the step that makes the fields that are
\* on the same as the time's, and in no other (chk_ar).
THEOREM AlarmIsOnTime == ClockSpec => AlarmOnTime
  <1> DEFINE Match == \A f \in Fields : rtc_reg[AR(f)] >= Bit7 =>
                        rtc_reg'[TR(f)] = rtc_reg[AR(f)] % Mask[f]
             P == Tick /\ Legal /\ Armed /\ ~alarm =>
                    (alarm' <=> rtc_reg'["TR_ms"] = 0 /\ Match)
  <1>1. ASSUME ClockTypeOK, [ClockNext]_clockVars PROVE P
    <2> SUFFICES ASSUME Tick, Legal, Armed, ~alarm
                 PROVE  alarm' <=> rtc_reg'["TR_ms"] = 0 /\ Match
      OBVIOUS
    <2>1. /\ rtc_reg' \in [Registers -> Values]
          /\ rtc_reg'["TR_ms"] = (rtc_reg["TR_ms"] + 1) % Ticks
          /\ \A f \in Fields : rtc_reg'[AR(f)] = rtc_reg[AR(f)]
      BY <1>1, TickDoes, Names8
    <2>2. LegalTime(rtc_reg')
      <3>1. LegalTime(rtc_reg)
        BY LegalIs
      <3>2. CASE rtc_reg["TR_ms"] = Ticks - 1
        BY <1>1, <3>1, <3>2, TickDoes, BumpCounts
      <3>3. CASE rtc_reg["TR_ms"] # Ticks - 1
        BY <1>1, <3>1, <3>3, TickDoes
      <3>4. QED
        BY <3>2, <3>3
    <2>3. alarm' <=> rtc_reg'["TR_ms"] = 0 /\ alarm_on /\ chk_ar(rtc_reg')
      BY <2>1 DEF Tick
    <2>4. alarm_on /\ \E f \in Fields : rtc_reg[AR(f)] >= Bit7
      BY DEF Armed
    <2>5. chk_ar(rtc_reg') <=> \A f \in Fields : rtc_reg[AR(f)] >= Bit7 =>
                                  rtc_reg[AR(f)] % Mask[f] = rtc_reg'[TR(f)] % Mask[f]
      BY <2>1, <2>4 DEF chk_ar
    <2>6. \A f \in Fields : rtc_reg'[TR(f)] % Mask[f] = rtc_reg'[TR(f)]
      BY <2>1, <2>2, FieldFits
    <2>7. chk_ar(rtc_reg') <=> Match
      BY <2>5, <2>6
    <2>8. QED
      BY <2>3, <2>4, <2>7
  <1>2. QED
    BY <1>1, ClockTypes, PTL DEF ClockSpec, AlarmOnTime
-----------------------------------------------------------------------------
(* The timers *)

Divides(n, k) == n \div k \in Nat /\ n % k \in 0 .. k - 1

LEMMA Division == ASSUME NEW n \in Nat, NEW k \in Nat \ {0} PROVE Divides(n, k)
  BY DivMod DEF Divides

\* A counter of n units of k parts each, to which e parts are added, of which the
\* lower digit has w values.
AddsTo(k, w, n, e) ==
    LET sum == n + e \div k
    IN  /\ sum \in Nat
        /\ (sum % w) * k + (e % k) = (n * k + e) % (w * k)
        /\ sum >= w <=> n * k + e >= w * k

LEMMA LowDigit ==
    ASSUME NEW k \in Nat \ {0}, NEW w \in Nat \ {0}, NEW n \in Nat, NEW e \in Nat
    PROVE  AddsTo(k, w, n, e)
  <1> DEFINE q == e \div k
             rest == e % k
             sum == n + q
             low == sum % w
             up == sum \div w
             total == n * k + e
  <1>1. q \in Nat /\ rest \in 0 .. k - 1
    BY DivMod
  <1>2. total = sum * k + rest
    BY Carry
  <1> HIDE DEF q, rest
  <1>3. sum \in Nat
    BY <1>1
  <1> HIDE DEF sum, total
  <1>4. /\ up \in Nat /\ low \in 0 .. w - 1 /\ sum = w * up + low
    BY <1>3, DivMod
  <1> HIDE DEF low, up
  <1>5. low * k + rest \in 0 .. (w * k) - 1
    BY <1>1, <1>4, TwoDigits
  <1>6. total = up * (w * k) + (low * k + rest)
    <2>1. sum * k = up * (w * k) + low * k
      BY <1>4
    <2>2. up * (w * k) \in Nat /\ low * k \in Nat /\ rest \in Nat
      BY <1>1, <1>4
    <2>3. QED
      BY <1>2, <2>1, <2>2
  <1>7. w * k \in Nat \ {0}
    OBVIOUS
  <1>8. total % (w * k) = low * k + rest /\ (total >= w * k <=> up >= 1)
    BY <1>4, <1>5, <1>6, <1>7, Rounds
  <1>9. sum >= w <=> up >= 1
    BY <1>4, Rounds
  <1>10. QED
    BY <1>3, <1>8, <1>9 DEF sum, rest, low, up, total, q, AddsTo

\* The same with two digits of w values each, lo and hi.
AddsToBoth(k, w, lo, hi, e) ==
    LET sum == lo + e \div k
        upper == hi + sum \div w
    IN  /\ upper \in Nat
        /\ ((sum % w) + (upper % w) * w) * k + (e % k)
             = ((lo + hi * w) * k + e) % ((w * w) * k)
        /\ upper >= w <=> (lo + hi * w) * k + e >= (w * w) * k

LEMMA LowDigits ==
    ASSUME NEW k \in Nat \ {0}, NEW w \in Nat \ {0}, NEW lo \in Nat, NEW hi \in Nat, NEW e \in Nat
    PROVE  AddsToBoth(k, w, lo, hi, e)
  <1> DEFINE q == e \div k
             sum == lo + q
             upper == hi + sum \div w
             n == lo + hi * w
             both == n + q
  <1>1. q \in Nat
    BY DivMod
  <1>2. sum \in Nat
    BY <1>1
  <1>3. n \in Nat /\ hi * w \in Nat /\ w * w \in Nat \ {0}
    OBVIOUS
  <1>4. both = hi * w + sum
    <2> HIDE DEF q
    <2> QED BY <1>1, <1>3
  <1>5. /\ upper \in Nat
        /\ (upper % w) * w + (sum % w) = (hi * w + sum) % (w * w)
        /\ upper >= w <=> hi * w + sum >= w * w
    <2>1. AddsTo(w, w, hi, sum)
      BY <1>2, LowDigit
    <2>2. QED
      BY <2>1 DEF AddsTo
  <1>6. /\ (both % (w * w)) * k + (e % k) = (n * k + e) % ((w * w) * k)
        /\ both >= w * w <=> n * k + e >= (w * w) * k
    <2>1. AddsTo(k, w * w, n, e)
      BY <1>3, LowDigit
    <2>2. QED
      BY <2>1 DEF AddsTo
  <1>7. (upper % w) * w \in Nat /\ sum % w \in Nat
    BY <1>2, <1>5, DivMod
  <1> HIDE DEF upper, sum, both
  <1>8. (sum % w) + (upper % w) * w = both % (w * w)
    BY <1>4, <1>5, <1>7
  <1>9. QED
    BY <1>4, <1>5, <1>6, <1>8 DEF upper, sum, q, AddsToBoth

LEMMA TimersTypes == TimersSpec => []TimersTypeOK
  <1> USE TimersAssumption
  <1>1. TimersInit => TimersTypeOK
    <2>1. 0 \in 0 .. Width - 1 /\ 0 \in TimerModes
      BY DEF TimerModes
    <2>2. TimersInit => /\ timer0_val \in 0 .. Width - 1 /\ timer1_val \in 0 .. Width - 1
                        /\ timer0ticks \in Nat /\ timer1ticks \in Nat
      BY <2>1 DEF TimersInit
    <2>3. TimersInit => /\ TMODESL \in TimerModes
                        /\ TM0S \in Selections0 /\ TMS \in Selections0 /\ TM1S \in Selections1
      BY <2>1 DEF TimersInit
    <2>4. TimersInit => /\ timer0run \in BOOLEAN /\ timer1run_tmie \in BOOLEAN
                        /\ quiet \in BOOLEAN /\ int_status \subseteq {"TM0I", "TM1I"}
      BY DEF TimersInit
    <2>5. QED
      BY <2>2, <2>3, <2>4 DEF TimersTypeOK
  <1>2. TimersTypeOK /\ [TimersNext]_timersVars => TimersTypeOK'
    <2> SUFFICES ASSUME TimersTypeOK, [TimersNext]_timersVars PROVE TimersTypeOK'
      OBVIOUS
    <2>1. ASSUME NEW d \in Deltas, KeepTimer01(d) PROVE TimersTypeOK'
      <3>1. Scale0 \in Nat \ {0} /\ Scale1 \in Nat \ {0}
        BY DEF TimersTypeOK, Scale0, Scale1
      <3>2. /\ timer0ticks + d \in Nat /\ timer1ticks + d \in Nat
            /\ timer0_val \in Nat /\ timer1_val \in Nat
        BY DEF TimersTypeOK
      <3>3. /\ (timer0ticks + d) \div Scale0 \in Nat /\ (timer0ticks + d) % Scale0 \in Nat
            /\ (timer1ticks + d) \div Scale1 \in Nat /\ (timer1ticks + d) % Scale1 \in Nat
        <4>1. Divides(timer0ticks + d, Scale0) /\ Divides(timer1ticks + d, Scale1)
          BY <3>1, <3>2, Division
        <4>2. QED
          BY <3>1, <4>1 DEF Divides
      <3>4. Sum0(d) \in Nat
        BY <3>2, <3>3 DEF Sum0
      <3>5. Sum0(d) \div Width \in Nat
        BY <3>4, DivMod
      <3>6. Sum1(d) \in Nat
        BY <3>2, <3>3, <3>5 DEF Sum1
      <3>7. \A n \in Nat : n % Width \in 0 .. Width - 1
        BY DivMod
      <3>8. timer0_val' \in 0 .. Width - 1 /\ timer0ticks' \in Nat
        <4>1. Sum0(d) + (IF TMODESL = 0 THEN timer1_val ELSE 0) \in Nat
          BY <3>2, <3>4
        <4>2. QED
          BY <2>1, <3>3, <3>7, <4>1 DEF KeepTimer01, Keep0, TimersTypeOK
      <3>9. timer1_val' \in 0 .. Width - 1 /\ timer1ticks' \in Nat
        BY <2>1, <3>3, <3>6, <3>7 DEF KeepTimer01, Keep1, TimersTypeOK
      <3>10. QED
        BY <2>1, <3>8, <3>9 DEF KeepTimer01, Overflows, settings, TimersTypeOK
    <2>2. ASSUME NEW value \in TimerBytes, WriteValue0(value) \/ WriteValue1(value)
          PROVE  TimersTypeOK'
      BY <2>2 DEF WriteValue0, WriteValue1, Guest, settings, TimersTypeOK
    <2>3. ASSUME NEW mode \in TimerModes, NEW tm0s \in Selections0, NEW tm1s \in Selections1,
                 TimerControl(mode, tm0s, tm1s)
          PROVE  TimersTypeOK'
      BY <2>3 DEF TimerControl, Guest, counters, TimersTypeOK
    <2>4. CASE StartTimer0 \/ StopTimer0 \/ StartTimer1 \/ StopTimer1
      <3> USE DEF Guest, sameSetup, counters, TimersTypeOK
      <3>1. CASE StartTimer0
        BY <3>1 DEF StartTimer0
      <3>2. CASE StopTimer0
        BY <3>2 DEF StopTimer0
      <3>3. CASE StartTimer1
        BY <3>3 DEF StartTimer1
      <3>4. CASE StopTimer1
        BY <3>4 DEF StopTimer1
      <3>5. QED
        BY <2>4, <3>1, <3>2, <3>3, <3>4
    <2>5. CASE ReadStatus \/ Leave
      BY <2>5 DEF ReadStatus, Leave, counters, settings, TimersTypeOK
    <2>6. CASE UNCHANGED timersVars
      BY <2>6 DEF timersVars, counters, settings, TimersTypeOK
    <2>7. QED
      BY <2>1, <2>2, <2>3, <2>4, <2>5, <2>6 DEF TimersNext
  <1>3. QED
    BY <1>1, <1>2, PTL DEF TimersSpec

\* Each batch adds its cycles to the counters of the timers that run, and an
\* interrupt is raised exactly if a counter starts anew (KeepTimer01).
THEOREM TimersCountEveryCycle == TimersSpec => NoTickLost
  <1> DEFINE First(d) == (timer0run /\ (TMODESL = 0 => timer1_val = 0)) =>
               /\ Count0' = (Count0 + d) % Limit0
               /\ (Cascaded \/ Raises0) =>
                     (Last0 \in Overflows(d) <=> Count0 + d >= Limit0)
             Second(d) == (timer1run_tmie /\ TMODESL = 1) =>
               /\ Count1' = (Count1 + d) % Limit1
               /\ "TM1I" \in Overflows(d) <=> Count1 + d >= Limit1
             P == \A d \in Deltas : KeepTimer01(d) =>
                    /\ (timer0run /\ (TMODESL = 0 => timer1_val = 0)) =>
                         /\ Count0' = (Count0 + d) % Limit0
                         /\ (Cascaded \/ Raises0) =>
                               (Last0 \in Overflows(d) <=> Count0 + d >= Limit0)
                    /\ (timer1run_tmie /\ TMODESL = 1) =>
                         /\ Count1' = (Count1 + d) % Limit1
                         /\ "TM1I" \in Overflows(d) <=> Count1 + d >= Limit1
  <1>1. ASSUME TimersTypeOK, NEW d \in Deltas, KeepTimer01(d) PROVE First(d) /\ Second(d)
    <2>1. /\ Scale0 \in Nat \ {0} /\ Scale1 \in Nat \ {0} /\ Width \in Nat \ {0}
          /\ timer0_val \in Nat /\ timer1_val \in Nat
          /\ timer0ticks \in Nat /\ timer1ticks \in Nat /\ d \in Nat
      BY <1>1, TimersAssumption DEF TimersTypeOK, Scale0, Scale1
    <2>2. Scale0' = Scale0 /\ Scale1' = Scale1 /\ (Cascaded' <=> Cascaded)
      BY <1>1 DEF KeepTimer01, settings, Scale0, Scale1, Cascaded
    <2>3. PICK e \in Nat : e = timer0ticks + d
      BY <2>1
    <2>4. Sum0(d) = timer0_val + e \div Scale0 /\ Sum0(d) \in Nat
      <3>1. e \div Scale0 \in Nat
        <4>1. Divides(e, Scale0)
          BY <2>1, Division
        <4>2. QED
          BY <4>1 DEF Divides
      <3>2. Sum0(d) = timer0_val + e \div Scale0
        BY <2>3 DEF Sum0
      <3>3. QED
        BY <2>1, <3>1, <3>2
    <2>5. ASSUME timer0run, TMODESL = 0 => timer1_val = 0
          PROVE  timer0_val' = Sum0(d) % Width /\ timer0ticks' = e % Scale0
      <3>1. timer0_val' = (Sum0(d) + (IF TMODESL = 0 THEN timer1_val ELSE 0)) % Width
        BY <1>1, <2>5 DEF KeepTimer01, Keep0, Counts0
      <3>2. timer0ticks' = e % Scale0
        BY <1>1, <2>3, <2>5 DEF KeepTimer01, Keep0, Counts0
      <3>3. QED
        BY <2>4, <2>5, <3>1, <3>2
    <2>6. ASSUME timer0run, TMODESL = 0 => timer1_val = 0, ~Cascaded PROVE First(d)
      <3>1. /\ (Sum0(d) % Width) * Scale0 + (e % Scale0)
                 = (timer0_val * Scale0 + e) % (Width * Scale0)
            /\ Sum0(d) >= Width <=> timer0_val * Scale0 + e >= Width * Scale0
        <4>1. AddsTo(Scale0, Width, timer0_val, e)
          BY <2>1, LowDigit
        <4>2. QED
          BY <2>4, <4>1 DEF AddsTo
      <3>2. Count0 + d = timer0_val * Scale0 + e /\ Limit0 = Width * Scale0
        <4>1. timer0_val * Scale0 \in Nat
          BY <2>1
        <4>2. Count0 = timer0_val * Scale0 + timer0ticks
          BY <2>1, <2>6 DEF Count0
        <4>3. QED
          BY <2>1, <2>3, <2>6, <4>1, <4>2 DEF Limit0
      <3>3. Count0' = timer0_val' * Scale0 + timer0ticks'
        <4>1. Count0' = (timer0_val' + 0) * Scale0 + timer0ticks'
          BY <2>2, <2>6 DEF Count0
        <4>2. timer0_val' \in Nat
          <5>1. Divides(Sum0(d), Width)
            BY <2>1, <2>4, Division
          <5>2. QED
            BY <2>1, <2>5, <2>6, <5>1 DEF Divides
        <4>3. QED
          BY <4>1, <4>2
      <3>4. Count0' = (Count0 + d) % Limit0
        BY <2>5, <2>6, <3>1, <3>2, <3>3
      <3>5. Raises0 => (Last0 \in Overflows(d) <=> Sum0(d) >= Width)
        BY <2>6 DEF Last0, Overflows, Counts0
      <3>6. Sum0(d) >= Width <=> Count0 + d >= Limit0
        BY <3>1, <3>2
      <3>7. QED
        BY <2>6, <3>4, <3>5, <3>6
    <2>7. ASSUME timer0run, Cascaded PROVE First(d)
      <3>1. TMODESL # 0 /\ Counts1
        BY <2>7 DEF Cascaded, Counts1
      <3>2. timer1_val' = Sum1(d) % Width /\ Sum1(d) = timer1_val + Sum0(d) \div Width
        BY <1>1, <2>7, <3>1 DEF KeepTimer01, Keep1, Sum1
      <3>3. /\ ((Sum0(d) % Width) + (Sum1(d) % Width) * Width) * Scale0 + (e % Scale0)
                 = ((timer0_val + timer1_val * Width) * Scale0 + e) % ((Width * Width) * Scale0)
            /\ Sum1(d) >= Width <=>
                 (timer0_val + timer1_val * Width) * Scale0 + e >= (Width * Width) * Scale0
        <4>1. AddsToBoth(Scale0, Width, timer0_val, timer1_val, e)
          BY <2>1, LowDigits
        <4>2. QED
          BY <2>4, <3>2, <4>1 DEF AddsToBoth
      <3>4. /\ Count0 + d = (timer0_val + timer1_val * Width) * Scale0 + e
            /\ Limit0 = (Width * Width) * Scale0
        <4>1. (timer0_val + timer1_val * Width) * Scale0 \in Nat
          BY <2>1
        <4>2. Count0 = (timer0_val + timer1_val * Width) * Scale0 + timer0ticks
          BY <2>7 DEF Count0
        <4>3. QED
          BY <2>1, <2>3, <2>7, <4>1, <4>2 DEF Limit0
      <3>5. Count0' = (timer0_val' + timer1_val' * Width) * Scale0 + timer0ticks'
        BY <2>2, <2>7 DEF Count0
      <3>6. Count0' = (Count0 + d) % Limit0
        BY <2>5, <2>7, <3>1, <3>2, <3>3, <3>4, <3>5
      <3>7. Last0 \in Overflows(d) <=> Sum1(d) >= Width
        BY <2>7, <3>1 DEF Last0, Overflows
      <3>8. Sum1(d) >= Width <=> Count0 + d >= Limit0
        BY <3>3, <3>4
      <3>9. QED
        BY <3>6, <3>7, <3>8
    <2>8. ASSUME timer1run_tmie, TMODESL = 1 PROVE Second(d)
      <3>1. ~Cascaded /\ Counts1
        BY <2>8 DEF Cascaded, Counts1
      <3>2. PICK c \in Nat : c = timer1ticks + d
        BY <2>1
      <3>3. /\ timer1ticks' = c % Scale1 /\ timer1_val' = Sum1(d) % Width
            /\ Sum1(d) = timer1_val + c \div Scale1
        BY <1>1, <3>1, <3>2 DEF KeepTimer01, Keep1, Sum1
      <3>4. /\ (Sum1(d) % Width) * Scale1 + (c % Scale1)
                 = (timer1_val * Scale1 + c) % (Width * Scale1)
            /\ Sum1(d) >= Width <=> timer1_val * Scale1 + c >= Width * Scale1
        <4>1. AddsTo(Scale1, Width, timer1_val, c)
          BY <2>1, LowDigit
        <4>2. QED
          BY <3>3, <4>1 DEF AddsTo
      <3>5. Count1 + d = timer1_val * Scale1 + c
        <4>1. timer1_val * Scale1 \in Nat
          BY <2>1
        <4>2. QED
          BY <2>1, <3>2, <4>1 DEF Count1
      <3>6. Count1' = timer1_val' * Scale1 + timer1ticks'
        BY <2>2 DEF Count1
      <3>7. Count1' = (Count1 + d) % Limit1
        BY <3>3, <3>4, <3>5, <3>6 DEF Limit1
      <3>8. "TM1I" \in Overflows(d) <=> Sum1(d) >= Width
        BY <3>1 DEF Overflows
      <3>9. QED
        BY <3>4, <3>5, <3>7, <3>8 DEF Limit1
    <2>9. QED
      BY <2>6, <2>7, <2>8
  <1>2. TimersTypeOK => P
    BY <1>1
  <1>3. QED
    BY <1>2, TimersTypes, PTL DEF TimersSpec, NoTickLost
-----------------------------------------------------------------------------
(* The time base *)

LEMMA Bases ==
    /\ CYCLES_SECOND \in Nat /\ StepRate \in Nat \ {0} /\ BaseRate \in Nat \ {0}
    /\ Target(StepRate) \in Nat \ {0} /\ Target(BaseRate) \in Nat \ {0}
    /\ \A rate \in SampleRates : Target(rate) \in Nat \ {0}
    /\ Target(StepRate) * StepRate = CYCLES_SECOND
    /\ Batches \cup {BatchOff} \subseteq Nat \ {0}
    /\ \A taken \in Batches \cup {BatchOff} : taken <= Target(BaseRate)
  BY TimeBaseAssumption

\* Adding less than a period crosses one multiple of it at most.
AtMostOne(t, a, d) == (a + d) \div t - a \div t \in {0, 1}

LEMMA OneMultiple ==
    ASSUME NEW t \in Nat \ {0}, NEW a \in Nat, NEW d \in 0 .. t
    PROVE  AtMostOne(t, a, d)
  <1> DEFINE q == a \div t
             r == a % t
             p == (a + d) \div t
             s == (a + d) % t
  <1>1. q \in Nat /\ r \in 0 .. t - 1 /\ a = t * q + r
    BY DivMod
  <1>2. a + d \in Nat
    OBVIOUS
  <1>3. p \in Nat /\ s \in 0 .. t - 1 /\ a + d = t * p + s
    BY <1>2, DivMod
  <1> HIDE DEF q, r, p, s
  <1>4. t * p + s = t * q + r + d
    BY <1>1, <1>3
  <1>5. p >= q
    <2> SUFFICES ASSUME p < q PROVE FALSE
      BY <1>1, <1>3
    <2>1. t * p + t <= t * q
      BY <1>1, <1>3
    <2>2. t * p \in Nat /\ t * q \in Nat
      BY <1>1, <1>3
    <2>3. QED
      BY <1>1, <1>3, <1>4, <2>1, <2>2
  <1>6. p <= q + 1
    <2> SUFFICES ASSUME p >= q + 2 PROVE FALSE
      BY <1>1, <1>3
    <2>1. t * p >= t * q + t + t
      BY <1>1, <1>3
    <2>2. t * p \in Nat /\ t * q \in Nat
      BY <1>1, <1>3
    <2>3. QED
      BY <1>1, <1>3, <1>4, <2>1, <2>2
  <1>7. QED
    BY <1>1, <1>3, <1>5, <1>6 DEF AtMostOne, q, p

LEMMA BaseInvariant == BaseSpec => []BaseInv
  <1>1. BaseInit => BaseInv
    <2>1. 0 \div Target(StepRate) = 0 /\ 0 \div Target(BaseRate) = 0
      BY Bases, Small
    <2>2. Scaled(0) = 0
      BY TimeBaseAssumption, Small DEF Scaled
    <2>3. QED
      BY <2>1, <2>2 DEF BaseInit, BaseInv, BaseTypeOK, Counted, Multiples
  <1>2. BaseInv /\ [BaseNext]_baseVars => BaseInv'
    <2> SUFFICES ASSUME BaseInv, [BaseNext]_baseVars PROVE BaseInv'
      OBVIOUS
    <2>1. ASSUME NEW taken \in Batches \cup {BatchOff}, NEW off \in BOOLEAN, Batch(taken, off)
          PROVE  BaseInv'
      <3>1. cycles' = cycles + taken /\ last_cycles' = cycles /\ taken \in Nat
        BY <2>1, Bases DEF Batch, Advance
      <3>2. BaseTypeOK'
        BY <2>1, <3>1 DEF BaseInv, BaseTypeOK, Batch
      <3>3. /\ steps' = steps + (Multiples(StepRate, cycles + taken) - Multiples(StepRate, cycles))
            /\ fed' = fed + (Scaled(cycles + taken) - Scaled(cycles))
            /\ bases' = bases + (IF Multiples(BaseRate, cycles + taken) - Multiples(BaseRate, cycles)
                                      > 0 THEN 1 ELSE 0)
        BY <2>1, <3>1 DEF Batch, trigger_x_times_per_s
      <3>4. /\ Multiples(StepRate, cycles) \in Int /\ Multiples(StepRate, cycles + taken) \in Int
            /\ Multiples(BaseRate, cycles) \in Int /\ Multiples(BaseRate, cycles + taken) \in Int
        <4>1. cycles \in Nat /\ cycles + taken \in Nat
          BY <3>1 DEF BaseInv, BaseTypeOK
        <4>2. /\ Divides(cycles, Target(StepRate)) /\ Divides(cycles + taken, Target(StepRate))
              /\ Divides(cycles, Target(BaseRate)) /\ Divides(cycles + taken, Target(BaseRate))
          BY <4>1, Bases, Division
        <4>3. QED
          BY <4>2 DEF Divides, Multiples
      <3>5. Scaled(cycles) \in Int /\ Scaled(cycles + taken) \in Int
        <4>1. cycles * SpeedFix[1] \in Nat /\ (cycles + taken) * SpeedFix[1] \in Nat
              /\ SpeedFix[2] \in Nat \ {0}
          BY <3>1, TimeBaseAssumption DEF BaseInv, BaseTypeOK
        <4>2. /\ Divides(cycles * SpeedFix[1], SpeedFix[2])
              /\ Divides((cycles + taken) * SpeedFix[1], SpeedFix[2])
          BY <4>1, Division
        <4>3. QED
          BY <4>2 DEF Divides, Scaled
      <3>6. Multiples(BaseRate, cycles + taken) - Multiples(BaseRate, cycles) \in {0, 1}
        <4>1. cycles \in Nat /\ taken \in 0 .. Target(BaseRate)
          BY <3>1, Bases DEF BaseInv, BaseTypeOK
        <4>2. AtMostOne(Target(BaseRate), cycles, taken)
          BY <4>1, Bases, OneMultiple
        <4>3. QED
          BY <4>2 DEF AtMostOne, Multiples
      <3>7. /\ steps = Multiples(StepRate, cycles) /\ bases = Multiples(BaseRate, cycles)
            /\ fed = Scaled(cycles)
        BY DEF BaseInv, Counted
      <3>8. /\ steps' = Multiples(StepRate, cycles + taken)
            /\ bases' = Multiples(BaseRate, cycles + taken)
            /\ fed' = Scaled(cycles + taken)
        BY <3>3, <3>4, <3>5, <3>6, <3>7
      <3>9. Counted'
        BY <3>1, <3>8 DEF Counted, Multiples, Target, Scaled
      <3>10. QED
        BY <3>2, <3>9 DEF BaseInv
    <2>2. ASSUME NEW rate \in SampleRates \cup {NoRate}, SelectRate(rate)
          PROVE  BaseInv'
      BY <2>2 DEF SelectRate, BaseInv, BaseTypeOK, Counted, Multiples, Target, Scaled
    <2>3. CASE UNCHANGED baseVars
      BY <2>3 DEF baseVars, BaseInv, BaseTypeOK, Counted, Multiples, Target, Scaled
    <2>4. QED
      BY <2>1, <2>2, <2>3 DEF BaseNext
  <1>3. QED
    BY <1>1, <1>2, PTL DEF BaseSpec

\* At whole seconds the clock has made its steps, the timers have had every
\* cycle, and the time base keeps its rate within its divisor's rounding.
THEOREM NoCycleLost == BaseSpec => []RatesHeld
  <1>1. ASSUME BaseInv PROVE RatesHeld
    <2> DEFINE t == Target(BaseRate)
               s == Target(StepRate)
    <2>1. cycles \in Nat
      BY <1>1 DEF BaseInv, BaseTypeOK
    <2>2. /\ bases \in Nat /\ cycles % t \in 0 .. t - 1
          /\ cycles = t * bases + (cycles % t)
      BY <1>1, <2>1, Bases, DivMod DEF BaseInv, Counted, Multiples
    <2>3. /\ t \in Nat \ {0} /\ s \in Nat \ {0} /\ BaseRate \in Nat \ {0} /\ StepRate \in Nat \ {0}
          /\ CYCLES_SECOND \in Nat /\ s * StepRate = CYCLES_SECOND
      BY Bases
    <2>4. t * BaseRate <= CYCLES_SECOND
      <3>1. /\ CYCLES_SECOND = BaseRate * t + (CYCLES_SECOND % BaseRate)
            /\ CYCLES_SECOND % BaseRate \in 0 .. BaseRate - 1
        BY <2>3, DivMod DEF Target
      <3> HIDE DEF t
      <3>2. BaseRate * t \in Nat /\ BaseRate * t = t * BaseRate
        BY <2>3
      <3>3. QED
        BY <2>3, <3>1, <3>2
    <2>5. ASSUME cycles % CYCLES_SECOND = 0 PROVE steps * CYCLES_SECOND = StepRate * cycles
      <3>1. CYCLES_SECOND \in Nat \ {0}
        <4> HIDE DEF s
        <4>1. QED BY <2>3
      <3>2. PICK n \in Nat : cycles = CYCLES_SECOND * n
        <4> DEFINE n == cycles \div CYCLES_SECOND
        <4>1. cycles = CYCLES_SECOND * n + (cycles % CYCLES_SECOND) /\ n \in Nat
          BY <2>1, <3>1, DivMod
        <4> HIDE DEF n
        <4>2. cycles = CYCLES_SECOND * n
          BY <2>5, <3>1, <4>1
        <4>3. QED
          BY <4>1, <4>2
      <3>3. steps = cycles \div s
        BY <1>1 DEF BaseInv, Counted, Multiples
      <3> HIDE DEF s
      <3>4. cycles = (StepRate * n) * s + 0
        BY <2>3, <3>2
      <3>5. steps = StepRate * n
        <4>1. StepRate * n \in Nat /\ 0 \in 0 .. s - 1
          BY <2>3
        <4>2. ((StepRate * n) * s + 0) \div s = StepRate * n
          BY <2>3, <4>1
        <4>3. QED
          BY <3>3, <3>4, <4>2
      <3>6. QED
        BY <2>3, <3>2, <3>5
    <2> HIDE DEF t, s
    <2>6. bases * t <= cycles
      <3>1. t * bases \in Nat /\ t * bases = bases * t
        BY <2>2, <2>3
      <3>2. QED
        BY <2>2, <3>1
    <2>7. bases * CYCLES_SECOND > BaseRate * cycles - CYCLES_SECOND
      <3>1. PICK u \in Nat : u = CYCLES_SECOND - t * BaseRate
        BY <2>3, <2>4
      <3>2. PICK v \in Nat : v = t * (bases + 1) - cycles /\ v >= 1
        <4>1. t * (bases + 1) = t * bases + t /\ t * bases \in Nat
          BY <2>2, <2>3
        <4>2. QED
          BY <2>1, <2>2, <2>3, <4>1
      <3>3. (bases + 1) * CYCLES_SECOND = (bases + 1) * (t * BaseRate) + (bases + 1) * u
        <4>1. CYCLES_SECOND = t * BaseRate + u /\ t * BaseRate \in Nat
          BY <2>3, <3>1
        <4>2. QED
          BY <2>2, <4>1
      <3>4. (bases + 1) * (t * BaseRate) = BaseRate * cycles + BaseRate * v
        <4>1. t * (bases + 1) = cycles + v
          BY <2>1, <2>2, <2>3, <3>2
        <4>2. (bases + 1) * (t * BaseRate) = BaseRate * (t * (bases + 1))
          BY <2>2, <2>3
        <4>3. BaseRate * (cycles + v) = BaseRate * cycles + BaseRate * v
          BY <2>1, <2>3
        <4>4. QED
          BY <4>1, <4>2, <4>3
      <3>5. BaseRate * v >= 1 /\ (bases + 1) * u >= 0
        BY <2>2, <2>3, <3>1, <3>2
      <3>6. (bases + 1) * CYCLES_SECOND = bases * CYCLES_SECOND + CYCLES_SECOND
        BY <2>2, <2>3
      <3>7. /\ bases * CYCLES_SECOND \in Int /\ BaseRate * cycles \in Int
            /\ BaseRate * v \in Int /\ (bases + 1) * u \in Int
        BY <2>1, <2>2, <2>3
      <3>8. QED
        BY <2>3, <3>3, <3>4, <3>5, <3>6, <3>7
    <2>8. fed = Scaled(cycles)
      BY <1>1 DEF BaseInv, Counted
    <2>9. QED
      BY <2>5, <2>6, <2>7, <2>8 DEF RatesHeld, t
  <1>2. QED
    BY <1>1, BaseInvariant, PTL

\* A multiple of t lies in (a, b] exactly if b has more of them below it than a.
LEMMA CrossesIs ==
    ASSUME NEW t \in Nat \ {0}, NEW a \in Nat, NEW b \in Nat
    PROVE  Crosses(t, a, b) <=> b \div t > a \div t
  <1> DEFINE q == a \div t
             p == b \div t
  <1>1. q \in Nat /\ a % t \in 0 .. t - 1 /\ a = t * q + (a % t)
    BY DivMod
  <1>2. p \in Nat /\ b % t \in 0 .. t - 1 /\ b = t * p + (b % t)
    BY DivMod
  <1> HIDE DEF q, p
  <1>3. t * q \in Nat /\ t * p \in Nat
    BY <1>1, <1>2
  <1>4. a < t * q + t /\ t * q <= a /\ b < t * p + t /\ t * p <= b
    BY <1>1, <1>2, <1>3
  <1>5. ASSUME Crosses(t, a, b) PROVE p > q
    <2>1. PICK k \in a + 1 .. b : k % t = 0
      BY <1>5 DEF Crosses
    <2> DEFINE m == k \div t
    <2>2. k \in Nat
      BY <2>1
    <2>3. m \in Nat /\ k = t * m + (k % t)
      BY <2>2, DivMod
    <2> HIDE DEF m
    <2>4. k = t * m /\ t * m \in Nat
      BY <2>1, <2>3
    <2>5. m > q
      <3> SUFFICES ASSUME m <= q PROVE FALSE
        BY <1>1, <2>3
      <3>1. t * m <= t * q
        BY <1>1, <2>3
      <3>2. QED
        BY <1>3, <1>4, <2>1, <2>4, <3>1
    <2>6. m <= p
      <3> SUFFICES ASSUME m >= p + 1 PROVE FALSE
        BY <1>2, <2>3
      <3>1. t * m >= t * p + t
        BY <1>2, <2>3
      <3>2. QED
        BY <1>3, <1>4, <2>1, <2>4, <3>1
    <2>7. QED
      BY <1>1, <1>2, <2>3, <2>5, <2>6
  <1>6. ASSUME p > q PROVE Crosses(t, a, b)
    <2>1. t * p >= t * q + t
      BY <1>1, <1>2, <1>6
    <2>2. t * p \in a + 1 .. b
      BY <1>3, <1>4, <2>1
    <2>3. (t * p) % t = 0
      <3>1. p * t + 0 = t * p /\ 0 \in 0 .. t - 1
        BY <1>2
      <3>2. (p * t + 0) % t = 0
        BY <1>2, <3>1, Rounds
      <3>3. QED
        BY <3>1, <3>2
    <2>4. QED
      BY <2>2, <2>3 DEF Crosses
  <1>7. QED
    BY <1>5, <1>6 DEF p, q

\* A multiple of the coarser period is one of the finer.
LEMMA FinerCrosses ==
    ASSUME NEW s \in Nat \ {0}, NEW t \in Nat \ {0}, t % s = 0,
           NEW a \in Nat, NEW b \in Nat, Crosses(t, a, b)
    PROVE  Crosses(s, a, b)
  <1>1. PICK k \in a + 1 .. b : k % t = 0
    BY DEF Crosses
  <1> DEFINE m == k \div t
             j == t \div s
  <1>2. k \in Nat
    BY <1>1
  <1>3. m \in Nat /\ k = t * m + (k % t)
    BY <1>2, DivMod
  <1>4. j \in Nat /\ t = s * j + (t % s)
    BY DivMod
  <1> HIDE DEF m, j
  <1>5. k = t * m
    BY <1>1, <1>3
  <1>6. t = s * j
    BY <1>4
  <1>7. k = (m * j) * s + 0
    BY <1>3, <1>4, <1>5, <1>6
  <1>8. m * j \in Nat /\ 0 \in 0 .. s - 1
    BY <1>3, <1>4
  <1>9. ((m * j) * s + 0) % s = 0
    BY <1>8, Rounds
  <1>10. QED
    BY <1>1, <1>7, <1>9 DEF Crosses

\* At a rate whose period the clock's steps divide, the sample interrupt is
\* raised by the batches that hold a multiple of the period and by no others.
THEOREM NoSampleLost == BaseSpec => SampleNotMissed
  <1> DEFINE P == \A taken \in Batches \cup {BatchOff} : cycles' = cycles + taken =>
                    (sample_rate # NoRate /\ Target(sample_rate) % Target(StepRate) = 0 =>
                       (sampled' <=> Crosses(Target(sample_rate), cycles, cycles')))
  <1>1. ASSUME BaseInv, [BaseNext]_baseVars PROVE P
    <2> SUFFICES ASSUME NEW taken \in Batches \cup {BatchOff}, cycles' = cycles + taken,
                        sample_rate # NoRate, Target(sample_rate) % Target(StepRate) = 0
                 PROVE  sampled' <=> Crosses(Target(sample_rate), cycles, cycles')
      OBVIOUS
    <2> DEFINE t == Target(sample_rate)
               s == Target(StepRate)
               b == cycles + taken
    <2>1. /\ cycles \in Nat /\ taken \in Nat \ {0} /\ b \in Nat
          /\ t \in Nat \ {0} /\ s \in Nat \ {0}
      BY <1>1, Bases DEF BaseInv, BaseTypeOK
    <2>2. PICK some \in Batches \cup {BatchOff}, off \in BOOLEAN : Batch(some, off)
      <3>1. cycles' # cycles
        BY <2>1
      <3>2. QED
        BY <1>1, <3>1 DEF BaseNext, baseVars, SelectRate
    <2>3. last_cycles' = cycles /\ cycles' = b
      BY <2>2 DEF Batch, Advance
    <2>4. sampled' <=> /\ b \div s - cycles \div s > 0
                       /\ b \div t - cycles \div t > 0
      BY <2>2, <2>3 DEF Batch, Sampled, trigger_x_times_per_s, Multiples, Target
    <2> HIDE DEF t, s, b
    <2>5. /\ Divides(b, s) /\ Divides(cycles, s)
          /\ Divides(b, t) /\ Divides(cycles, t)
      BY <2>1, Division
    <2>6. sampled' <=> b \div s > cycles \div s /\ b \div t > cycles \div t
      BY <2>4, <2>5 DEF Divides
    <2>7. /\ Crosses(s, cycles, b) <=> b \div s > cycles \div s
          /\ Crosses(t, cycles, b) <=> b \div t > cycles \div t
      BY <2>1, CrossesIs
    <2>8. Crosses(t, cycles, b) => Crosses(s, cycles, b)
      <3>1. t % s = 0
        BY DEF t, s
      <3>2. QED
        BY <2>1, <3>1, FinerCrosses
    <2>9. QED
      BY <2>3, <2>6, <2>7, <2>8 DEF t
  <1>2. QED
    BY <1>1, BaseInvariant, PTL DEF BaseSpec, SampleNotMissed
-----------------------------------------------------------------------------
(* The UART's registers *)

LEMMA BankBitsAre == /\ BankBits[0] = {} /\ BankBits[1] = {0}
                     /\ BankBits[2] = {1} /\ BankBits[3] = {0, 1}
  BY DEF BankBits, Banks

LEMMA BankIs == ASSUME NEW b \in Banks, NEW value, value \cap {0, 1} = BankBits[b]
                PROVE  BankOf(value) = b
  <1>1. \A c \in Banks : BankBits[c] = BankBits[b] => c = b
    BY BankBitsAre DEF Banks
  <1>2. QED
    BY <1>1 DEF BankOf

LEMMA BankFound == ASSUME NEW value PROVE BankOf(value) \in Banks
  <1>1. \E b \in Banks : BankBits[b] = value \cap {0, 1}
    <2>1. CASE 0 \in value /\ 1 \in value
      BY <2>1, BankBitsAre DEF Banks
    <2>2. CASE 0 \in value /\ 1 \notin value
      BY <2>2, BankBitsAre DEF Banks
    <2>3. CASE 0 \notin value /\ 1 \in value
      BY <2>3, BankBitsAre DEF Banks
    <2>4. CASE 0 \notin value /\ 1 \notin value
      BY <2>4, BankBitsAre DEF Banks
    <2>5. QED
      BY <2>1, <2>2, <2>3, <2>4
  <1>2. QED
    BY <1>1 DEF BankOf

\* The control register of each bank, and the bits it keeps.
LEMMA Controls ==
    /\ At3d[1] = "IVR" /\ At3d[2] = "FCR" /\ At3d[3] = "IER"
    /\ Kept[0] = {2} /\ Kept[1] = {3, 6, 7} /\ Kept[2] = 2 .. 7
  BY DEF At3d, Kept, Banks

LEMMA WroteBank ==
    ASSUME NEW old, NEW value
    PROVE  /\ Wrote3d(old, 0, value) = [old EXCEPT !["IVR"] = value \cap {2}]
           /\ Wrote3d(old, 1, value) = [old EXCEPT !["FCR"] = value \cap {3, 6, 7}]
           /\ Wrote3d(old, 2, value) = [old EXCEPT !["IER"] = value \cap (2 .. 7)]
           /\ Wrote3d(old, 3, value) = old
  <1>1. 0 + 1 = 1 /\ 1 + 1 = 2 /\ 2 + 1 = 3 /\ 0 # 3 /\ 1 # 3 /\ 2 # 3
    OBVIOUS
  <1>2. QED
    BY <1>1, Controls DEF Wrote3d

\* The vector lies above the bits that bank 0 keeps.
LEMMA ShiftedAbove == ASSUME NEW v \in SUBSET (0 .. 4) PROVE Shift3(v) \cap {0, 1, 2} = {}
  BY DEF Shift3

\* Writing back what was read, with another bank in the low bits or none, changes
\* no register.
LEMMA WritesBack ==
    ASSUME UartTypeOK, OnlyKept, NEW low \in SUBSET {0, 1}
    PROVE  /\ Wrote3d(uart, bk, (read_3d \ {0, 1}) \cup low) = uart
           /\ read_3d \cap {0, 1} = BankBits[bk]
  <1> DEFINE value == (read_3d \ {0, 1}) \cup low
  <1>1. bk \in {0, 1, 2, 3} /\ Shift3(vector) \cap {0, 1, 2} = {}
    BY ShiftedAbove DEF UartTypeOK, Banks
  <1>2. \A r \in UartRegisters : [uart EXCEPT ![r] = uart[r]] = uart
    BY DEF UartTypeOK
  <1>3. {"IVR", "FCR", "IER"} \subseteq UartRegisters
    BY DEF UartRegisters
  <1>4. CASE bk = 0
    <2>1. read_3d = Shift3(vector) \cup (uart["IVR"] \cap {2})
      BY <1>4 DEF read_3d
    <2>2. value \cap {2} = uart["IVR"]
      BY <1>1, <2>1 DEF OnlyKept
    <2> HIDE DEF value
    <2>3. Wrote3d(uart, bk, value) = [uart EXCEPT !["IVR"] = uart["IVR"]]
      <3>1. Wrote3d(uart, 0, value) = [uart EXCEPT !["IVR"] = value \cap {2}]
        BY WroteBank
      <3>2. QED
        BY <1>4, <2>2, <3>1
    <2>4. read_3d \cap {0, 1} = {}
      BY <1>1, <2>1
    <2>5. QED
      BY <1>2, <1>3, <1>4, <2>3, <2>4, BankBitsAre DEF value
  <1>5. CASE bk = 1
    <2>1. read_3d = uart["FCR"] \cup {0}
      BY <1>5, BankBitsAre DEF read_3d
    <2>2. value \cap {3, 6, 7} = uart["FCR"]
      BY <2>1 DEF OnlyKept
    <2> HIDE DEF value
    <2>3. Wrote3d(uart, bk, value) = [uart EXCEPT !["FCR"] = uart["FCR"]]
      <3>1. Wrote3d(uart, 1, value) = [uart EXCEPT !["FCR"] = value \cap {3, 6, 7}]
        BY WroteBank
      <3>2. QED
        BY <1>5, <2>2, <3>1
    <2>4. read_3d \cap {0, 1} = {0}
      BY <2>1 DEF OnlyKept
    <2>5. QED
      BY <1>2, <1>3, <1>5, <2>3, <2>4, BankBitsAre DEF value
  <1>6. CASE bk = 2
    <2>1. read_3d = uart["IER"] \cup {1}
      BY <1>6, BankBitsAre DEF read_3d
    <2>2. value \cap (2 .. 7) = uart["IER"]
      BY <2>1 DEF OnlyKept
    <2> HIDE DEF value
    <2>3. Wrote3d(uart, bk, value) = [uart EXCEPT !["IER"] = uart["IER"]]
      <3>1. Wrote3d(uart, 2, value) = [uart EXCEPT !["IER"] = value \cap (2 .. 7)]
        BY WroteBank
      <3>2. QED
        BY <1>6, <2>2, <3>1
    <2>4. read_3d \cap {0, 1} = {1}
      BY <2>1 DEF OnlyKept
    <2>5. QED
      BY <1>2, <1>3, <1>6, <2>3, <2>4, BankBitsAre DEF value
  <1>7. CASE bk = 3
    BY <1>7, BankBitsAre DEF read_3d, Wrote3d
  <1>8. QED
    BY <1>1, <1>4, <1>5, <1>6, <1>7

\* A write to 0x3d leaves registers of the right type with only their bits.
LEMMA Writes3d ==
    ASSUME UartTypeOK, OnlyKept, NEW value \in SUBSET UartBits
    PROVE  /\ Wrote3d(uart, bk, value) \in [UartRegisters -> SUBSET UartBits]
           /\ Wrote3d(uart, bk, value)["IVR"] \subseteq {2}
           /\ Wrote3d(uart, bk, value)["FCR"] \subseteq {3, 6, 7}
           /\ Wrote3d(uart, bk, value)["IER"] \subseteq 2 .. 7
  <1>1. bk \in {0, 1, 2, 3}
    BY DEF UartTypeOK, Banks
  <1>2. {"IVR", "FCR", "IER"} \subseteq UartRegisters
    BY DEF UartRegisters
  <1> USE <1>2, WroteBank DEF UartTypeOK, OnlyKept
  <1>3. CASE bk = 0
    BY <1>3
  <1>4. CASE bk = 1
    BY <1>4
  <1>5. CASE bk = 2
    BY <1>5
  <1>6. CASE bk = 3
    BY <1>6
  <1>7. QED
    BY <1>1, <1>3, <1>4, <1>5, <1>6

\* The other addresses reach none of the control registers.
LEMMA StoresElsewhere ==
    ASSUME UartTypeOK, NEW at \in {At3a, At3b, At3c}, NEW value \in SUBSET UartBits
    PROVE  /\ Stored(uart, at, bk, value) \in [UartRegisters -> SUBSET UartBits]
           /\ AfterRead(uart, at, bk) \in [UartRegisters -> SUBSET UartBits]
           /\ \A r \in {"IVR", "FCR", "IER"} : /\ Stored(uart, at, bk, value)[r] = uart[r]
                                               /\ AfterRead(uart, at, bk)[r] = uart[r]
  <1> DEFINE r == at[bk + 1]
  <1>1. r \in {"THR", "BSR", "CSTOP", "GPC", "LCR", "IRCR", "CSTART", "RESERVED",
               "MCR", "MSR", "TMR", "P05"}
    BY DEF UartTypeOK, Banks, At3a, At3b, At3c
  <1> HIDE DEF r
  <1>2. {"IVR", "FCR", "IER", "GPC", "P05", "BSR", "MCR"} \subseteq UartRegisters
    BY DEF UartRegisters
  <1>3. r # "THR" => r \in UartRegisters
    BY <1>1 DEF UartRegisters
  <1>4. r \notin {"IVR", "FCR", "IER"}
    BY <1>1
  <1>5. AfterRead(uart, at, bk) = IF r = "MCR" THEN [uart EXCEPT !["MCR"] = @ \ {4}] ELSE uart
    BY DEF AfterRead, r
  <1>6. /\ AfterRead(uart, at, bk) \in [UartRegisters -> SUBSET UartBits]
        /\ \A c \in {"IVR", "FCR", "IER"} : AfterRead(uart, at, bk)[c] = uart[c]
    BY <1>2, <1>5 DEF UartTypeOK
  <1>7. Stored(uart, at, bk, value) \in
            {uart, [uart EXCEPT !["BSR"] = value \ {4, 5}],
             [uart EXCEPT !["P05"] = value \cap uart["GPC"]]}
              \cup (IF r # "THR" THEN {[uart EXCEPT ![r] = value]} ELSE {})
    BY DEF Stored, r
  <1>8. /\ Stored(uart, at, bk, value) \in [UartRegisters -> SUBSET UartBits]
        /\ \A c \in {"IVR", "FCR", "IER"} : Stored(uart, at, bk, value)[c] = uart[c]
    BY <1>2, <1>3, <1>4, <1>7 DEF UartTypeOK
  <1>9. QED
    BY <1>6, <1>8

\* An interrupt handler that saves, selects and restores leaves the bank and all
\* registers as the main program made them.
THEOREM HandlersLeaveNoTrace == UartSpec => []HandlerLeavesNoTrace
  <1>1. UartInit => UartInv
    <2>1. UartInit => UartTypeOK /\ OnlyKept
      BY DEF UartInit, UartTypeOK, OnlyKept, Banks, UartRegisters
    <2>2. QED
      BY <2>1 DEF UartInit, UartInv, Remembered
  <1>2. UartInv /\ [UartNext]_uartVars => UartInv'
    <2> SUFFICES ASSUME UartInv, [UartNext]_uartVars PROVE UartInv'
      OBVIOUS
    <2>1. UartTypeOK /\ OnlyKept /\ asked.uart = uart
      BY DEF UartInv
    <2>2. handler = "out" => bk = asked.bank
      BY DEF UartInv, Remembered
    <2>3. \A value \in UartBytes, b \in Banks : value \cup BankBits[b] \in SUBSET UartBits
      <3>1. \A b \in Banks : BankBits[b] \in SUBSET UartBits
        BY BankBitsAre DEF Banks, UartBits
      <3>2. QED
        BY <3>1, UartAssumption
    <2>4. ASSUME NEW value \in SUBSET UartBits, MainWritesControl(value) PROVE UartInv'
      <3>1. /\ handler = "out" /\ handler' = "out" /\ vector' = vector
            /\ uart' = Wrote3d(uart, bk, value) /\ bk' = BankOf(value)
        BY <2>4 DEF MainWritesControl
      <3>2. asked' = [bank |-> bk', uart |-> uart']
        BY <2>1, <2>2, <2>4, <3>1 DEF MainWritesControl, Wrote3d
      <3>3. UartTypeOK' /\ OnlyKept'
        BY <2>1, <3>1, Writes3d, BankFound DEF UartTypeOK, OnlyKept
      <3>4. QED
        BY <3>1, <3>2, <3>3 DEF UartInv, Remembered
    <2>4a. ASSUME NEW at \in {At3a, At3b, At3c}, NEW value \in SUBSET UartBits,
                 MainWrites(at, value) \/ MainReads(at)
          PROVE  UartInv'
      <3>2. /\ handler = "out" /\ handler' = "out" /\ vector' = vector /\ bk' = bk
            /\ uart' \in {Stored(uart, at, bk, value), AfterRead(uart, at, bk)}
        BY <2>4a DEF MainWrites, MainReads
      <3>3. asked' = [bank |-> bk', uart |-> uart']
        <4>1. asked = [bank |-> bk, uart |-> uart]
          BY <2>1, <2>2, <3>2 DEF UartInv
        <4>2. asked' = [asked EXCEPT !.uart = uart']
          BY <2>1, <2>2, <2>4a, <3>2 DEF MainWrites, MainReads
        <4>3. QED
          BY <3>2, <4>1, <4>2
      <3>4. UartTypeOK' /\ OnlyKept'
        <4>1. /\ uart' \in [UartRegisters -> SUBSET UartBits]
              /\ \A r \in {"IVR", "FCR", "IER"} : uart'[r] = uart[r]
          <5>1. CASE uart' = Stored(uart, at, bk, value)
            BY <2>1, <5>1, StoresElsewhere
          <5>2. CASE uart' = AfterRead(uart, at, bk)
            BY <2>1, <5>2, StoresElsewhere
          <5>3. QED
            BY <3>2, <5>1, <5>2
        <4>2. QED
          BY <2>1, <3>2, <4>1 DEF UartTypeOK, OnlyKept
      <3>5. QED
        BY <3>2, <3>3, <3>4 DEF UartInv, Remembered
    <2>5. ASSUME NEW at \in {At3a, At3b, At3c}, NEW value \in UartBytes, MainWrites(at, value)
          PROVE  UartInv'
      BY <2>5, <2>4a, UartAssumption
    <2>6. CASE Interrupt
      <3>1. /\ handler' = "entered" /\ vector' \subseteq 0 .. 4 /\ saved_bk' = read_3d'
            /\ bk' = bk /\ uart' = uart /\ asked' = asked /\ bk = asked.bank
        BY <2>2, <2>6 DEF Interrupt, VectorBytes
      <3>2. QED
        BY <2>6, <3>1 DEF UartInv, UartTypeOK, OnlyKept, Remembered
    <2>7. CASE SelectsBank0
      <3>1. saved_bk = read_3d /\ bk = asked.bank /\ bk \in Banks
        BY <2>1, <2>7 DEF SelectsBank0, UartInv, Remembered, UartTypeOK
      <3>2. /\ handler' = "bank0" /\ bk' = 0 /\ vector' = vector /\ saved_bk' = saved_bk
            /\ asked' = asked /\ uart' = Wrote3d(uart, bk, (read_3d \ {0, 1}) \cup {})
        BY <2>7, <3>1 DEF SelectsBank0
      <3>3. uart' = uart /\ saved_bk \cap {0, 1} = BankBits[bk]
        BY <2>1, <3>1, <3>2, WritesBack
      <3>4. QED
        BY <3>1, <3>2, <3>3 DEF UartInv, UartTypeOK, OnlyKept, Remembered, Banks
    <2>8. CASE Returns
      <3>1. asked.bank \in Banks /\ saved_bk \cap {0, 1} = BankBits[asked.bank]
        BY <2>8 DEF Returns, UartInv, Remembered
      <3>2. /\ handler' = "out" /\ vector' \subseteq 0 .. 4 /\ bk' = BankOf(saved_bk)
            /\ asked' = asked
            /\ uart' = Wrote3d(uart, bk, (read_3d \ {0, 1}) \cup (saved_bk \cap {0, 1}))
        BY <2>8 DEF Returns, VectorBytes
      <3>3. uart' = uart
        BY <2>1, <3>2, WritesBack
      <3>4. bk' = asked.bank
        BY <3>1, <3>2, BankIs
      <3>5. QED
        BY <3>1, <3>2, <3>3, <3>4 DEF UartInv, UartTypeOK, OnlyKept, Remembered
    <2>9. CASE UNCHANGED uartVars
      BY <2>9 DEF uartVars, UartInv, UartTypeOK, OnlyKept, Remembered, read_3d
    <2>10. ASSUME NEW value \in UartBytes, NEW b \in Banks,
                  MainWritesControl(value \cup BankBits[b])
           PROVE  UartInv'
      BY <2>3, <2>4, <2>10
    <2>11. CASE \E at \in {At3a, At3b, At3c} : MainReads(at)
      <3>1. {} \in SUBSET UartBits
        OBVIOUS
      <3>2. QED
        BY <2>4a, <2>11, <3>1
    <2>12. QED
      BY <2>5, <2>6, <2>7, <2>8, <2>9, <2>10, <2>11 DEF UartNext
  <1>3. UartInv => HandlerLeavesNoTrace
    BY DEF UartInv, Remembered, HandlerLeavesNoTrace
  <1>4. QED
    BY <1>1, <1>2, <1>3, PTL DEF UartSpec
=============================================================================
