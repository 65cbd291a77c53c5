------------------------- MODULE PeripheralProofs -------------------------
(***************************************************************************)
(* Proofs about the devices beside the radio: the SD card that Logger      *)
(* writes to, and the LED, the display and the USB port of FrontPanel.     *)
(* They share no variable, so that nothing proved of one is used for       *)
(* another.  Of FrontPanel three invariants are inductive, each for the    *)
(* part of the state that its steps change: LightInv relates the pulses    *)
(* still to come, next_pulse_ms and the ghosts that record the LED;        *)
(* PanelInv says that saw_our_beacon is what the frames shown imply; and   *)
(* UsbInv that cmd_buffer is the line typed, less the spaces before it, as *)
(* long as no byte was stored behind it: from then on nothing is claimed.  *)
(***************************************************************************)
EXTENDS Logger, FrontPanel, SequenceTheorems, WellFoundedInduction, TLAPS

---------------------------------------------------------------------------
(* The card.                                                               *)

Num(file) == file[2]

\* The numbers stay below the number of starts, so that one more start can
\* always write the next.
NumberInv ==
  /\ latest.there => starts >= 1
  /\ latest.there /\ stage \in {"mount", "read"} => starts >= 2
  /\ latest.text # <<>> =>
       /\ latest.there
       /\ latest.text[1] <= starts - (IF stage \in {"mount", "read"} THEN 2 ELSE 1)
       /\ stage = "truncate" => latest.text[1] <= starts - 2
  /\ stage \in {"off", "mount", "read"} => latest_log = -1
  /\ stage # "off" => starts >= 1 /\ latest_log <= starts - 1
  /\ stage \in {"truncate", "number"} => latest_log <= starts - 2
  /\ stage = "number" => latest = [there |-> TRUE, text |-> <<>>]
  /\ stage \in {"txt", "pcap", "header"} => latest_log >= 0
  /\ opened # {} => latest_log >= 0

\* A log that holds a line is on the card for good, with the text log of its
\* number; and the logs that are open have no line of an earlier start.
LinesInv ==
  /\ \A line \in lines : {line[1], Txt(Num(line[1]))} \subseteq files \ unsynced
  /\ opened \subseteq {Txt(latest_log), Pcap(latest_log)}
  /\ opened # {} \/ stage = "pcap" => Txt(latest_log) \in opened
  /\ stage \notin {"pcap", "header", "running"} => opened = {}
  /\ stage = "off" => unsynced = {}
  /\ \A line \in lines :
       opened # {} /\ Num(line[1]) = latest_log => line[2] = starts

\* Unless `latest` was lost, it is as high as every number on the card.
FreshInv ==
  ~torn /\ ~failed =>
    /\ \A file \in files : latest.there
    /\ latest.there /\ stage # "number" => latest.text # <<>>
    /\ stage # "number" => \A file \in files : Num(file) <= latest.text[1]
    /\ stage \in {"truncate", "number"} => \A file \in files : Num(file) <= latest_log
    /\ stage \in {"txt", "pcap", "header"} => latest.text = <<latest_log>>
    /\ stage = "txt" => \A file \in files : Num(file) < latest_log

CardInv == CardTypeOK /\ NumberInv /\ LinesInv /\ OneStartPerNumber /\ FreshInv

---------------------------------------------------------------------------

\* A card on which nothing was ever written.
LEMMA CardInitInv == CardInit => CardInv
<1> SUFFICES ASSUME CardInit PROVE CardInv
  OBVIOUS
<1>1. CardTypeOK
  <2>1. latest \in [there: BOOLEAN, text: Seq(0..MaxStarts)] /\ Len(latest.text) <= 1
    <3>1. <<>> \in Seq(0..MaxStarts) /\ Len(<<>>) = 0
      OBVIOUS
    <3>2. QED
      BY <3>1 DEF CardInit
  <2>2. /\ latest_log \in Numbers /\ starts \in 0..MaxStarts
        /\ lines \subseteq LogFiles \X (1..MaxStarts) /\ files \subseteq LogFiles
    BY StartsAssumption DEF CardInit, Numbers
  <2>3. QED
    BY <2>1, <2>2 DEF CardInit, CardTypeOK
<1>2. NumberInv /\ LinesInv /\ OneStartPerNumber /\ FreshInv
  BY DEF CardInit, NumberInv, LinesInv, OneStartPerNumber, FreshInv
<1>3. QED
  BY <1>1, <1>2 DEF CardInv

\* Switching on: a start more, with nothing open.
LEMMA StartInv ==
  ASSUME CardInv, Start
  PROVE  CardInv'
<1> USE StartsAssumption DEF CardInv, Start, ram, logs, past
<1>1. CardTypeOK'
  BY DEF CardTypeOK, NumberInv, LinesInv, Numbers, LogFiles
<1>2. NumberInv'
  <2>1. latest.text # <<>> => latest.text[1] \in 0..MaxStarts
    BY DEF CardTypeOK
  <2>2. QED
    BY <2>1 DEF CardTypeOK, NumberInv, LinesInv, Numbers
<1>3. LinesInv'
  BY DEF CardTypeOK, LinesInv, Num, Txt, Pcap
<1>4. OneStartPerNumber'
  BY DEF LinesInv, OneStartPerNumber, Num, Txt, Pcap
<1>5. FreshInv'
  BY DEF CardTypeOK, NumberInv, LinesInv, FreshInv, Num, Txt, Pcap, Numbers, LogFiles
<1>6. QED
  BY <1>1, <1>2, <1>3, <1>4, <1>5

\* Mounting the card, or not, leaves what is on it.
LEMMA MountInv ==
  ASSUME CardInv, Mount
  PROVE  CardInv'
<1> USE StartsAssumption DEF CardInv, Mount, ram, logs, past
<1>1. CardTypeOK'
  BY DEF CardTypeOK, NumberInv, LinesInv, Numbers, LogFiles
<1>2. NumberInv'
  BY DEF CardTypeOK, NumberInv, LinesInv, Numbers
<1>3. LinesInv'
  BY DEF CardTypeOK, LinesInv, Num, Txt, Pcap
<1>4. OneStartPerNumber'
  BY DEF LinesInv, OneStartPerNumber, Num, Txt, Pcap
<1>5. FreshInv'
  BY DEF CardTypeOK, NumberInv, LinesInv, FreshInv, Num, Txt, Pcap, Numbers, LogFiles
<1>6. QED
  BY <1>1, <1>2, <1>3, <1>4, <1>5

\* The number read is that of an earlier start.
LEMMA ReadLatestInv ==
  ASSUME CardInv, ReadLatest
  PROVE  CardInv'
<1> USE StartsAssumption DEF CardInv, ReadLatest, atoi, ram, logs, past
<1>1. CardTypeOK'
  <2>1. latest.text = <<>> \/ latest.text[1] \in 0..MaxStarts
    BY DEF CardTypeOK
  <2>2. latest_log' \in Numbers
    BY <2>1 DEF NumberInv, CardTypeOK, Numbers
  <2>3. QED
    BY <2>2 DEF CardTypeOK
<1>2. NumberInv'
  BY DEF CardTypeOK, NumberInv, LinesInv, Numbers
<1>3. LinesInv'
  BY DEF CardTypeOK, LinesInv, Num, Txt, Pcap
<1>4. OneStartPerNumber'
  BY DEF LinesInv, OneStartPerNumber, Num, Txt, Pcap
<1>5. FreshInv'
  BY DEF CardTypeOK, NumberInv, LinesInv, FreshInv, Num, Txt, Pcap, Numbers, LogFiles
<1>6. QED
  BY <1>1, <1>2, <1>3, <1>4, <1>5

\* latest.txt is created, or emptied, before its number is written.
LEMMA TruncateInv ==
  ASSUME CardInv, Truncate
  PROVE  CardInv'
<1> USE StartsAssumption DEF CardInv, Truncate, ram, logs, past
<1>1. CardTypeOK'
  <2>1. <<>> \in Seq(0..MaxStarts) /\ Len(<<>>) = 0
    OBVIOUS
  <2>2. latest' \in [there: BOOLEAN, text: Seq(0..MaxStarts)] /\ Len(latest'.text) <= 1
    <3>1. CASE UNCHANGED latest
      BY <3>1 DEF CardTypeOK
    <3>2. CASE latest' = [there |-> TRUE, text |-> <<>>]
      BY <2>1, <3>2
    <3>3. QED
      BY <3>1, <3>2
  <2>3. QED
    BY <2>2 DEF CardTypeOK
<1>2. NumberInv'
  BY DEF CardTypeOK, NumberInv, LinesInv, Numbers
<1>3. LinesInv'
  BY DEF CardTypeOK, LinesInv, Num, Txt, Pcap
<1>4. OneStartPerNumber'
  BY DEF LinesInv, OneStartPerNumber, Num, Txt, Pcap
<1>5. FreshInv'
  BY DEF CardTypeOK, NumberInv, LinesInv, FreshInv, Num, Txt, Pcap, Numbers, LogFiles
<1>6. QED
  BY <1>1, <1>2, <1>3, <1>4, <1>5

\* The number written is above every one that a log with a line has.
LEMMA WriteLatestInv ==
  ASSUME CardInv, WriteLatest
  PROVE  CardInv'
<1> USE StartsAssumption DEF CardInv, WriteLatest, ram, logs, past
<1>1. CardTypeOK'
  <2>1. latest_log + 1 \in 0..MaxStarts
    BY DEF CardTypeOK, NumberInv, Numbers
  <2>2. /\ <<latest_log + 1>> \in Seq(0..MaxStarts)
        /\ Len(<<latest_log + 1>>) = 1
    BY <2>1
  <2>3. latest_log + 1 \in Numbers
    BY <2>1 DEF Numbers
  <2>4. latest' \in [there: BOOLEAN, text: Seq(0..MaxStarts)] /\ Len(latest'.text) <= 1
    <3>1. latest \in [there: BOOLEAN, text: Seq(0..MaxStarts)] /\ Len(latest.text) <= 1
      BY DEF CardTypeOK
    <3>2. CASE UNCHANGED latest
      BY <3>1, <3>2
    <3>3. CASE latest' = [latest EXCEPT !.text = <<latest_log + 1>>]
      <4>1. latest' = [there |-> latest.there, text |-> <<latest_log + 1>>]
        BY <3>1, <3>3
      <4>2. latest'.text = <<latest_log + 1>> /\ latest'.there \in BOOLEAN
        BY <3>1, <4>1
      <4>3. QED
        BY <2>2, <4>1, <4>2
    <3>4. QED
      BY <3>2, <3>3
  <2>5. QED
    BY <2>3, <2>4 DEF CardTypeOK
<1>2. NumberInv'
  BY DEF CardTypeOK, NumberInv, LinesInv, Numbers
<1>3. LinesInv'
  BY DEF CardTypeOK, LinesInv, Num, Txt, Pcap
<1>4. OneStartPerNumber'
  BY DEF LinesInv, OneStartPerNumber, Num, Txt, Pcap
<1>5. FreshInv'
  <2>1. CASE torn' \/ failed'
    BY <2>1 DEF FreshInv
  <2>2. CASE ~torn' /\ ~failed'
    <3>1. ~torn /\ ~failed /\ latest' = [latest EXCEPT !.text = <<latest_log + 1>>]
      BY <2>2
    <3>2. latest'.text = <<latest_log + 1>> /\ latest'.there = latest.there
      BY <3>1 DEF CardTypeOK
    <3>3. \A file \in files : latest.there /\ Num(file) <= latest_log
      BY <3>1 DEF FreshInv
    <3>4. latest_log \in Int /\ \A file \in files : Num(file) \in Int
      BY DEF CardTypeOK, Numbers, LogFiles, Num
    <3>5. \A file \in files : latest.there /\ Num(file) < latest_log + 1
      BY <3>3, <3>4
    <3>6. <<latest_log + 1>> # <<>> /\ <<latest_log + 1>>[1] = latest_log + 1
      OBVIOUS
    <3>7. \A file \in files : Num(file) <= latest'.text[1]
      BY <3>2, <3>4, <3>5, <3>6
    <3>8. QED
      BY <3>2, <3>5, <3>6, <3>7 DEF FreshInv, Num
  <2>3. QED
    BY <2>1, <2>2
<1>6. QED
  BY <1>1, <1>2, <1>3, <1>4, <1>5

\* The text log is created, empty.
LEMMA CreateTxtInv ==
  ASSUME CardInv, CreateTxt
  PROVE  CardInv'
<1> USE StartsAssumption DEF CardInv, CreateTxt, CreateNew, NotCreated, Txt, Pcap, ram, logs, past
<1>1. CardTypeOK'
  BY DEF CardTypeOK, NumberInv, LinesInv, Numbers, LogFiles
<1>2. NumberInv'
  BY DEF CardTypeOK, NumberInv, LinesInv, Numbers
<1>3. LinesInv'
  BY DEF CardTypeOK, LinesInv, Num, Txt, Pcap
<1>4. OneStartPerNumber'
  BY DEF LinesInv, OneStartPerNumber, Num, Txt, Pcap
<1>5. FreshInv'
  BY DEF CardTypeOK, NumberInv, LinesInv, FreshInv, Num, Txt, Pcap, Numbers, LogFiles
<1>6. QED
  BY <1>1, <1>2, <1>3, <1>4, <1>5

\* The packet log is created, beside the text log of its number.
LEMMA CreatePcapInv ==
  ASSUME CardInv, CreatePcap
  PROVE  CardInv'
<1> USE StartsAssumption DEF CardInv, CreatePcap, CreateNew, NotCreated, Txt, Pcap, ram, logs, past
<1>1. CardTypeOK'
  BY DEF CardTypeOK, NumberInv, LinesInv, Numbers, LogFiles
<1>2. NumberInv'
  BY DEF CardTypeOK, NumberInv, LinesInv, Numbers
<1>3. LinesInv'
  BY DEF CardTypeOK, LinesInv, Num, Txt, Pcap
<1>4. OneStartPerNumber'
  BY DEF LinesInv, OneStartPerNumber, Num, Txt, Pcap
<1>5. FreshInv'
  BY DEF CardTypeOK, NumberInv, LinesInv, FreshInv, Num, Txt, Pcap, Numbers, LogFiles
<1>6. QED
  BY <1>1, <1>2, <1>3, <1>4, <1>5

\* The header is written and synchronised.
LEMMA HeaderInv ==
  ASSUME CardInv, Header
  PROVE  CardInv'
<1> USE StartsAssumption DEF CardInv, Header, Txt, Pcap, ram, logs, past
<1>1. CardTypeOK'
  BY DEF CardTypeOK, NumberInv, LinesInv, Numbers, LogFiles
<1>2. NumberInv'
  BY DEF CardTypeOK, NumberInv, LinesInv, Numbers
<1>3. LinesInv'
  BY DEF CardTypeOK, LinesInv, Num, Txt, Pcap
<1>4. OneStartPerNumber'
  BY DEF LinesInv, OneStartPerNumber, Num, Txt, Pcap
<1>5. FreshInv'
  BY DEF CardTypeOK, NumberInv, LinesInv, FreshInv, Num, Txt, Pcap, Numbers, LogFiles
<1>6. QED
  BY <1>1, <1>2, <1>3, <1>4, <1>5

\* A line goes to the logs that are open, and is synchronised.
LEMMA LogInv ==
  ASSUME NEW file \in opened, CardInv, Log(file)
  PROVE  CardInv'
<1> USE StartsAssumption DEF CardInv, Log, Txt, Pcap, ram, logs, past
<1>1. CardTypeOK'
  BY DEF CardTypeOK, NumberInv, LinesInv, Numbers, LogFiles
<1>2. NumberInv'
  BY DEF CardTypeOK, NumberInv, LinesInv, Numbers
<1>3. LinesInv'
  BY DEF CardTypeOK, LinesInv, Num, Txt, Pcap
<1>4. OneStartPerNumber'
  BY DEF LinesInv, OneStartPerNumber, Num, Txt, Pcap
<1>5. FreshInv'
  BY DEF CardTypeOK, NumberInv, LinesInv, FreshInv, Num, Txt, Pcap, Numbers, LogFiles
<1>6. QED
  BY <1>1, <1>2, <1>3, <1>4, <1>5

\* Power loss takes what is not synchronised: no log that holds a line is among it.
LEMMA PowerLossInv ==
  ASSUME CardInv, PowerLoss
  PROVE  CardInv'
<1> USE StartsAssumption DEF CardInv, PowerLoss, Txt, Pcap, ram, logs, past
<1>1. CardTypeOK'
  BY DEF CardTypeOK, NumberInv, LinesInv, Numbers, LogFiles
<1>2. NumberInv'
  BY DEF CardTypeOK, NumberInv, LinesInv, Numbers
<1>3. LinesInv'
  BY DEF CardTypeOK, LinesInv, Num, Txt, Pcap
<1>4. OneStartPerNumber'
  BY DEF LinesInv, OneStartPerNumber, Num, Txt, Pcap
<1>5. FreshInv'
  BY DEF CardTypeOK, NumberInv, LinesInv, FreshInv, Num, Txt, Pcap, Numbers, LogFiles
<1>6. QED
  BY <1>1, <1>2, <1>3, <1>4, <1>5

---------------------------------------------------------------------------

\* Every step keeps CardInv.
LEMMA CardStepInv ==
  ASSUME CardInv, [CardNext]_cardVars
  PROVE  CardInv'
<1>1. CASE Start
  BY <1>1, StartInv
<1>2. CASE LoggerInit
  BY <1>2, MountInv, ReadLatestInv, TruncateInv, WriteLatestInv, CreateTxtInv,
     CreatePcapInv, HeaderInv DEF LoggerInit
<1>3. CASE \E file \in opened : Log(file)
  BY <1>3, LogInv
<1>4. CASE PowerLoss
  BY <1>4, PowerLossInv
<1>5. CASE UNCHANGED cardVars
  BY <1>5
  DEF cardVars, ram, logs, past, CardInv, CardTypeOK, NumberInv, LinesInv, OneStartPerNumber,
      FreshInv, Txt, Pcap, Num
<1>6. QED
  BY <1>1, <1>2, <1>3, <1>4, <1>5 DEF CardNext

\* In every state, whatever start lost its power where, the numbers and the lines
\* are as CardInv has them: the invariant that the theorems about the card rest on.
THEOREM CardInvariance == CardSpec => []CardInv
  BY CardInitInv, CardStepInv, PTL DEF CardSpec

\* The numbers of the logs, and every other variable of logger.c, stay in
\* their range however often the board is started.
THEOREM CardTypeCorrect == CardSpec => []CardTypeOK
<1>1. CardInv => CardTypeOK
  BY DEF CardInv
<1>2. QED
  BY <1>1, CardInvariance, PTL

\* No log ever mixes what two starts wrote.
THEOREM OneStart == CardSpec => []OneStartPerNumber
<1>1. CardInv => OneStartPerNumber
  BY DEF CardInv
<1>2. QED
  BY <1>1, CardInvariance, PTL

\* While `latest` was never lost, roll_log_file finds its names not taken.
THEOREM Fresh == CardSpec => []NumberIsFresh
<1>1. CardInv => NumberIsFresh
  <2> SUFFICES ASSUME CardInv, stage = "txt", ~torn, ~failed
               PROVE  {Txt(latest_log), Pcap(latest_log)} \cap files = {}
    BY DEF NumberIsFresh
  <2>1. \A file \in files : Num(file) < latest_log
    BY DEF CardInv, FreshInv
  <2>2. Num(Txt(latest_log)) = latest_log /\ Num(Pcap(latest_log)) = latest_log
    BY DEF Num, Txt, Pcap
  <2>3. latest_log \in Int
    BY DEF CardInv, CardTypeOK, Numbers
  <2>4. QED
    BY <2>1, <2>2, <2>3
<1>2. QED
  BY <1>1, CardInvariance, PTL

\* No start, failure or power loss takes back what was logged.
THEOREM Kept == CardSpec => LogsKept
<1> DEFINE Keep == lines \subseteq lines' /\ \A line \in lines : line[1] \in files'
<1>1. CardInv /\ [CardNext]_cardVars => [Keep]_cardVars
  <2> SUFFICES ASSUME CardInv, CardNext PROVE Keep
    OBVIOUS
  <2>1. \A line \in lines : line[1] \in files \ unsynced
    BY DEF CardInv, LinesInv
  <2>2. CASE Start \/ LoggerInit \/ \E file \in opened : Log(file)
    BY <2>1, <2>2
    DEF Start, LoggerInit, Mount, ReadLatest, Truncate, WriteLatest, CreateTxt, CreatePcap,
        Header, Log, CreateNew, NotCreated, logs
  <2>3. CASE PowerLoss
    BY <2>1, <2>3 DEF PowerLoss
  <2>4. QED
    BY <2>2, <2>3 DEF CardNext
<1>2. QED
  BY <1>1, CardInvariance, PTL DEF CardSpec, LogsKept

---------------------------------------------------------------------------
(* The front panel: its invariants, and facts of numbers and sequences.    *)

\* How long pulse k, or the pause after it, should last: the pulses have odd numbers.
Mark(l, k) ==
  IF k % 2 = 1 THEN Timing(letters[l][(k + 1) \div 2]) ELSE pulse_off_ms

\* What PulsesSpellTheLetter calls longest.
Longest(passes) == CHOOSE d \in passes : \A p \in passes : p <= d

\* The pulses still to come are the end of the letter, and those that lit records are
\* the others: with the LED on, the pulse it shows is the last of pulse_timings.
PulsesInv ==
  LET done == Len(letters[letter]) - Len(led.pulse_timings)
  IN  /\ done >= 0
      /\ \A i \in DOMAIN led.pulse_timings :
           led.pulse_timings[i] = Timing(letters[letter][Len(letters[letter]) + 1 - i])
      /\ led.led_state => led.pulse_timings # <<>>
      /\ Len(lit) = IF led.led_state THEN 2 * done ELSE IF done = 0 THEN 0 ELSE 2 * done - 1

\* The pulse, or the pause, that next_pulse_ms is the end of has begun.
Running == led.led_state \/ (lit # <<>> /\ led.pulse_timings # <<>>)

\* While the clock does not wrap: the LED changes at the planned time or at the first pass
\* after it, and the plan is made from the change before.
TimesInv ==
  ~wrapped =>
    /\ changed <= async_now_ms
    /\ Running => /\ led.next_pulse_ms = changed + Mark(letter, Len(lit) + 1)
                  /\ async_now_ms < led.next_pulse_ms
    /\ \A k \in DOMAIN lit : /\ Mark(letter, k) <= lit[k]
                              /\ lit[k] < Mark(letter, k) + Longest(scene.passes)

\* The types of all that LightInv is about.
LightTypes ==
  /\ scene \in Scenes /\ pc \in {"top", "tnc", "ble", "usb", "overrun"}
  /\ async_now_ms \in Clock /\ last_led_update_ms \in Clock /\ led_refresh_ms \in {IdleMs, BusyMs}
  /\ led \in LED /\ letter \in Letter
  /\ lit \in Seq(Clock) /\ changed \in Clock /\ wrapped \in BOOLEAN
  /\ connected \in BOOLEAN

\* PulsesSpellTheLetter says what the LED showed; LightInv also what it shows next, and when.
LightInv == LightTypes /\ PulsesInv /\ TimesInv

\* What lets the next frame be shown right: saw_our_beacon is what the frames implied.
PanelInv ==
  /\ scene \in Scenes
  /\ saw_our_beacon \in BOOLEAN /\ beacons = saw_our_beacon
  /\ oled = Nothing <=> frame = Nothing
  /\ ShownIsSent

\* A line without the spaces it begins with.
Stripped(bytes) ==
  LET first == SelectInSeq(bytes, LAMBDA b : b # SP)
  IN  IF first = 0 THEN <<>> ELSE SubSeq(bytes, first, Len(bytes))

\* cmd_buffer is the line so far, after the line feed that a blank line leaves.
UsbInv ==
  /\ scene \in Scenes
  /\ typed \in Seq(Key) /\ afterBlank \in BOOLEAN
  /\ Fits(cmd_buffer)
  /\ cmd_buffer = IF afterBlank THEN <<LF>> \o typed ELSE Stripped(typed)
  /\ CommandIsTyped

---------------------------------------------------------------------------

\* A set of numbers that is not empty has a least one, which Min is, ...
LEMMA LeastNumber ==
  ASSUME NEW T, T \subseteq Nat, T # {}
  PROVE  \E n \in T : \A m \in T : n <= m
<1> DEFINE R == OpToRel(<, Nat)
<1>1. IsWellFoundedOn(R, Nat)
  BY NatLessThanWellFounded
<1>2. \A x, y \in Nat : x < y => <<x, y>> \in R
  BY DEF OpToRel
<1> HIDE DEF R
<1>3. PICK n \in T : \A m \in T : <<m, n>> \notin R
  BY <1>1, WFMin
<1>4. ASSUME NEW m \in T PROVE n <= m
  <2>1. n \in Nat /\ m \in Nat
    OBVIOUS
  <2>2. m < n => <<m, n>> \in R
    BY <1>2, <2>1, Zenon
  <2>3. ~ (m < n)
    BY <1>3, <2>2, Zenon
  <2> QED
    BY <2>1, <2>3
<1> QED
  BY <1>4

\* ... and Min is the only number that is least.
LEMMA MinIsLeast ==
  ASSUME NEW T, T \subseteq Nat, NEW n \in T, \A m \in T : n <= m
  PROVE  Min(T) = n
<1>1. Min(T) \in T /\ \A m \in T : Min(T) <= m
  BY DEF Min
<1>2. Min(T) \in Nat /\ n \in Nat /\ Min(T) <= n /\ n <= Min(T)
  BY <1>1
<1> QED
  BY <1>2

\* ... and a bounded one has a greatest, which is the longest of the passes.
LEMMA LongestPass ==
  ASSUME NEW T, T # {}, T \subseteq Clock
  PROVE  Longest(T) \in T /\ \A p \in T : p <= Longest(T)
<1> DEFINE Below == {ClockRange - p : p \in T}
<1>1. ClockRange \in Nat
  BY LedAssumption
<1>2. Below \subseteq Nat /\ Below # {}
  <2>1. \A p \in T : ClockRange - p \in Nat
    BY <1>1 DEF Clock
  <2> QED
    BY <2>1
<1>3. PICK n \in Below : \A m \in Below : n <= m
  <2> HIDE DEF Below
  <2> QED
    BY <1>2, LeastNumber
<1>4. PICK d \in T : n = ClockRange - d
  BY <1>3
<1>5. ASSUME NEW p \in T PROVE p <= d
  <2>1. ClockRange - d <= ClockRange - p
    BY <1>3, <1>4
  <2>2. d \in Int /\ p \in Int
    BY DEF Clock
  <2> HIDE DEF Below
  <2> QED
    BY <1>1, <2>1, <2>2
<1> HIDE DEF Below
<1> QED
  BY <1>5 DEF Longest

\* Front takes the last element off and leaves the others ...
LEMMA FrontFacts ==
  ASSUME NEW S, NEW s \in Seq(S), s # <<>>
  PROVE  /\ Len(Front(s)) = Len(s) - 1
         /\ \A i \in DOMAIN Front(s) : i \in DOMAIN s /\ Front(s)[i] = s[i]
<1>1. Len(s) \in Nat /\ Len(s) >= 1 /\ \A i \in 1..(Len(s) - 1) : s[i] \in S
  OBVIOUS
<1> DEFINE n == Len(s) - 1
<1>2. n \in Nat /\ n <= Len(s) /\ \A i \in 1..n : i \in DOMAIN s /\ s[i] \in S
  BY <1>1
<1> HIDE DEF n
<1>3. Front(s) = SubSeq(s, 1, n)
  BY DEF Front, n
<1>4. SubSeq(s, 1, n) \in Seq(S)
  BY <1>2, SubSeqProperties
<1>5. Len(SubSeq(s, 1, n)) = n
  BY <1>2
<1>6. \A i \in 1..n : SubSeq(s, 1, n)[i] = s[i]
  BY <1>2
<1>7. DOMAIN SubSeq(s, 1, n) = 1..n
  BY <1>4, <1>5
<1> QED
  BY <1>2, <1>3, <1>5, <1>6, <1>7 DEF n

\* ... of the same set.
LEMMA FrontType ==
  ASSUME NEW S, NEW s \in Seq(S)
  PROVE  Front(s) \in Seq(S)
<1>1. Len(s) \in Nat /\ \A i \in 1..(Len(s) - 1) : s[i] \in S
  OBVIOUS
<1>2. SubSeq(s, 1, Len(s) - 1) \in Seq(S)
  BY <1>1, SubSeqProperties
<1> QED
  BY <1>2 DEF Front

---------------------------------------------------------------------------
(* The LED.                                                                *)

\* A letter is a sequence of marks, at least one.
LEMMA LetterFacts ==
  ASSUME NEW l \in Letter
  PROVE  letters[l] \in Seq({".", "-"}) /\ Len(letters[l]) \in Nat \ {0}
<1>1. l \in {"E", "M", "R", "S", "T"}
  BY DEF Letter, letters
<1>2. CASE l = "E"
  BY <1>2 DEF letters
<1>3. CASE l = "M"
  BY <1>3 DEF letters
<1>4. CASE l = "R"
  BY <1>4 DEF letters
<1>5. CASE l = "S"
  BY <1>5 DEF letters
<1>6. CASE l = "T"
  BY <1>6 DEF letters
<1> QED
  BY <1>1, <1>2, <1>3, <1>4, <1>5, <1>6

\* A mark lasts some time, but less than the clock goes round in.
LEMMA TimingType ==
  ASSUME NEW mark
  PROVE  /\ Timing(mark) \in {Timing("."), Timing("-")}
         /\ Timing(mark) \in Nat /\ 0 < Timing(mark) /\ Timing(mark) < ClockRange
BY LedAssumption DEF Timing

\* So does each pulse and each pause.
LEMMA MarkType ==
  ASSUME NEW l, NEW k
  PROVE  Mark(l, k) \in Nat /\ 0 < Mark(l, k) /\ Mark(l, k) < ClockRange
<1>1. ClockRange \in Nat /\ pulse_off_ms \in Nat /\ 0 < pulse_off_ms /\ pulse_off_ms < ClockRange
  BY LedAssumption
<1>2. CASE k % 2 = 1
  <2>1. Mark(l, k) = Timing(letters[l][(k + 1) \div 2])
    BY <1>2 DEF Mark
  <2> QED
    BY <2>1, TimingType
<1>3. CASE k % 2 # 1
  BY <1>1, <1>3 DEF Mark
<1> QED
  BY <1>2, <1>3

\* pulse_timings holds the timings of the letter from its end to its beginning.
LEMMA TimingsFacts ==
  ASSUME NEW l \in Letter
  PROVE  /\ Timings(l) \in Seq({Timing("."), Timing("-")})
         /\ Len(Timings(l)) = Len(letters[l]) /\ Timings(l) # <<>>
         /\ \A i \in DOMAIN Timings(l) :
              Timings(l)[i] = Timing(letters[l][Len(letters[l]) + 1 - i])
<1> DEFINE marks == letters[l]
<1> DEFINE n == Len(marks)
<1> DEFINE times == [i \in DOMAIN marks |-> Timing(marks[i])]
<1>1. n \in Nat \ {0} /\ DOMAIN marks = 1..n
  BY LetterFacts
<1>2. /\ times = [i \in 1..n |-> Timing(marks[i])] /\ \A i \in 1..n : times[i] = Timing(marks[i])
  BY <1>1
<1> HIDE DEF marks
<1>3. \A i \in 1..n : Timing(marks[i]) \in {Timing("."), Timing("-")}
  BY TimingType
<1>4. times \in Seq({Timing("."), Timing("-")}) /\ Len(times) = n
  BY <1>1, <1>2, <1>3
<1> HIDE DEF times
<1>5. Timings(l) = [i \in 1..n |-> times[(n - i) + 1]]
  BY <1>4 DEF Timings, Reverse, marks, times
<1>6. \A i \in 1..n : times[(n - i) + 1] = Timing(marks[n + 1 - i])
  BY <1>1, <1>2
<1>7. \A i \in 1..n : times[(n - i) + 1] \in {Timing("."), Timing("-")}
  BY <1>1, <1>4
<1>8. Timings(l) \in Seq({Timing("."), Timing("-")}) /\ Len(Timings(l)) = n
  BY <1>1, <1>5, <1>7
<1>9. \A i \in 1..n : Timings(l)[i] = Timing(marks[n + 1 - i])
  BY <1>5, <1>6
<1>10. Timings(l) # <<>> /\ DOMAIN Timings(l) = 1..n
  <2>1. Len(<<>>) = 0
    OBVIOUS
  <2> QED
    BY <1>1, <1>8, <2>1
<1> QED
  BY <1>8, <1>9, <1>10 DEF marks

\* The sum of two times, where the clock does not wrap and where it does.
LEMMA WrapAdd ==
  ASSUME NEW a \in Clock, NEW b \in Clock
  PROVE  /\ (a + b) % ClockRange \in Clock
         /\ (a + b) % ClockRange >= a => (a + b) % ClockRange = a + b
<1>1. ClockRange \in Nat /\ ClockRange > 0
  BY LedAssumption
<1>2. CASE a + b < ClockRange
  <2>1. (a + b) % ClockRange = a + b
    BY <1>1, <1>2 DEF Clock
  <2> QED
    BY <1>1, <1>2, <2>1 DEF Clock
<1>3. CASE ~(a + b < ClockRange)
  <2>1. (a + b) % ClockRange = a + b - ClockRange
    <3>1. a + b = 1 * ClockRange + (a + b - ClockRange) /\ a + b - ClockRange \in 0..(ClockRange - 1)
      BY <1>1, <1>3 DEF Clock
    <3> QED
      BY <1>1, <1>3, <3>1 DEF Clock
  <2> QED
    BY <1>1, <1>3, <2>1 DEF Clock
<1> QED
  BY <1>2, <1>3

\* Without a wrap between them, the time since an earlier time is their difference.
LEMMA SinceOrdered ==
  ASSUME NEW a \in Clock, NEW b \in Clock
  PROVE  /\ Since(a, b) \in Clock
         /\ a <= b => Since(a, b) = b - a
<1>1. ClockRange \in Nat /\ ClockRange > 0
  BY LedAssumption
<1>2. (b - a) % ClockRange \in 0..(ClockRange - 1)
  BY <1>1 DEF Clock
<1>3. ASSUME a <= b PROVE (b - a) % ClockRange = b - a
  <2>1. b - a \in 0..(ClockRange - 1)
    BY <1>1, <1>3 DEF Clock
  <2> QED
    BY <1>1, <2>1
<1> QED
  BY <1>2, <1>3 DEF Since, Clock

---------------------------------------------------------------------------

\* check_led_state gives an LED.
LEMMA CheckType ==
  ASSUME NEW l \in LED, NEW now \in Clock
  PROVE  LET new == check_led_state(l, now)
         IN  /\ new \in LED
             /\ ~Due(l, now) => new = l
             /\ Due(l, now) /\ ~l.led_state =>
                  /\ new.led_state
                  /\ new.next_pulse_ms = (now + Last(l.pulse_timings)) % ClockRange
                  /\ new.pulse_timings = l.pulse_timings
             /\ Due(l, now) /\ l.led_state =>
                  /\ ~new.led_state
                  /\ new.next_pulse_ms = (now + pulse_off_ms) % ClockRange
                  /\ new.pulse_timings = Front(l.pulse_timings)
<1> DEFINE new == check_led_state(l, now)
<1>1. /\ l.led_state \in BOOLEAN /\ l.next_pulse_ms \in Clock
      /\ l.pulse_timings \in Seq({Timing("."), Timing("-")})
  BY DEF LED
<1>2. CASE ~Due(l, now)
  BY <1>2 DEF check_led_state
<1>3. CASE Due(l, now) /\ ~l.led_state
  <2> DEFINE next == (now + Last(l.pulse_timings)) % ClockRange
  <2>1. next \in Clock
    <3>1. Last(l.pulse_timings) \in {Timing("."), Timing("-")}
      BY <1>1, <1>3 DEF Last, Due
    <3>2. Last(l.pulse_timings) \in Clock
      BY <3>1, TimingType, LedAssumption DEF Clock
    <3> QED
      BY <3>2, WrapAdd
  <2>2. new = [l EXCEPT !.led_state = TRUE, !.next_pulse_ms = next]
    BY <1>3 DEF check_led_state
  <2> HIDE DEF next, new
  <2>3. new \in LED /\ new.led_state /\ new.next_pulse_ms = next
        /\ new.pulse_timings = l.pulse_timings
    BY <2>1, <2>2 DEF LED
  <2> QED
    BY <1>3, <2>3 DEF next, new
<1>4. CASE Due(l, now) /\ l.led_state
  <2>1. new = [led_state     |-> FALSE,
               next_pulse_ms |-> (now + pulse_off_ms) % ClockRange,
               pulse_timings |-> Front(l.pulse_timings)]
    BY <1>4 DEF check_led_state
  <2>2. pulse_off_ms \in Clock
    BY LedAssumption DEF Clock
  <2>3. (now + pulse_off_ms) % ClockRange \in Clock
    BY <2>2, WrapAdd
  <2>4. Front(l.pulse_timings) \in Seq({Timing("."), Timing("-")})
    BY <1>1, FrontType
  <2>5. new \in LED
    BY <2>1, <2>3, <2>4 DEF LED
  <2> QED
    BY <1>4, <2>1, <2>5
<1> QED
  BY <1>1, <1>2, <1>3, <1>4

\* blink_morse gives an LED.
LEMMA BlinkType ==
  ASSUME NEW l \in Letter, NEW now \in Clock
  PROVE  /\ blink_morse(now, l) \in LED
         /\ ~blink_morse(now, l).led_state /\ blink_morse(now, l).next_pulse_ms = now
         /\ blink_morse(now, l).pulse_timings = Timings(l)
BY TimingsFacts DEF blink_morse, LED

\* The letters that the main loop blinks are letters.
LEMMA LettersUsed == {"S", "E", "M", "R", "T"} \subseteq Letter
BY DEF Letter, letters

\* At the start the S has yet to be shown.
LEMMA LightInit ==
  ASSUME Init
  PROVE  LightInv
<1>1. /\ scene \in Scenes /\ async_now_ms \in scene.starts /\ scene.starts \subseteq Clock
      /\ letter = "S" /\ lit = <<>> /\ changed = async_now_ms /\ wrapped = FALSE
      /\ led = blink_morse(async_now_ms, "S") /\ connected = FALSE /\ pc = "top"
      /\ last_led_update_ms = 0 /\ led_refresh_ms = IdleMs
  BY FrontPanelAssumption DEF Init
<1>2. async_now_ms \in Clock /\ 0 \in Clock
  BY <1>1, LedAssumption DEF Clock
<1>3. letter \in Letter /\ led \in LED /\ ~led.led_state /\ led.pulse_timings = Timings(letter)
  BY <1>1, <1>2, BlinkType, LettersUsed
<1>4. lit \in Seq(Clock) /\ Len(lit) = 0 /\ DOMAIN lit = {}
  BY <1>1
<1>5. LightTypes
  BY <1>1, <1>2, <1>3, <1>4 DEF LightTypes
<1>6. PulsesInv
  BY <1>3, <1>4, TimingsFacts, LetterFacts DEF PulsesInv
<1>7. TimesInv
  BY <1>1, <1>2, <1>3, <1>4 DEF TimesInv, Running, Clock
<1> QED
  BY <1>5, <1>6, <1>7 DEF LightInv

\* A new letter, whatever the LED did before.
LEMMA BlinkInv ==
  ASSUME LightInv, NEW l \in Letter, Blink(l),
         UNCHANGED <<scene, clock, connected>>, pc' \in {"top", "tnc", "ble", "usb", "overrun"}
  PROVE  LightInv'
<1>1. /\ led' = blink_morse(async_now_ms, l) /\ letter' = l
      /\ lit' = <<>> /\ changed' = async_now_ms /\ wrapped' = FALSE
      /\ async_now_ms' = async_now_ms /\ scene' = scene
  BY DEF Blink, clock
<1>2. async_now_ms \in Clock
  BY DEF LightInv, LightTypes
<1>3. /\ letter' \in Letter /\ led' \in LED /\ ~led'.led_state
      /\ led'.pulse_timings = Timings(letter')
  BY <1>1, <1>2, BlinkType
<1>4. lit' \in Seq(Clock) /\ Len(lit') = 0 /\ DOMAIN lit' = {}
  BY <1>1
<1>5. LightTypes'
  BY <1>1, <1>2, <1>3, <1>4 DEF LightInv, LightTypes, clock
<1>6. PulsesInv'
  BY <1>3, <1>4, TimingsFacts, LetterFacts DEF PulsesInv
<1>7. TimesInv'
  BY <1>1, <1>2, <1>3, <1>4 DEF TimesInv, Running, Clock
<1> QED
  BY <1>5, <1>6, <1>7 DEF LightInv

\* Pulse n + 1 is the mark of that number, and a pause follows it.
LEMMA MarkOfPulse ==
  ASSUME NEW l, NEW n \in Nat
  PROVE  /\ Mark(l, 2 * n + 1) = Timing(letters[l][n + 1])
         /\ Mark(l, 2 * n + 2) = pulse_off_ms
<1>1. (2 * n + 1) % 2 = 1 /\ ((2 * n + 1) + 1) \div 2 = n + 1 /\ (2 * n + 2) % 2 = 0
  OBVIOUS
<1> QED
  BY <1>1 DEF Mark

\* The next pulse is the last of pulse_timings.
LEMMA NextPulse ==
  ASSUME LightInv, led.pulse_timings # <<>>
  PROVE  LET done == Len(letters[letter]) - Len(led.pulse_timings)
         IN  done \in Nat /\ Last(led.pulse_timings) = Mark(letter, 2 * done + 1)
<1> DEFINE pt == led.pulse_timings
<1> DEFINE n == Len(letters[letter])
<1>1. pt \in Seq({Timing("."), Timing("-")}) /\ n \in Nat
  BY LetterFacts DEF LightInv, LightTypes, LED
<1>2. Len(pt) \in 1..n /\ pt[Len(pt)] = Timing(letters[letter][n + 1 - Len(pt)])
  <2>1. Len(pt) \in DOMAIN pt /\ Len(pt) \in Nat /\ Len(pt) >= 1
    BY <1>1
  <2>2. n - Len(pt) >= 0
    BY DEF LightInv, PulsesInv
  <2>3. pt[Len(pt)] = Timing(letters[letter][n + 1 - Len(pt)])
    BY <2>1 DEF LightInv, PulsesInv
  <2> QED
    BY <1>1, <2>1, <2>2, <2>3
<1>3. n - Len(pt) \in Nat /\ n + 1 - Len(pt) = (n - Len(pt)) + 1
  BY <1>1, <1>2
<1>4. Mark(letter, 2 * (n - Len(pt)) + 1) = Timing(letters[letter][(n - Len(pt)) + 1])
  BY <1>3, MarkOfPulse
<1> QED
  BY <1>2, <1>3, <1>4 DEF Last

\* The clock of a pass, and of the one after it.
LEMMA PassFacts ==
  ASSUME LightTypes, NEW d \in scene.passes
  PROVE  /\ async_now_ms \in Clock /\ d \in Clock
         /\ (async_now_ms + d) % ClockRange \in Clock
         /\ (async_now_ms + d) % ClockRange >= async_now_ms =>
              (async_now_ms + d) % ClockRange = async_now_ms + d
         /\ Longest(scene.passes) \in Clock /\ d <= Longest(scene.passes)
<1>1. scene.passes \subseteq Clock /\ scene.passes # {}
  BY FrontPanelAssumption DEF LightTypes
<1>2. async_now_ms \in Clock /\ d \in Clock
  BY <1>1 DEF LightTypes
<1>3. Longest(scene.passes) \in scene.passes /\ d <= Longest(scene.passes)
  BY <1>1, LongestPass
<1> QED
  BY <1>1, <1>2, <1>3, WrapAdd

\* A pulse, or a pause, that has reached its end lasted as it should, or longer by less
\* than one pass.
LEMMA Measured ==
  ASSUME LightTypes, TimesInv, ~wrapped, Running, NEW d \in scene.passes, NEW now \in Clock,
         now = async_now_ms + d, now >= led.next_pulse_ms
  PROVE  /\ Since(changed, now) \in Clock
         /\ Mark(letter, Len(lit) + 1) <= Since(changed, now)
         /\ Since(changed, now) < Mark(letter, Len(lit) + 1) + Longest(scene.passes)
<1> DEFINE mark == Mark(letter, Len(lit) + 1)
<1> DEFINE longest == Longest(scene.passes)
<1>1. /\ changed <= async_now_ms /\ async_now_ms < led.next_pulse_ms
      /\ led.next_pulse_ms = changed + mark
  BY DEF TimesInv
<1>2. mark \in Nat
  BY MarkType
<1>3. /\ changed \in Nat /\ async_now_ms \in Nat /\ d \in Nat /\ now \in Nat
      /\ longest \in Nat /\ d <= longest
  BY PassFacts, LedAssumption DEF LightTypes, Clock
<1> HIDE DEF mark, longest
<1>4. changed <= now
  BY <1>1, <1>3
<1>5. Since(changed, now) = now - changed /\ Since(changed, now) \in Clock
  <2>1. changed \in Clock
    BY DEF LightTypes
  <2> QED
    BY <1>4, <2>1, SinceOrdered
<1> QED
  BY <1>1, <1>2, <1>3, <1>5 DEF mark, longest

\* The refresh begins a letter, and lights it at once or not at all.
LEMMA RefreshInv ==
  ASSUME LightInv, NEW now \in Clock, Refresh(now), async_now_ms' = now,
         scene' = scene, connected' = connected, pc' = "tnc"
  PROVE  LightInv'
<1> DEFINE l == IF connected THEN "E" ELSE "M"
<1> DEFINE start == blink_morse(now, l)
<1>1. l \in Letter
  BY LettersUsed
<1> HIDE DEF l
<1>2. /\ start \in LED /\ ~start.led_state /\ start.next_pulse_ms = now
      /\ start.pulse_timings = Timings(l) /\ Timings(l) # <<>>
  BY <1>1, BlinkType, TimingsFacts
<1>3. Due(start, now)
  BY <1>2 DEF Due, Clock
<1>4. /\ letter' = l /\ lit' = <<>> /\ changed' = now /\ led' = check_led_state(start, now)
      /\ wrapped' = (led'.next_pulse_ms < now)
      /\ last_led_update_ms' = now /\ led_refresh_ms' \in {IdleMs, BusyMs}
  BY DEF Refresh, l
<1> HIDE DEF start
<1>5. /\ led' \in LED /\ led'.led_state
      /\ led'.next_pulse_ms = (now + Last(Timings(l))) % ClockRange
      /\ led'.pulse_timings = Timings(l)
  BY <1>2, <1>3, <1>4, CheckType
<1>6. lit' \in Seq(Clock) /\ Len(lit') = 0 /\ DOMAIN lit' = {}
  BY <1>4
<1>7. LightTypes'
  BY <1>1, <1>4, <1>5, <1>6 DEF LightInv, LightTypes
<1>8. PulsesInv'
  BY <1>1, <1>2, <1>4, <1>5, <1>6, TimingsFacts, LetterFacts DEF PulsesInv
<1>9. TimesInv'
  <2> SUFFICES ASSUME ~wrapped'
               PROVE  led'.next_pulse_ms = now + Mark(l, 1) /\ now < led'.next_pulse_ms
    <3>1. Len(lit') + 1 = 1 /\ now <= now
      BY <1>6 DEF Clock
    <3> QED
      BY <1>4, <1>6, <3>1 DEF TimesInv
  <2>1. Last(Timings(l)) = Timing(letters[l][1])
    <3>1. /\ Len(Timings(l)) \in DOMAIN Timings(l)
          /\ Len(Timings(l)) = Len(letters[l]) /\ Len(letters[l]) \in Nat
      BY <1>1, TimingsFacts, LetterFacts
    <3>2. Timings(l)[Len(Timings(l))] = Timing(letters[l][Len(letters[l]) + 1 - Len(Timings(l))])
      BY <1>1, <3>1, TimingsFacts
    <3>3. Len(letters[l]) + 1 - Len(Timings(l)) = 1
      BY <3>1
    <3> QED
      BY <3>2, <3>3 DEF Last
  <2>2. Mark(l, 1) = Timing(letters[l][1])
    <3>1. 2 * 0 + 1 = 1 /\ 0 + 1 = 1
      OBVIOUS
    <3> QED
      BY <3>1, MarkOfPulse
  <2>3. Mark(l, 1) \in Clock /\ 0 < Mark(l, 1)
    BY MarkType, LedAssumption DEF Clock
  <2>4. led'.next_pulse_ms >= now
    BY <1>4, <1>5 DEF Clock, LED
  <2>5. led'.next_pulse_ms = now + Mark(l, 1)
    BY <1>5, <2>1, <2>2, <2>3, <2>4, WrapAdd
  <2> QED
    BY <2>3, <2>5 DEF Clock
<1> QED
  BY <1>7, <1>8, <1>9 DEF LightInv

\* A pass at which the LED does not change.
LEMMA CheckNotDue ==
  ASSUME LightInv, NEW d \in scene.passes, NEW now,
         now = (async_now_ms + d) % ClockRange,
         Check(now), ~Due(led, now), async_now_ms' = now,
         scene' = scene, connected' = connected, pc' = "tnc"
  PROVE  LightInv'
<1>1. led \in LED /\ now \in Clock /\ LightTypes
  BY PassFacts DEF LightInv, LightTypes
<1>2. led' = led
  BY <1>1, CheckType DEF Check
<1>3. /\ UNCHANGED <<lit, changed, letter, last_led_update_ms, led_refresh_ms>>
      /\ wrapped' = (wrapped \/ now < async_now_ms)
  BY <1>2 DEF Check
<1>4. LightTypes'
  BY <1>1, <1>2, <1>3 DEF LightTypes
<1>5. PulsesInv'
  BY <1>2, <1>3 DEF LightInv, PulsesInv
<1>6. TimesInv'
  <2> SUFFICES ASSUME ~wrapped' PROVE TimesInv'
    BY DEF TimesInv
  <2>1. ~wrapped /\ ~(now < async_now_ms)
    BY <1>3
  <2>2. async_now_ms \in Nat /\ changed \in Nat /\ now \in Nat /\ led.next_pulse_ms \in Nat
    BY <1>1, LedAssumption DEF LightTypes, LED, Clock
  <2>3. changed' <= async_now_ms'
    BY <1>3, <2>1, <2>2 DEF LightInv, TimesInv
  <2>4. ASSUME Running'
        PROVE  /\ led'.next_pulse_ms = changed' + Mark(letter', Len(lit') + 1)
               /\ async_now_ms' < led'.next_pulse_ms
    <3>1. Running
      BY <1>2, <1>3, <2>4 DEF Running
    <3>2. led.pulse_timings # <<>>
      BY <3>1 DEF Running, LightInv, PulsesInv
    <3>3. now < led.next_pulse_ms
      BY <2>2, <3>2 DEF Due
    <3> QED
      BY <1>2, <1>3, <2>1, <3>1, <3>3 DEF LightInv, TimesInv
  <2> QED
    BY <1>3, <2>1, <2>3, <2>4 DEF LightInv, TimesInv
<1> QED
  BY <1>4, <1>5, <1>6 DEF LightInv

\* What the two changes of the LED have in common.
LEMMA CheckDue ==
  ASSUME LightInv, NEW d \in scene.passes, NEW now,
         now = (async_now_ms + d) % ClockRange,
         Check(now), Due(led, now)
  PROVE  /\ now \in Clock /\ led' \in LED /\ changed' = now
         /\ lit' = IF lit = <<>> /\ ~led.led_state THEN <<>> ELSE Append(lit, Since(changed, now))
         /\ UNCHANGED <<letter, last_led_update_ms, led_refresh_ms>>
         /\ wrapped' = (wrapped \/ now < async_now_ms \/ led'.next_pulse_ms < now)
         /\ ~led.led_state => /\ led'.led_state
                              /\ led'.pulse_timings = led.pulse_timings
                              /\ led'.next_pulse_ms = (now + Last(led.pulse_timings)) % ClockRange
         /\ led.led_state => /\ ~led'.led_state
                             /\ led'.pulse_timings = Front(led.pulse_timings)
                             /\ led'.next_pulse_ms = (now + pulse_off_ms) % ClockRange
<1>1. led \in LED /\ now \in Clock
  BY PassFacts DEF LightInv, LightTypes
<1>2. led' = check_led_state(led, now)
  BY DEF Check
<1>3. /\ led' \in LED
      /\ ~led.led_state => /\ led'.led_state
                           /\ led'.pulse_timings = led.pulse_timings
                           /\ led'.next_pulse_ms = (now + Last(led.pulse_timings)) % ClockRange
      /\ led.led_state => /\ ~led'.led_state
                          /\ led'.pulse_timings = Front(led.pulse_timings)
                          /\ led'.next_pulse_ms = (now + pulse_off_ms) % ClockRange
  BY <1>1, <1>2, CheckType
<1>4. led.led_state \in BOOLEAN /\ led'.led_state \in BOOLEAN
  BY <1>1, <1>3 DEF LED
<1>5. led'.led_state # led.led_state /\ led' # led
  BY <1>3, <1>4
<1>6. led'.led_state <=> ~led.led_state
  BY <1>3
<1>7. /\ changed' = now
      /\ lit' = IF lit = <<>> /\ ~led.led_state THEN <<>> ELSE Append(lit, Since(changed, now))
  BY <1>5, <1>6 DEF Check
<1>8. /\ UNCHANGED <<letter, last_led_update_ms, led_refresh_ms>>
      /\ wrapped' = (wrapped \/ now < async_now_ms \/ led'.next_pulse_ms < now)
  BY <1>5 DEF Check
<1> QED
  BY <1>1, <1>3, <1>7, <1>8

\* The LED goes on.
LEMMA CheckOn ==
  ASSUME LightInv, NEW d \in scene.passes, NEW now,
         now = (async_now_ms + d) % ClockRange,
         Check(now), Due(led, now), ~led.led_state, async_now_ms' = now,
         scene' = scene, connected' = connected, pc' = "tnc"
  PROVE  LightInv'
<1> DEFINE marks == letters[letter]
<1> DEFINE done == Len(marks) - Len(led.pulse_timings)
<1>1. LightTypes /\ PulsesInv /\ TimesInv /\ lit \in Seq(Clock) /\ letter \in Letter
  BY DEF LightInv, LightTypes
<1>2. /\ now \in Clock /\ led' \in LED /\ led'.led_state /\ changed' = now
      /\ lit' = IF lit = <<>> THEN <<>> ELSE Append(lit, Since(changed, now))
      /\ UNCHANGED <<letter, last_led_update_ms, led_refresh_ms>>
      /\ wrapped' = (wrapped \/ now < async_now_ms \/ led'.next_pulse_ms < now)
      /\ led'.pulse_timings = led.pulse_timings
      /\ led'.next_pulse_ms = (now + Last(led.pulse_timings)) % ClockRange
  BY CheckDue
<1>3. led.pulse_timings # <<>>
  BY DEF Due
<1>4. done \in Nat /\ Last(led.pulse_timings) = Mark(letter, 2 * done + 1)
  BY <1>3, NextPulse
<1>5. Len(lit) = (IF done = 0 THEN 0 ELSE 2 * done - 1) /\ (lit = <<>> <=> done = 0)
  <2>1. Len(lit) = IF done = 0 THEN 0 ELSE 2 * done - 1
    BY <1>1 DEF PulsesInv
  <2> HIDE DEF done
  <2> QED
    BY <1>1, <1>4, <2>1
<1>6. Since(changed, now) \in Clock
  BY <1>1, <1>2, SinceOrdered DEF LightTypes
<1>7. lit' \in Seq(Clock) /\ Len(lit') = 2 * done
  <2> HIDE DEF done
  <2>1. CASE lit = <<>>
    BY <1>1, <1>2, <1>5, <2>1
  <2>2. CASE lit # <<>>
    BY <1>1, <1>2, <1>4, <1>5, <1>6, <2>2
  <2> QED
    BY <2>1, <2>2
<1>8. LightTypes'
  <2>1. wrapped' \in BOOLEAN
    BY <1>2
  <2> QED
    BY <1>1, <1>2, <1>7, <2>1 DEF LightTypes
<1>9. PulsesInv'
  BY <1>1, <1>2, <1>3, <1>7 DEF PulsesInv
<1>10. TimesInv'
  <2> SUFFICES ASSUME ~wrapped' PROVE TimesInv'
    BY DEF TimesInv
  <2>1. ~wrapped /\ ~(now < async_now_ms) /\ ~(led'.next_pulse_ms < now)
    BY <1>2
  <2>2. /\ async_now_ms \in Nat /\ now \in Nat /\ led'.next_pulse_ms \in Nat
        /\ led.next_pulse_ms \in Nat
    BY <1>1, <1>2, LedAssumption DEF LightTypes, LED, Clock
  <2>3. led'.next_pulse_ms = now + Mark(letter, 2 * done + 1) /\ now < led'.next_pulse_ms
    <3> HIDE DEF done
    <3>1. Mark(letter, 2 * done + 1) \in Clock /\ 0 < Mark(letter, 2 * done + 1)
      BY MarkType, LedAssumption DEF Clock
    <3>2. led'.next_pulse_ms = now + Mark(letter, 2 * done + 1)
      <4>1. led'.next_pulse_ms = (now + Mark(letter, 2 * done + 1)) % ClockRange
        BY <1>2, <1>4
      <4>2. led'.next_pulse_ms >= now
        BY <2>1, <2>2
      <4> QED
        BY <1>2, <3>1, <4>1, <4>2, WrapAdd
    <3> QED
      BY <2>2, <3>1, <3>2 DEF Clock
  <2>4. ASSUME NEW k \in DOMAIN lit'
        PROVE  /\ Mark(letter, k) <= lit'[k]
               /\ lit'[k] < Mark(letter, k) + Longest(scene.passes)
    <3> HIDE DEF done
    <3>1. lit # <<>> /\ lit' = Append(lit, Since(changed, now))
      BY <1>2, <2>4
    <3>2. CASE k \in DOMAIN lit
      BY <1>1, <2>1, <3>1, <3>2 DEF TimesInv
    <3>3. CASE k = Len(lit) + 1
      <4>1. now = async_now_ms + d
        BY <1>1, <2>1, <2>2, PassFacts
      <4>2. Running /\ now >= led.next_pulse_ms
        BY <1>3, <3>1 DEF Running, Due
      <4>3. /\ Mark(letter, Len(lit) + 1) <= Since(changed, now)
            /\ Since(changed, now) < Mark(letter, Len(lit) + 1) + Longest(scene.passes)
        BY <1>1, <1>2, <2>1, <4>1, <4>2, Measured
      <4>4. lit'[k] = Since(changed, now)
        BY <1>1, <1>6, <3>1, <3>3
      <4> QED
        BY <3>3, <4>3, <4>4
    <3> QED
      BY <1>1, <1>6, <3>1, <3>2, <3>3
  <2>5. changed' <= async_now_ms'
    BY <1>2, <2>2
  <2> HIDE DEF done
  <2> QED
    BY <1>2, <1>7, <2>3, <2>4, <2>5 DEF TimesInv
<1> QED
  BY <1>8, <1>9, <1>10 DEF LightInv

\* The LED goes off, and the pulse is over.
LEMMA CheckOff ==
  ASSUME LightInv, NEW d \in scene.passes, NEW now,
         now = (async_now_ms + d) % ClockRange,
         Check(now), Due(led, now), led.led_state, async_now_ms' = now,
         scene' = scene, connected' = connected, pc' = "tnc"
  PROVE  LightInv'
<1> DEFINE marks == letters[letter]
<1> DEFINE done == Len(marks) - Len(led.pulse_timings)
<1>1. LightTypes /\ PulsesInv /\ TimesInv /\ lit \in Seq(Clock) /\ letter \in Letter /\ led \in LED
  BY DEF LightInv, LightTypes
<1>2. /\ now \in Clock /\ led' \in LED /\ ~led'.led_state /\ changed' = now
      /\ lit' = Append(lit, Since(changed, now))
      /\ UNCHANGED <<letter, last_led_update_ms, led_refresh_ms>>
      /\ wrapped' = (wrapped \/ now < async_now_ms \/ led'.next_pulse_ms < now)
      /\ led'.pulse_timings = Front(led.pulse_timings)
      /\ led'.next_pulse_ms = (now + pulse_off_ms) % ClockRange
  BY CheckDue
<1>3. led.pulse_timings # <<>> /\ led.pulse_timings \in Seq({Timing("."), Timing("-")})
  BY <1>1 DEF Due, LED
<1>4. done \in Nat
  BY <1>3, NextPulse
<1>5. Len(lit) = 2 * done
  BY <1>1 DEF PulsesInv
<1>6. Since(changed, now) \in Clock
  BY <1>1, <1>2, SinceOrdered DEF LightTypes
<1>7. lit' \in Seq(Clock) /\ Len(lit') = 2 * done + 1
  <2> HIDE DEF done
  <2> QED
    BY <1>1, <1>2, <1>5, <1>6
<1>8. LightTypes'
  <2>1. wrapped' \in BOOLEAN
    BY <1>2
  <2> QED
    BY <1>1, <1>2, <1>7, <2>1 DEF LightTypes
<1>9. PulsesInv'
  <2>1. /\ Len(led'.pulse_timings) = Len(led.pulse_timings) - 1
        /\ \A i \in DOMAIN led'.pulse_timings : i \in DOMAIN led.pulse_timings
                                              /\ led'.pulse_timings[i] = led.pulse_timings[i]
    BY <1>2, <1>3, FrontFacts
  <2>2. Len(marks) - Len(led'.pulse_timings) = done + 1
    <3>1. Len(marks) \in Nat /\ Len(led.pulse_timings) \in Nat
      BY <1>1, <1>3, LetterFacts
    <3> QED
      BY <2>1, <3>1
  <2>3. done + 1 >= 0 /\ Len(lit') = 2 * (done + 1) - 1 /\ done + 1 # 0
    <3> HIDE DEF done
    <3> QED
      BY <1>4, <1>7
  <2>4. \A i \in DOMAIN led'.pulse_timings :
          led'.pulse_timings[i] = Timing(marks[Len(marks) + 1 - i])
    BY <1>1, <2>1 DEF PulsesInv
  <2> HIDE DEF done
  <2> QED
    BY <1>2, <2>2, <2>3, <2>4 DEF PulsesInv
<1>10. TimesInv'
  <2> SUFFICES ASSUME ~wrapped' PROVE TimesInv'
    BY DEF TimesInv
  <2>1. ~wrapped /\ ~(now < async_now_ms) /\ ~(led'.next_pulse_ms < now)
    BY <1>2
  <2>2. /\ async_now_ms \in Nat /\ now \in Nat /\ led'.next_pulse_ms \in Nat
        /\ led.next_pulse_ms \in Nat
    BY <1>1, <1>2, LedAssumption DEF LightTypes, LED, Clock
  <2>3. led'.next_pulse_ms = now + Mark(letter, 2 * done + 2) /\ now < led'.next_pulse_ms
    <3> HIDE DEF done
    <3>1. pulse_off_ms \in Clock /\ 0 < pulse_off_ms
      BY LedAssumption DEF Clock
    <3>2. led'.next_pulse_ms = now + pulse_off_ms
      BY <1>2, <2>1, <2>2, <3>1, WrapAdd
    <3>3. Mark(letter, 2 * done + 2) = pulse_off_ms
      BY <1>4, MarkOfPulse
    <3> QED
      BY <2>2, <3>1, <3>2, <3>3 DEF Clock
  <2> HIDE DEF done
  <2>4. ASSUME NEW k \in DOMAIN lit'
        PROVE  /\ Mark(letter, k) <= lit'[k]
               /\ lit'[k] < Mark(letter, k) + Longest(scene.passes)
    <3>1. CASE k \in DOMAIN lit
      BY <1>1, <1>2, <2>1, <3>1 DEF TimesInv
    <3>2. CASE k = Len(lit) + 1
      <4>1. now = async_now_ms + d
        BY <1>1, <2>1, <2>2, PassFacts
      <4>2. Running /\ now >= led.next_pulse_ms
        BY DEF Running, Due
      <4>3. /\ Mark(letter, Len(lit) + 1) <= Since(changed, now)
            /\ Since(changed, now) < Mark(letter, Len(lit) + 1) + Longest(scene.passes)
        BY <1>1, <1>2, <2>1, <4>1, <4>2, Measured
      <4>4. lit'[k] = Since(changed, now)
        BY <1>1, <1>2, <1>6, <3>2
      <4> QED
        BY <3>2, <4>3, <4>4
    <3> QED
      BY <1>1, <1>2, <1>6, <3>1, <3>2
  <2>5. changed' <= async_now_ms'
    BY <1>2, <2>2
  <2>6. Len(lit') + 1 = 2 * done + 2
    BY <1>4, <1>7
  <2> QED
    BY <1>2, <2>3, <2>4, <2>5, <2>6 DEF TimesInv
<1> QED
  BY <1>8, <1>9, <1>10 DEF LightInv

---------------------------------------------------------------------------

\* A step that leaves the clock and the LED alone keeps LightInv.
LEMMA LightKept ==
  ASSUME LightInv, UNCHANGED <<scene, clock, light>>, connected' \in BOOLEAN,
         pc' \in {"top", "tnc", "ble", "usb", "overrun"}
  PROVE  LightInv'
<1>1. LightTypes'
  BY DEF LightInv, LightTypes, clock, light
<1>2. PulsesInv' /\ TimesInv'
  BY DEF LightInv, PulsesInv, TimesInv, Running, clock, light
<1> QED
  BY <1>1, <1>2 DEF LightInv

\* Every step keeps LightInv.
LEMMA LightStep ==
  ASSUME LightInv, [Next]_vars
  PROVE  LightInv'
<1>1. pc \in {"top", "tnc", "ble", "usb", "overrun"} /\ connected \in BOOLEAN
  BY DEF LightInv, LightTypes
<1>2. CASE Top
  <2>1. PICK d \in scene.passes :
          LET now == (async_now_ms + d) % ClockRange
          IN  async_now_ms' = now /\ (Refresh(now) \/ Check(now))
    BY <1>2 DEF Top
  <2> DEFINE now == (async_now_ms + d) % ClockRange
  <2>2. scene' = scene /\ connected' = connected /\ pc' = "tnc"
    BY <1>2 DEF Top
  <2>3. now \in Clock
    BY PassFacts DEF LightInv
  <2>4. async_now_ms' = now /\ (Refresh(now) \/ Check(now))
    BY <2>1
  <2>5. now = (async_now_ms + d) % ClockRange
    OBVIOUS
  <2> HIDE DEF now
  <2> QED
    BY <2>2, <2>3, <2>4, <2>5, RefreshInv, CheckNotDue, CheckOn, CheckOff
<1>3. CASE Tnc
  <2>1. CASE UNCHANGED light
    BY <1>1, <1>3, <2>1, LightKept DEF Tnc
  <2>2. CASE Blink("R")
    BY <1>3, <2>2, BlinkInv, LettersUsed DEF Tnc
  <2> QED
    BY <1>3, <2>1, <2>2 DEF Tnc
<1>4. CASE Ble
  <2>1. CASE UNCHANGED light
    BY <1>1, <1>4, <2>1, LightKept DEF Ble
  <2>2. CASE Blink("T")
    BY <1>4, <2>2, BlinkInv, LettersUsed DEF Ble
  <2> QED
    BY <1>4, <2>1, <2>2 DEF Ble
<1>5. CASE EndPass
  BY <1>1, <1>5, LightKept DEF EndPass
<1>6. CASE Spp
  BY <1>1, <1>6, LightKept DEF Spp
<1>7. CASE Connection
  BY <1>1, <1>7, LightKept DEF Connection
<1>8. CASE Typing
  <2>1. UNCHANGED <<scene, clock, light, connected>> /\ pc' \in {pc, "overrun"}
    BY <1>8 DEF Typing, Type, TypeBeyond
  <2> QED
    BY <1>1, <2>1, LightKept
<1>9. CASE UNCHANGED vars
  BY <1>1, <1>9, LightKept DEF vars
<1> QED
  BY <1>2, <1>3, <1>4, <1>5, <1>6, <1>7, <1>8, <1>9 DEF Next, Main

\* LightInv holds in every state.
LEMMA LightInvariance == Spec => []LightInv
<1>1. Init => LightInv
  BY LightInit
<1>2. LightInv /\ [Next]_vars => LightInv'
  BY LightStep
<1> QED
  BY <1>1, <1>2, PTL DEF Spec

\* The LED spells the letter: each pulse is as long as its mark, and each pause as long as
\* pulse_off_ms, or longer by less than the longest pass.
THEOREM Spelled == Spec => []PulsesSpellTheLetter
<1>1. LightInv => PulsesSpellTheLetter
  <2> SUFFICES ASSUME LightInv PROVE PulsesSpellTheLetter
    OBVIOUS
  <2> DEFINE marks == letters[letter]
  <2> DEFINE done == Len(marks) - Len(led.pulse_timings)
  <2>1. /\ Len(marks) \in Nat /\ Len(led.pulse_timings) \in Nat
        /\ done \in Nat
        /\ Len(lit) = IF led.led_state THEN 2 * done ELSE IF done = 0 THEN 0 ELSE 2 * done - 1
    <3>1. Len(marks) \in Nat /\ Len(led.pulse_timings) \in Nat
      BY LetterFacts DEF LightInv, LightTypes, LED
    <3> QED
      BY <3>1 DEF LightInv, PulsesInv
  <2>2. (Len(lit) + 1) \div 2 = done
    <3>1. (2 * done + 1) \div 2 = done /\ (2 * done) \div 2 = done /\ (0 + 1) \div 2 = 0
          /\ (2 * done - 1) + 1 = 2 * done
      <4> HIDE DEF done
      <4> QED
        BY <2>1
    <3> HIDE DEF done
    <3> QED
      BY <2>1, <3>1
  <2>3. (Len(lit) + 1) \div 2 + Len(led.pulse_timings) = Len(marks)
    <3>1. done + Len(led.pulse_timings) = Len(marks)
      <4> HIDE DEF marks
      <4> QED
        BY <2>1
    <3> HIDE DEF done, marks
    <3> QED
      BY <2>2, <3>1
  <2>4. ~wrapped => \A k \in DOMAIN lit :
          LET mark == IF k % 2 = 1 THEN Timing(marks[(k + 1) \div 2]) ELSE pulse_off_ms
          IN  lit[k] >= mark /\ lit[k] < mark + Longest(scene.passes)
    BY DEF LightInv, TimesInv, Mark
  <2> QED
    BY <2>3, <2>4 DEF PulsesSpellTheLetter, Longest
<1> QED
  BY <1>1, LightInvariance, PTL

---------------------------------------------------------------------------
(* The USB port.                                                           *)

\* What Stripped takes away are the spaces that come first.
LEMMA StrippedIs ==
  ASSUME NEW S, NEW s \in Seq(S)
  PROVE  /\ OnlySpaces(s) => Stripped(s) = <<>>
         /\ \A n \in 1..Len(s) :
              s[n] # SP /\ (\A i \in 1..(n - 1) : s[i] = SP) => Stripped(s) = SubSeq(s, n, Len(s))
<1> DEFINE I == {i \in 1..Len(s) : s[i] # SP}
<1> DEFINE first == IF I # {} THEN Min(I) ELSE 0
<1>1. Stripped(s) = IF first = 0 THEN <<>> ELSE SubSeq(s, first, Len(s))
  BY DEF Stripped, SelectInSeq
<1>2. OnlySpaces(s) => first = 0
  BY DEF OnlySpaces
<1>3. ASSUME NEW n \in 1..Len(s), s[n] # SP, \A i \in 1..(n - 1) : s[i] = SP
      PROVE  first = n
  <2>1. n \in I /\ I \subseteq Nat /\ \A m \in I : n <= m
    BY <1>3
  <2>2. Min(I) = n
    <3> HIDE DEF I
    <3> QED
      BY <2>1, MinIsLeast
  <2> HIDE DEF I
  <2> QED
    BY <2>1, <2>2
<1> HIDE DEF first
<1> QED
  BY <1>1, <1>2, <1>3

\* A line that is not of spaces alone has a first byte that is none.
LEMMA FirstByte ==
  ASSUME NEW S, NEW s \in Seq(S), ~OnlySpaces(s)
  PROVE  \E n \in 1..Len(s) : s[n] # SP /\ \A i \in 1..(n - 1) : s[i] = SP
<1> DEFINE I == {i \in 1..Len(s) : s[i] # SP}
<1>1. I \subseteq Nat /\ I # {}
  BY DEF OnlySpaces
<1>2. PICK n \in I : \A m \in I : n <= m
  <2> HIDE DEF I
  <2> QED
    BY <1>1, LeastNumber
<1> QED
  BY <1>2

\* What is left of a line is no longer than the line, and nothing when it has but spaces.
LEMMA StrippedType ==
  ASSUME NEW S, NEW s \in Seq(S)
  PROVE  /\ Stripped(s) \in Seq(S) /\ Len(Stripped(s)) <= Len(s)
         /\ Stripped(s) = <<>> <=> OnlySpaces(s)
<1>1. CASE OnlySpaces(s)
  <2>1. Stripped(s) = <<>>
    BY <1>1, StrippedIs
  <2>2. <<>> \in Seq(S) /\ Len(<<>>) = 0 /\ Len(s) \in Nat
    OBVIOUS
  <2> QED
    BY <1>1, <2>1, <2>2
<1>2. CASE ~OnlySpaces(s)
  <2>1. PICK n \in 1..Len(s) : s[n] # SP /\ \A i \in 1..(n - 1) : s[i] = SP
    BY <1>2, FirstByte
  <2>2. Stripped(s) = SubSeq(s, n, Len(s))
    BY <2>1, StrippedIs
  <2>3. SubSeq(s, n, Len(s)) \in Seq(S) /\ Len(SubSeq(s, n, Len(s))) = Len(s) - n + 1
    OBVIOUS
  <2>4. Len(Stripped(s)) >= 1 /\ Len(Stripped(s)) <= Len(s)
    BY <2>2, <2>3
  <2>5. Stripped(s) # <<>>
    <3>1. Len(<<>>) = 0
      OBVIOUS
    <3> QED
      BY <2>4, <3>1
  <2> QED
    BY <1>2, <2>2, <2>3, <2>4, <2>5
<1> QED
  BY <1>1, <1>2

\* The first byte that is not a space begins the text, and the next ones follow it.
LEMMA StrippedAppend ==
  ASSUME NEW S, NEW s \in Seq(S), NEW b \in S
  PROVE  Stripped(Append(s, b)) =
           IF Stripped(s) = <<>> /\ b = SP THEN <<>> ELSE Append(Stripped(s), b)
<1> DEFINE t == Append(s, b)
<1>1. /\ t \in Seq(S) /\ Len(t) = Len(s) + 1 /\ t[Len(s) + 1] = b
      /\ \A i \in 1..Len(s) : t[i] = s[i]
  OBVIOUS
<1>2. CASE OnlySpaces(s) /\ b = SP
  <2>1. OnlySpaces(t)
    BY <1>1, <1>2 DEF OnlySpaces
  <2> HIDE DEF t
  <2>2. Stripped(t) = <<>>
    BY <1>1, <2>1, StrippedIs
  <2> QED
    BY <1>2, <2>2, StrippedType DEF t
<1>3. CASE OnlySpaces(s) /\ b # SP
  <2>1. Stripped(t) = SubSeq(t, Len(s) + 1, Len(t))
    <3>1. /\ Len(s) + 1 \in 1..Len(t) /\ t[Len(s) + 1] # SP
          /\ \A i \in 1..((Len(s) + 1) - 1) : t[i] = SP
      BY <1>1, <1>3 DEF OnlySpaces
    <3> HIDE DEF t
    <3> QED
      BY <1>1, <3>1, StrippedIs
  <2>2. SubSeq(t, Len(s) + 1, Len(t)) = <<b>>
    <3>1. /\ SubSeq(t, Len(s) + 1, Len(t)) \in Seq(S)
          /\ Len(SubSeq(t, Len(s) + 1, Len(t))) = 1
          /\ SubSeq(t, Len(s) + 1, Len(t))[1] = b
      BY <1>1
    <3> DEFINE u == SubSeq(t, Len(s) + 1, Len(t))
    <3>2. u \in Seq(S) /\ Len(u) = 1 /\ u[1] = b
      BY <3>1
    <3> HIDE DEF u
    <3>3. u = <<b>>
      BY <3>2
    <3> QED
      BY <3>3 DEF u
  <2>3. Stripped(s) = <<>> /\ Append(<<>>, b) = <<b>>
    BY <1>3, StrippedType
  <2> HIDE DEF t
  <2> QED
    BY <1>3, <2>1, <2>2, <2>3 DEF t
<1>4. CASE ~OnlySpaces(s)
  <2>1. PICK n \in 1..Len(s) : s[n] # SP /\ \A i \in 1..(n - 1) : s[i] = SP
    BY <1>4, FirstByte
  <2>2. Stripped(s) = SubSeq(s, n, Len(s))
    BY <2>1, StrippedIs
  <2>3. Stripped(t) = SubSeq(t, n, Len(t))
    <3>1. n \in 1..Len(t) /\ t[n] # SP /\ \A i \in 1..(n - 1) : t[i] = SP
      BY <1>1, <2>1
    <3> HIDE DEF t
    <3> QED
      BY <1>1, <3>1, StrippedIs
  <2>4. SubSeq(t, n, Len(t)) = Append(SubSeq(s, n, Len(s)), b)
    BY <1>1
  <2> HIDE DEF t
  <2> QED
    BY <1>4, <2>2, <2>3, <2>4, StrippedType DEF t
<1> QED
  BY <1>2, <1>3, <1>4

\* Comparing byte by byte finds the names that the bytes are the beginning of.
LEMMA MatchesPrefix ==
  ASSUME NEW S, NEW s \in Seq(S), NEW name \in Seq(S)
  PROVE  Matches(s, name) <=> IsPrefix(s, name)
<1>1. SubSeq(s, 1, Len(s)) = s
  BY SubSeqFull
<1>2. CASE Len(s) <= Len(name)
  <2> DEFINE begin == SubSeq(name, 1, Len(s))
  <2>1. /\ begin \in Seq(S) /\ Len(begin) = Len(s)
        /\ \A i \in 1..Len(s) : begin[i] = name[i]
    BY <1>2
  <2>2. (\A i \in 1..Len(s) : s[i] = begin[i]) <=> s = begin
    <3> HIDE DEF begin
    <3>1. (\A i \in 1..Len(s) : s[i] = begin[i]) => s = begin
      BY <2>1, SeqEqual
    <3> QED
      BY <3>1
  <2>3. IsPrefix(s, name) <=> s = begin
    BY <1>1, <1>2 DEF IsPrefix
  <2>4. Matches(s, name) <=> \A i \in 1..Len(s) : s[i] = name[i]
    BY <1>2 DEF Matches
  <2> HIDE DEF begin
  <2> QED
    BY <2>1, <2>2, <2>3, <2>4
<1>3. CASE ~(Len(s) <= Len(name))
  BY <1>3 DEF IsPrefix, Matches
<1> QED
  BY <1>2, <1>3

\* shell_complete runs the command that the line names: the names begin with
\* different letters, so that no two of them match.
LEMMA CompleteIsMeant ==
  ASSUME NEW S, NEW s \in Seq(S), s # <<>>
  PROVE  shell_complete(s) = Meant(s)
<1> DEFINE matching == {i \in DOMAIN shell_commands : Matches(s, shell_commands[i].name)}
<1> DEFINE named == {i \in DOMAIN shell_commands : IsPrefix(s, shell_commands[i].name)}
<1> DEFINE Chars == {"A", "C", "E", "F", "G", "H", "I", "L", "N", "O", "P", "S", "V"}
<1>1. DOMAIN shell_commands = {1, 2, 3}
  BY DEF shell_commands
<1>2. /\ shell_commands[1].name = <<"H", "E", "L", "P">>
      /\ shell_commands[2].name = <<"C", "O", "N", "F", "I", "G">>
      /\ shell_commands[3].name = <<"S", "A", "V", "E">>
      /\ shell_commands[1].cmd = "HELP"
      /\ shell_commands[2].cmd = "CONFIG"
      /\ shell_commands[3].cmd = "SAVE"
  BY DEF shell_commands
<1>3. s \in Seq(S \cup Chars) /\ \A i \in {1, 2, 3} : shell_commands[i].name \in Seq(S \cup Chars)
  <2>1. s \in Seq(S \cup Chars)
    BY SeqMonotonic
  <2>2. /\ <<"H", "E", "L", "P">> \in Seq(Chars)
        /\ <<"C", "O", "N", "F", "I", "G">> \in Seq(Chars)
        /\ <<"S", "A", "V", "E">> \in Seq(Chars)
    <3>1. {"H", "E", "L", "P", "C", "O", "N", "F", "I", "G", "S", "A", "V"} \subseteq Chars
      OBVIOUS
    <3> HIDE DEF Chars
    <3>2. <<"H", "E", "L", "P">> \in Seq(Chars)
      BY <3>1
    <3>3. <<"C", "O", "N", "F", "I", "G">> \in Seq(Chars)
      BY <3>1
    <3>4. <<"S", "A", "V", "E">> \in Seq(Chars)
      BY <3>1
    <3> QED
      BY <3>2, <3>3, <3>4
  <2>3. \A i \in {1, 2, 3} : shell_commands[i].name \in Seq(Chars)
    BY <1>2, <2>2
  <2> QED
    BY <2>1, <2>3, SeqMonotonic
<1>4. matching = named
  BY <1>1, <1>3, MatchesPrefix
<1>5. \A i \in matching : s[1] = shell_commands[i].name[1]
  <2>1. 1 \in DOMAIN s
    BY s # <<>>
  <2> QED
    BY <2>1 DEF Matches
<1>6. \A i, j \in matching : i = j
  <2>1. matching \subseteq {1, 2, 3}
    BY <1>1
  <2>2. /\ shell_commands[1].name[1] = "H" /\ shell_commands[2].name[1] = "C"
        /\ shell_commands[3].name[1] = "S"
    BY <1>2
  <2> HIDE DEF matching
  <2> QED
    BY <1>5, <2>1, <2>2
<1>7. CASE matching # {}
  <2>1. PICK i \in matching : TRUE
    BY <1>7
  <2>2. Max(matching) = i
    <3>1. i \in {1, 2, 3}
      BY <1>1
    <3> HIDE DEF matching
    <3>2. \A j \in matching : i >= j
      BY <1>6, <2>1, <3>1
    <3>3. Max(matching) \in matching
      BY <2>1, <3>2 DEF Max
    <3> QED
      BY <1>6, <2>1, <3>3
  <2>3. (CHOOSE j \in named : TRUE) = i
    <3> HIDE DEF matching, named
    <3> QED
      BY <1>4, <1>6, <2>1
  <2>4. shell_complete(s) = shell_commands[Max(matching)].cmd
    BY <1>7 DEF shell_complete
  <2>5. Meant(s) = shell_commands[CHOOSE j \in named : TRUE].cmd
    <3>1. named # {}
      BY <1>4, <1>7
    <3> QED
      BY <3>1 DEF Meant
  <2> QED
    BY <2>2, <2>3, <2>4, <2>5
<1>8. CASE matching = {}
  <2>1. shell_complete(s) = Short(s)
    BY <1>8 DEF shell_complete
  <2>2. Meant(s) = IF Len(s) = 1 THEN "HELP" ELSE "UNKNOWN"
    <3>1. named = {}
      BY <1>4, <1>8
    <3> QED
      BY <3>1 DEF Meant
  <2>3. s # <<"C">> /\ s # <<"S">>
    <3>1. Matches(<<"C">>, <<"C", "O", "N", "F", "I", "G">>) /\ Matches(<<"S">>, <<"S", "A", "V", "E">>)
      BY DEF Matches
    <3>2. 2 \notin matching /\ 3 \notin matching
      BY <1>8
    <3> QED
      BY <1>1, <1>2, <3>1, <3>2
  <2>4. Len(s) = 1 => s[1] \notin {"C", "S"}
    <3> SUFFICES ASSUME Len(s) = 1, s[1] \in {"C", "S"} PROVE FALSE
      OBVIOUS
    <3>1. s = <<s[1]>>
      OBVIOUS
    <3> QED
      BY <2>3, <3>1
  <2>5. Short(s) = IF Len(s) = 1 THEN "HELP" ELSE "UNKNOWN"
    BY <2>3, <2>4 DEF Short
  <2> QED
    BY <2>1, <2>2, <2>5
<1> QED
  BY <1>7, <1>8

\* Text takes a last carriage return as well.
LEMMA TextIsStripped ==
  ASSUME NEW s
  PROVE  Text(s) = IF Stripped(s) # <<>> /\ Last(Stripped(s)) = CR
                   THEN Front(Stripped(s)) ELSE Stripped(s)
BY DEF Text, Stripped

\* At the start nothing is typed.
LEMMA UsbInit ==
  ASSUME Init
  PROVE  UsbInv
<1>1. Stripped(<<>>) = <<>>
  <2>1. <<>> \in Seq({}) /\ OnlySpaces(<<>>)
    BY DEF OnlySpaces
  <2> QED
    BY <2>1, StrippedIs
<1>2. /\ scene \in Scenes /\ typed = <<>> /\ afterBlank = FALSE /\ cmd_buffer = <<>>
      /\ ran = Nothing
  BY DEF Init, shell_init
<1>3. typed \in Seq(Key) /\ Fits(cmd_buffer)
  <2>1. <<>> \in Seq(Key) /\ Len(<<>>) = 0
    OBVIOUS
  <2> QED
    BY <1>2, <2>1, CmdBufferAssumption DEF Fits
<1>4. pc # "overrun"
  BY DEF Init
<1> QED
  BY <1>1, <1>2, <1>3, <1>4 DEF UsbInv, CommandIsTyped

\* A step that leaves the USB port alone keeps UsbInv.
LEMMA UsbKept ==
  ASSUME UsbInv, UNCHANGED <<scene, usb>>, pc' = pc \/ pc' # "overrun"
  PROVE  UsbInv'
BY DEF UsbInv, usb, CommandIsTyped

\* A byte is typed where cmd_buffer has room for it.
LEMMA TypeFits ==
  ASSUME NEW byte, Type(byte)
  PROVE  Fits(cmd_buffer')
<1>1. CASE shell_feed(cmd_buffer, byte).found_cmd
  <2>1. cmd_buffer' = <<>> /\ Len(<<>>) = 0
    BY <1>1 DEF Type, shell_init
  <2> QED
    BY <2>1, CmdBufferAssumption DEF Fits
<1>2. CASE ~shell_feed(cmd_buffer, byte).found_cmd
  BY <1>2 DEF Type
<1> QED
  BY <1>1, <1>2

\* cmd_buffer after a byte that does not end the line.
LEMMA TypeByte ==
  ASSUME UsbInv, NEW byte \in Key, Type(byte), pc # "overrun"
  PROVE  UsbInv'
<1>1. /\ typed' = Append(typed, byte) /\ byte # LF
      /\ scene' = scene /\ afterBlank' = afterBlank /\ ran' = Nothing /\ pc' = pc
  BY DEF Type, Key
<1>2. typed \in Seq(Key) /\ Len(typed) \in Nat
  BY DEF UsbInv
<1>3. typed' \in Seq(Key)
  BY <1>1, <1>2
<1>4. cmd_buffer' = IF cmd_buffer = <<>> /\ byte = SP THEN <<>> ELSE Append(cmd_buffer, byte)
  <2>1. shell_feed(cmd_buffer, byte) =
          IF cmd_buffer = <<>> /\ byte = SP THEN Fed(cmd_buffer, FALSE)
          ELSE Fed(Append(cmd_buffer, byte), FALSE)
    BY <1>1 DEF shell_feed
  <2> QED
    BY <2>1 DEF Type, Fed
<1>5. cmd_buffer' = IF afterBlank THEN <<LF>> \o typed' ELSE Stripped(typed')
  <2>1. CASE afterBlank
    <3>1. cmd_buffer = <<LF>> \o typed
      BY <2>1 DEF UsbInv
    <3>2. cmd_buffer # <<>>
      BY <1>2, <3>1
    <3>3. Append(<<LF>> \o typed, byte) = <<LF>> \o Append(typed, byte)
      BY <1>2
    <3> QED
      BY <1>1, <1>4, <2>1, <3>1, <3>2, <3>3
  <2>2. CASE ~afterBlank
    <3>1. cmd_buffer = Stripped(typed)
      BY <2>2 DEF UsbInv
    <3> QED
      BY <1>1, <1>2, <1>4, <2>2, <3>1, StrippedAppend
  <2> QED
    BY <2>1, <2>2
<1> QED
  BY <1>1, <1>3, <1>5, TypeFits DEF UsbInv, CommandIsTyped

\* A line feed runs what is in cmd_buffer, or is the first byte there.
LEMMA TypeLineFeed ==
  ASSUME UsbInv, Type(LF), pc # "overrun"
  PROVE  UsbInv'
<1>1. /\ typed' = <<>> /\ scene' = scene /\ pc' = pc
      /\ afterBlank' = (OnlySpaces(typed) /\ ~afterBlank)
  BY DEF Type
<1>2. typed \in Seq(Key) /\ afterBlank \in BOOLEAN
  BY DEF UsbInv
<1>3. typed' \in Seq(Key) /\ Fits(cmd_buffer')
  BY <1>1, TypeFits
<1>4. Stripped(<<>>) = <<>>
  <2>1. <<>> \in Seq({}) /\ OnlySpaces(<<>>)
    BY DEF OnlySpaces
  <2> QED
    BY <2>1, StrippedIs
<1>5. Stripped(typed) = <<>> <=> OnlySpaces(typed)
  BY <1>2, StrippedType
<1>6. cmd_buffer = <<>> <=> OnlySpaces(typed) /\ ~afterBlank
  <2>1. CASE afterBlank
    <3>1. cmd_buffer = <<LF>> \o typed
      BY <2>1 DEF UsbInv
    <3> QED
      BY <1>2, <2>1, <3>1
  <2>2. CASE ~afterBlank
    BY <1>5, <2>2 DEF UsbInv
  <2> QED
    BY <2>1, <2>2
<1>7. LF # SP
  BY DEF LF, SP
<1>8. CASE cmd_buffer = <<>>
  <2>1. shell_feed(cmd_buffer, LF) = Fed(<<LF>>, FALSE)
    <3>1. Append(<<>>, LF) = <<LF>>
      OBVIOUS
    <3> QED
      BY <1>7, <1>8, <3>1 DEF shell_feed
  <2>2. cmd_buffer' = <<LF>> /\ afterBlank'
    <3>1. cmd_buffer' = <<LF>>
      BY <2>1 DEF Type, Fed
    <3>2. afterBlank'
      BY <1>1, <1>6, <1>8, Zenon
    <3> QED
      BY <3>1, <3>2
  <2>3. cmd_buffer' = <<LF>> \o typed'
    BY <1>1, <2>2
  <2>4. CommandIsTyped'
    <3>1. ran' # Nothing => ran'.line = typed /\ ran'.afterBlank = afterBlank
      BY DEF Type
    <3>2. Text(typed) = <<>> \/ afterBlank
      BY <1>5, <1>6, <1>8, TextIsStripped
    <3> QED
      BY <1>1, <3>1, <3>2 DEF CommandIsTyped
  <2> QED
    <3>1. afterBlank' \in BOOLEAN
      BY <1>1
    <3> QED
      BY <1>1, <1>3, <2>2, <2>3, <2>4, <3>1 DEF UsbInv
<1>9. CASE cmd_buffer # <<>>
  <2> DEFINE line == IF Last(cmd_buffer) = CR THEN Front(cmd_buffer) ELSE cmd_buffer
  <2>1. shell_feed(cmd_buffer, LF) = Fed(line, TRUE)
    BY <1>7, <1>9 DEF shell_feed
  <2>2. /\ cmd_buffer' = <<>> /\ afterBlank' = FALSE
        /\ ran' = [line |-> typed, afterBlank |-> afterBlank, cmd |-> shell_complete(line)]
    <3> HIDE DEF line
    <3>1. ~afterBlank'
      BY <1>1, <1>6, <1>9, Zenon
    <3>2. afterBlank' = FALSE
      BY <1>1, <3>1
    <3>3. cmd_buffer' = <<>>
      BY <2>1 DEF Type, Fed, shell_init
    <3>4. ran' = [line |-> typed, afterBlank |-> afterBlank, cmd |-> shell_complete(line)]
      BY <2>1 DEF Type, Fed
    <3> QED
      BY <3>2, <3>3, <3>4
  <2>3. CommandIsTyped'
    <3> SUFFICES ASSUME Text(typed) # <<>>, ~afterBlank PROVE shell_complete(line) = Meant(Text(typed))
      BY <1>1, <2>2 DEF CommandIsTyped
    <3>1. cmd_buffer = Stripped(typed)
      BY DEF UsbInv
    <3>2. line = Text(typed)
      BY <1>9, <3>1, TextIsStripped
    <3>3. line \in Seq(Key)
      <4>1. cmd_buffer \in Seq(Key)
        BY <1>2, <3>1, StrippedType
      <4>2. Front(cmd_buffer) \in Seq(Key)
        BY <4>1, FrontType
      <4> QED
        BY <4>1, <4>2
    <3> HIDE DEF line
    <3> QED
      BY <3>2, <3>3, CompleteIsMeant
  <2> QED
    BY <1>1, <1>2, <1>3, <1>4, <2>2, <2>3 DEF UsbInv
<1> QED
  BY <1>8, <1>9

\* A byte for which cmd_buffer has no room belongs to a line that is too long.
LEMMA TypeTooMany ==
  ASSUME UsbInv, NEW byte \in Key, TypeBeyond(byte), pc # "overrun"
  PROVE  UsbInv'
<1>1. pc' = "overrun" /\ UNCHANGED <<scene, usb>> /\ byte # LF
  BY DEF TypeBeyond, Key
<1>2. typed \in Seq(Key) /\ Len(typed) \in Nat /\ afterBlank \in BOOLEAN
  BY DEF UsbInv
<1>3. cmd_buffer \in Seq(Key \cup {LF})
      /\ Len(cmd_buffer) <= Len(typed) + (IF afterBlank THEN 1 ELSE 0)
  <2>1. CASE afterBlank
    <3>1. cmd_buffer = <<LF>> \o typed
      BY <2>1 DEF UsbInv
    <3>2. typed \in Seq(Key \cup {LF}) /\ <<LF>> \in Seq(Key \cup {LF}) /\ Len(<<LF>>) = 1
      <4>1. Key \subseteq Key \cup {LF}
        OBVIOUS
      <4>2. <<LF>> \in Seq(Key \cup {LF}) /\ Len(<<LF>>) = 1
        OBVIOUS
      <4> QED
        BY <1>2, <4>1, <4>2, SeqMonotonic
    <3>3. <<LF>> \o typed \in Seq(Key \cup {LF}) /\ Len(<<LF>> \o typed) = 1 + Len(typed)
      BY <3>2, ConcatProperties
    <3> QED
      BY <1>2, <2>1, <3>1, <3>3
  <2>2. CASE ~afterBlank
    <3>1. cmd_buffer = Stripped(typed)
      BY <2>2 DEF UsbInv
    <3>2. Stripped(typed) \in Seq(Key) /\ Len(Stripped(typed)) <= Len(typed)
      BY <1>2, StrippedType
    <3>3. Key \subseteq Key \cup {LF}
      OBVIOUS
    <3>4. Stripped(typed) \in Seq(Key \cup {LF})
      BY <3>2, <3>3, SeqMonotonic
    <3> QED
      BY <1>2, <2>2, <3>1, <3>2, <3>4
  <2> QED
    BY <2>1, <2>2
<1>4. Len(cmd_buffer) + 1 > CMD_BUFFER_SIZE
  <2>1. Len(cmd_buffer) \in Nat /\ Len(cmd_buffer) <= CMD_BUFFER_SIZE
    BY <1>3, LenProperties DEF UsbInv, Fits
  <2>2. shell_feed(cmd_buffer, byte) =
          IF cmd_buffer = <<>> /\ byte = SP THEN Fed(cmd_buffer, FALSE)
          ELSE Fed(Append(cmd_buffer, byte), FALSE)
    BY <1>1 DEF shell_feed
  <2>3. shell_feed(cmd_buffer, byte).cmd_buffer \in {cmd_buffer, Append(cmd_buffer, byte)}
    BY <2>2 DEF Fed
  <2>4. Len(Append(cmd_buffer, byte)) = Len(cmd_buffer) + 1
    BY <1>3
  <2>5. ~(Len(shell_feed(cmd_buffer, byte).cmd_buffer) <= CMD_BUFFER_SIZE)
    BY DEF TypeBeyond, Fits
  <2> QED
    BY <2>1, <2>3, <2>4, <2>5, CmdBufferAssumption
<1>5. Len(typed) + 1 > CMD_BUFFER_SIZE - (IF afterBlank THEN 1 ELSE 0)
  <2>1. Len(cmd_buffer) \in Nat
    BY <1>3, LenProperties
  <2> QED
    BY <1>2, <1>3, <1>4, <2>1, CmdBufferAssumption
<1> QED
  BY <1>1, <1>5 DEF UsbInv, CommandIsTyped, usb

\* What can be typed next ends no line.
LEMMA NextByteIsKey ==
  ASSUME scene \in Scenes, typed \in Seq(Key), NEW byte \in NextBytes
  PROVE  byte \in Key
<1>1. PICK line \in scene.typed : Len(typed) < Len(line) /\ byte = line[Len(typed) + 1]
  BY DEF NextBytes
<1>2. line \in Seq(Key)
  <2>1. scene.typed \subseteq Seq(Key)
    BY FrontPanelAssumption, Zenon
  <2> QED
    BY <2>1
<1>3. Len(typed) \in Nat
  OBVIOUS
<1> QED
  BY <1>1, <1>2, <1>3, ElementOfSeq

\* Every step keeps UsbInv.
LEMMA UsbStep ==
  ASSUME UsbInv, [Next]_vars
  PROVE  UsbInv'
<1>1. CASE Main \/ Spp \/ Connection \/ UNCHANGED vars
  <2>1. UNCHANGED <<scene, usb>> /\ (pc' = pc \/ pc' # "overrun")
    BY <1>1 DEF Main, Top, Tnc, Ble, EndPass, Spp, Connection, vars
  <2> QED
    BY <2>1, UsbKept
<1>2. CASE Typing
  <2>1. pc # "overrun"
    BY <1>2 DEF Typing
  <2>2. \A byte \in NextBytes : byte \in Key
    BY NextByteIsKey DEF UsbInv
  <2> QED
    BY <1>2, <2>1, <2>2, TypeByte, TypeLineFeed, TypeTooMany DEF Typing
<1> QED
  BY <1>1, <1>2 DEF Next

\* UsbInv holds in every state.
LEMMA UsbInvariance == Spec => []UsbInv
<1>1. Init => UsbInv
  BY UsbInit
<1>2. UsbInv /\ [Next]_vars => UsbInv'
  BY UsbStep
<1> QED
  BY <1>1, <1>2, PTL DEF Spec

---------------------------------------------------------------------------
(* The display: addresses, and decoding them.                              *)

\* The character that an address has at i, and the bytes that are an address.
CallChar(call, i) == IF i <= Len(call.callsign) THEN call.callsign[i] ELSE 32

Encodes(bytes, call, last) ==
  /\ bytes \in Seq(Nat) /\ Len(bytes) = CallLen + 1
  /\ \A i \in 1..CallLen : bytes[i] = 2 * CallChar(call, i)
  /\ (bytes[CallLen + 1] \div 2) % 16 = call.ssid
  /\ bytes[CallLen + 1] % 2 = IF last THEN 1 ELSE 0

\* The characters of a call sign are no spaces, and spaces fill it up.
LEMMA StationFacts ==
  ASSUME NEW call \in Station
  PROVE  /\ call.callsign \in Seq(1..127 \ {32}) /\ Len(call.callsign) \in Nat
         /\ Len(call.callsign) <= CallLen /\ call.ssid \in 0..15
         /\ \A i \in 1..CallLen :
              /\ CallChar(call, i) \in 1..127
              /\ i <= Len(call.callsign) => /\ CallChar(call, i) = call.callsign[i]
                                            /\ CallChar(call, i) # 32
              /\ i > Len(call.callsign) => CallChar(call, i) = 32
<1>1. /\ call.callsign \in Seq(1..127 \ {32}) /\ Len(call.callsign) <= CallLen
      /\ call.ssid \in 0..15
  BY DEF Station
<1> DEFINE text == call.callsign
<1>2. Len(text) \in Nat /\ \A i \in 1..Len(text) : text[i] \in 1..127 \ {32}
  BY <1>1, ElementOfSeq, LenProperties
<1>3. ASSUME NEW i \in 1..CallLen
      PROVE  /\ CallChar(call, i) \in 1..127
             /\ i <= Len(text) => CallChar(call, i) = text[i] /\ CallChar(call, i) # 32
             /\ i > Len(text) => CallChar(call, i) = 32
  <2>1. CallChar(call, i) = IF i <= Len(text) THEN text[i] ELSE 32
    BY DEF CallChar
  <2> HIDE DEF text
  <2>2. CASE i <= Len(text)
    <3>1. text[i] \in 1..127 \ {32}
      BY <1>2, <2>2
    <3> QED
      BY <1>2, <2>1, <2>2, <3>1
  <2>3. CASE ~(i <= Len(text))
    BY <1>2, <2>1, <2>3
  <2> QED
    BY <2>2, <2>3
<1> QED
  BY <1>1, <1>2, <1>3

\* The characters with one byte more, as an address has it.
CallChars(call) ==
  [i \in 1..CallLen |-> 2 * (IF i <= Len(call.callsign) THEN call.callsign[i] ELSE 32)]

\* The characters and the byte after them, one by one.
LEMMA Padded ==
  ASSUME NEW call \in Station, NEW byte \in Nat
  PROVE  LET bytes == CallChars(call) \o <<byte>>
         IN  /\ bytes \in Seq(Nat) /\ Len(bytes) = CallLen + 1
             /\ \A i \in 1..CallLen : bytes[i] = 2 * CallChar(call, i)
             /\ bytes[CallLen + 1] = byte
<1> DEFINE chars == CallChars(call)
<1>1. \A i \in 1..CallLen : chars[i] = 2 * CallChar(call, i) /\ 2 * CallChar(call, i) \in Nat
  <2> TAKE i \in 1..CallLen
  <2>1. chars[i] = 2 * CallChar(call, i)
    BY DEF CallChar, CallChars
  <2>2. CallChar(call, i) \in 1..127
    BY StationFacts
  <2> HIDE DEF chars
  <2> QED
    BY <2>1, <2>2
<1>2. chars \in Seq(Nat) /\ Len(chars) = CallLen
  <2>1. chars = [i \in 1..CallLen |-> 2 * CallChar(call, i)]
    BY DEF CallChar, CallChars
  <2> HIDE DEF chars
  <2> QED
    BY <1>1, <2>1, CallLenAssumption
<1> HIDE DEF chars
<1>3. <<byte>> \in Seq(Nat) /\ Len(<<byte>>) = 1 /\ <<byte>>[1] = byte
  OBVIOUS
<1>4. /\ chars \o <<byte>> \in Seq(Nat) /\ Len(chars \o <<byte>>) = CallLen + 1
      /\ \A i \in 1..CallLen : (chars \o <<byte>>)[i] = chars[i]
      /\ (chars \o <<byte>>)[CallLen + 1] = byte
  BY <1>2, <1>3, CallLenAssumption
<1> QED
  BY <1>1, <1>4 DEF chars

\* What another station puts in an address is the call, with the reserved bits set.
LEMMA AddressEncodes ==
  ASSUME NEW call \in Station, NEW last \in BOOLEAN
  PROVE  Encodes(Address(call, last), call, last)
<1> DEFINE byte == 96 + 2 * call.ssid + (IF last THEN 1 ELSE 0)
<1>1. byte \in Nat /\ (byte \div 2) % 16 = call.ssid /\ byte % 2 = IF last THEN 1 ELSE 0
  <2>1. call.ssid \in 0..15
    BY StationFacts
  <2> DEFINE ssid == call.ssid
  <2> HIDE DEF ssid
  <2>2. CASE last
    BY <2>1, <2>2 DEF ssid
  <2>3. CASE ~last
    BY <2>1, <2>3 DEF ssid
  <2> QED
    BY <2>2, <2>3
<1>2. Address(call, last) = CallChars(call) \o <<byte>>
  BY DEF Address, CallChars
<1> HIDE DEF byte
<1> DEFINE bytes == Address(call, last)
<1>3. /\ bytes \in Seq(Nat) /\ Len(bytes) = CallLen + 1
      /\ \A i \in 1..CallLen : bytes[i] = 2 * CallChar(call, i)
      /\ bytes[CallLen + 1] = byte
  <2> DEFINE padded == CallChars(call) \o <<byte>>
  <2>1. byte \in Nat
    BY <1>1
  <2>2. /\ padded \in Seq(Nat) /\ Len(padded) = CallLen + 1
        /\ \A i \in 1..CallLen : padded[i] = 2 * CallChar(call, i)
        /\ padded[CallLen + 1] = byte
    BY <2>1, Padded
  <2>3. bytes = padded
    BY <1>2
  <2> HIDE DEF padded, bytes
  <2> QED
    BY <2>2, <2>3
<1> HIDE DEF bytes
<1>4. Encodes(bytes, call, last)
  BY <1>1, <1>3 DEF Encodes
<1> QED
  BY <1>4 DEF bytes

\* As the firmware writes it: the destination has the C flag, the source ends the addresses.
LEMMA OurCallEncodes ==
  ASSUME NEW call \in Station, NEW dest \in BOOLEAN
  PROVE  Encodes(ax25_encode_call(OurCall(call, dest)), call, ~dest)
<1> DEFINE our == OurCall(call, dest)
<1> DEFINE byte == 2 * (call.ssid % 16) + (IF ~dest THEN 1 ELSE 0) + (IF dest THEN 128 ELSE 0)
<1>1. /\ byte \in Nat /\ (byte \div 2) % 16 = call.ssid
      /\ byte % 2 = IF ~dest THEN 1 ELSE 0
  <2>1. call.ssid \in 0..15
    BY StationFacts
  <2>2. CASE dest
    BY <2>1, <2>2
  <2>3. CASE ~dest
    BY <2>1, <2>3
  <2> QED
    BY <2>2, <2>3
<1>2. /\ our.callsign = call.callsign /\ our.ssid = call.ssid /\ our.rr = 0
      /\ our.c_flag = dest /\ our.last = ~dest
  BY DEF OurCall
<1> HIDE DEF our
<1>3. 2 * (our.ssid % 16) + (IF our.last THEN 1 ELSE 0)
        + (IF our.c_flag THEN 32 * our.rr + 128 ELSE 0) = byte
  <2>1. our.c_flag <=> dest
    BY <1>2
  <2>2. our.last <=> ~dest
    BY <1>2
  <2>3. (IF our.c_flag THEN 32 * our.rr + 128 ELSE 0) = (IF dest THEN 128 ELSE 0)
    BY <1>2, <2>1
  <2>4. (IF our.last THEN 1 ELSE 0) = (IF ~dest THEN 1 ELSE 0)
    BY <2>2
  <2> QED
    BY <1>2, <2>3, <2>4
<1>4. ax25_encode_call(our) = [i \in 1..CallLen |->
         2 * (IF i <= Len(our.callsign) THEN our.callsign[i] ELSE 32)]
           \o <<2 * (our.ssid % 16) + (IF our.last THEN 1 ELSE 0)
                  + (IF our.c_flag THEN 32 * our.rr + 128 ELSE 0)>>
  BY DEF ax25_encode_call
<1> HIDE DEF byte
<1>5. ax25_encode_call(our) = CallChars(call) \o <<byte>>
  BY <1>2, <1>3, <1>4 DEF CallChars
<1> DEFINE bytes == ax25_encode_call(our)
<1>6. /\ bytes \in Seq(Nat) /\ Len(bytes) = CallLen + 1
      /\ \A i \in 1..CallLen : bytes[i] = 2 * CallChar(call, i)
      /\ bytes[CallLen + 1] = byte
  <2> DEFINE padded == CallChars(call) \o <<byte>>
  <2>1. byte \in Nat
    BY <1>1
  <2>2. /\ padded \in Seq(Nat) /\ Len(padded) = CallLen + 1
        /\ \A i \in 1..CallLen : padded[i] = 2 * CallChar(call, i)
        /\ padded[CallLen + 1] = byte
    BY <2>1, Padded
  <2>3. bytes = padded
    BY <1>5
  <2> HIDE DEF padded, bytes
  <2> QED
    BY <2>2, <2>3
<1> HIDE DEF bytes
<1>7. Encodes(bytes, call, ~dest)
  BY <1>1, <1>6 DEF Encodes
<1> QED
  BY <1>7 DEF bytes, our

---------------------------------------------------------------------------

\* Text ends before its first null character.
LEMMA CStringIs ==
  ASSUME NEW chars \in Seq(Nat), NEW m \in 0..Len(chars),
         \A i \in 1..m : chars[i] # 0,
         \A i \in 1..Len(chars) : i > m => chars[i] = 0
  PROVE  CString(chars) = SubSeq(chars, 1, m)
<1> DEFINE I == {i \in 1..Len(chars) : chars[i] = 0}
<1> DEFINE end == IF I # {} THEN Min(I) ELSE 0
<1>1. CString(chars) = IF end = 0 THEN chars ELSE SubSeq(chars, 1, end - 1)
  BY DEF CString, SelectInSeq
<1>2. CASE m = Len(chars)
  <2>1. I = {}
    BY <1>2
  <2>2. end = 0
    BY <2>1
  <2> HIDE DEF end
  <2> QED
    BY <1>1, <1>2, <2>2, SubSeqFull
<1>3. CASE m < Len(chars)
  <2>1. I \subseteq Nat /\ m + 1 \in I /\ \A i \in I : m + 1 <= i
    BY <1>3
  <2>2. end = m + 1
    <3> HIDE DEF I
    <3> QED
      BY <2>1, MinIsLeast
  <2> HIDE DEF end
  <2> QED
    BY <1>1, <2>2
<1> QED
  BY <1>2, <1>3

\* Decoding an address gives the station back, whatever its reserved bits.
LEMMA DecodeCall ==
  ASSUME NEW call \in Station, NEW buffer, NEW pos \in Nat,
         \A i \in 1..CallLen : buffer[pos + i] = 2 * CallChar(call, i),
         (buffer[pos + CallLen + 1] \div 2) % 16 = call.ssid
  PROVE  /\ ax25_decode_call(buffer, pos).callsign = call.callsign
         /\ ax25_decode_call(buffer, pos).ssid = call.ssid
<1> DEFINE chars == [i \in 1..CallLen |-> IF buffer[pos + i] \div 2 = 32 THEN 0 ELSE buffer[pos + i] \div 2]
<1> DEFINE m == Len(call.callsign)
<1>1. \A i \in 1..CallLen : buffer[pos + i] \div 2 = CallChar(call, i)
  <2> TAKE i \in 1..CallLen
  <2>1. CallChar(call, i) \in 1..127
    BY StationFacts
  <2> QED
    BY <2>1
<1>2. \A i \in 1..CallLen : chars[i] = IF i <= m THEN call.callsign[i] ELSE 0
  <2> TAKE i \in 1..CallLen
  <2>1. chars[i] = IF CallChar(call, i) = 32 THEN 0 ELSE CallChar(call, i)
    BY <1>1
  <2>2. /\ i <= m => CallChar(call, i) = call.callsign[i] /\ CallChar(call, i) # 32
        /\ i > m => CallChar(call, i) = 32
    BY StationFacts
  <2>3. m \in Nat /\ CallLen \in Nat
    BY StationFacts, CallLenAssumption
  <2> HIDE DEF m, chars
  <2> QED
    BY <2>1, <2>2, <2>3
<1>3. chars \in Seq(Nat) /\ Len(chars) = CallLen
  <2>1. chars = [i \in 1..CallLen |-> IF CallChar(call, i) = 32 THEN 0 ELSE CallChar(call, i)]
    BY <1>1
  <2>2. \A i \in 1..CallLen : (IF CallChar(call, i) = 32 THEN 0 ELSE CallChar(call, i)) \in Nat
    <3> TAKE i \in 1..CallLen
    <3>1. CallChar(call, i) \in 1..127
      BY StationFacts
    <3> QED
      BY <3>1
  <2> HIDE DEF chars
  <2> QED
    BY <2>1, <2>2, CallLenAssumption
<1>4. ax25_decode_call(buffer, pos).callsign = CString(chars)
  BY DEF ax25_decode_call
<1> HIDE DEF chars
<1>5. CString(chars) = SubSeq(chars, 1, m)
  <2>1. m \in 0..Len(chars)
    BY <1>3, StationFacts
  <2>2. \A i \in 1..m : chars[i] # 0
    <3> TAKE i \in 1..m
    <3>1. i \in 1..CallLen /\ i <= m
      BY StationFacts, CallLenAssumption
    <3>2. CallChar(call, i) \in 1..127 /\ CallChar(call, i) = call.callsign[i]
      BY <3>1, StationFacts
    <3> HIDE DEF m
    <3>3. chars[i] = call.callsign[i]
      BY <1>2, <3>1
    <3>4. CallChar(call, i) # 0
      BY <3>2
    <3> QED
      BY <3>2, <3>3, <3>4
  <2>3. \A i \in 1..Len(chars) : i > m => chars[i] = 0
    BY <1>2, <1>3, StationFacts
  <2> HIDE DEF m
  <2> QED
    BY <1>3, <2>1, <2>2, <2>3, CStringIs
<1>6. SubSeq(chars, 1, m) = call.callsign
  <2>1. m \in Nat /\ m <= CallLen /\ call.callsign \in Seq(Nat)
    <3>1. 1..127 \ {32} \subseteq Nat
      OBVIOUS
    <3>2. call.callsign \in Seq(1..127 \ {32}) /\ m \in Nat /\ m <= CallLen
      BY StationFacts
    <3> QED
      BY <3>1, <3>2, SeqMonotonic
  <2>2. /\ SubSeq(chars, 1, m) \in Seq(Nat) /\ Len(SubSeq(chars, 1, m)) = m
        /\ \A i \in 1..m : SubSeq(chars, 1, m)[i] = call.callsign[i]
    <3>1. \A i \in 1..m : chars[i] \in Nat /\ chars[i] = call.callsign[i]
      <4> TAKE i \in 1..m
      <4> HIDE DEF m
      <4>1. i \in 1..CallLen /\ i <= m /\ i \in 1..Len(chars)
        BY <1>3, <2>1, CallLenAssumption
      <4> QED
        BY <1>2, <1>3, <4>1
    <3> HIDE DEF m
    <3>2. SubSeq(chars, 1, m) \in Seq(Nat) /\ Len(SubSeq(chars, 1, m)) = m
      BY <1>3, <2>1
    <3>3. \A i \in 1..m : SubSeq(chars, 1, m)[i] = chars[i]
      BY <1>3, <2>1
    <3> QED
      BY <3>1, <3>2, <3>3
  <2> QED
    BY <2>1, <2>2, SeqEqual
<1>7. ax25_decode_call(buffer, pos).ssid = call.ssid
  BY DEF ax25_decode_call, Bits
<1> QED
  BY <1>4, <1>5, <1>6, <1>7

---------------------------------------------------------------------------
(* The display: the bytes of a frame.                                      *)

\* FlattenSeq without its recursion, as far as a frame needs it.
LEMMA FlattenOne ==
  ASSUME NEW a
  PROVE  FlattenSeq(<<a>>) = a
<1> DEFINE F(g) == [i \in 1..1 |-> IF i = 1 THEN <<a>>[i] ELSE g[i - 1] \o <<a>>[i]]
<1> DEFINE flatten == CHOOSE g : g = F(g)
<1>1. \E g : g = F(g)
  <2> DEFINE h == [i \in 1..1 |-> a]
  <2>1. h = F(h)
    OBVIOUS
  <2> QED
    BY <2>1
<1>2. flatten = F(flatten)
  <2> HIDE DEF F
  <2> QED
    BY <1>1
<1>3. flatten[1] = a
  BY <1>2
<1>4. FlattenSeq(<<a>>) = flatten[1]
  BY DEF FlattenSeq
<1> QED
  BY <1>3, <1>4

\* Of two sequences FlattenSeq is the concatenation, ...
LEMMA FlattenTwo ==
  ASSUME NEW a, NEW b
  PROVE  FlattenSeq(<<a, b>>) = a \o b
<1> DEFINE s == <<a, b>>
<1> DEFINE F(g) == [i \in 1..2 |-> IF i = 1 THEN s[i] ELSE g[i - 1] \o s[i]]
<1> DEFINE flatten == CHOOSE g : g = F(g)
<1>1. \E g : g = F(g)
  <2> DEFINE h == [i \in 1..2 |-> IF i = 1 THEN a ELSE a \o b]
  <2>1. \A i \in 1..2 : h[i] = IF i = 1 THEN s[i] ELSE h[i - 1] \o s[i]
    OBVIOUS
  <2>2. h = F(h)
    BY <2>1
  <2> QED
    BY <2>2
<1>2. flatten = F(flatten)
  <2> HIDE DEF F
  <2> QED
    BY <1>1
<1>3. flatten[2] = a \o b
  <2> HIDE DEF flatten
  <2>1. \A i \in 1..2 : flatten[i] = IF i = 1 THEN s[i] ELSE flatten[i - 1] \o s[i]
    BY <1>2
  <2>2. s[1] = a /\ s[2] = b
    OBVIOUS
  <2> HIDE DEF s, F
  <2>3. flatten[1] = s[1]
    BY <2>1
  <2>4. 2 \in 1..2 /\ 2 # 1 /\ 2 - 1 = 1
    OBVIOUS
  <2>5. flatten[2] = flatten[1] \o s[2]
    BY <2>1, <2>4
  <2> QED
    BY <2>2, <2>3, <2>5
<1>4. FlattenSeq(s) = flatten[2]
  BY DEF FlattenSeq
<1> QED
  BY <1>3, <1>4

\* ... and of three.
LEMMA FlattenThree ==
  ASSUME NEW a, NEW b, NEW c
  PROVE  FlattenSeq(<<a, b, c>>) = a \o b \o c
<1> DEFINE s == <<a, b, c>>
<1> DEFINE F(g) == [i \in 1..3 |-> IF i = 1 THEN s[i] ELSE g[i - 1] \o s[i]]
<1> DEFINE flatten == CHOOSE g : g = F(g)
<1>1. \E g : g = F(g)
  <2> DEFINE h == [i \in 1..3 |-> IF i = 1 THEN a ELSE IF i = 2 THEN a \o b ELSE (a \o b) \o c]
  <2>1. \A i \in 1..3 : h[i] = IF i = 1 THEN s[i] ELSE h[i - 1] \o s[i]
    OBVIOUS
  <2>2. h = F(h)
    BY <2>1
  <2> QED
    BY <2>2
<1>2. flatten = F(flatten)
  <2> HIDE DEF F
  <2> QED
    BY <1>1
<1>3. flatten[3] = a \o b \o c
  <2> HIDE DEF flatten
  <2>1. \A i \in 1..3 : flatten[i] = IF i = 1 THEN s[i] ELSE flatten[i - 1] \o s[i]
    BY <1>2
  <2>2. s[1] = a /\ s[2] = b /\ s[3] = c
    OBVIOUS
  <2> HIDE DEF s, F
  <2>3. flatten[1] = s[1]
    BY <2>1
  <2>4. 2 \in 1..3 /\ 2 # 1 /\ 2 - 1 = 1
    OBVIOUS
  <2>5. flatten[2] = flatten[1] \o s[2]
    BY <2>1, <2>4
  <2>6. 3 \in 1..3 /\ 3 # 1 /\ 3 - 1 = 2
    OBVIOUS
  <2>7. flatten[3] = flatten[2] \o s[3]
    BY <2>1, <2>6
  <2> QED
    BY <2>2, <2>3, <2>5, <2>7
<1>4. FlattenSeq(s) = flatten[3]
  BY DEF FlattenSeq
<1> QED
  BY <1>3, <1>4

Holds(buffer, pos, bytes) == \A i \in 1..Len(bytes) : buffer[pos + i] = bytes[i]

\* A concatenation holds both parts, and what they hold.
LEMMA ConcatHolds ==
  ASSUME NEW x \in Seq(Nat), NEW y \in Seq(Nat)
  PROVE  /\ x \o y \in Seq(Nat) /\ Len(x \o y) = Len(x) + Len(y)
         /\ Holds(x \o y, Len(x), y) /\ Holds(x \o y, 0, x)
         /\ \A pos \in Nat, z \in Seq(Nat) :
              /\ pos + Len(z) <= Len(x) /\ Holds(x, pos, z) => Holds(x \o y, pos, z)
              /\ pos + Len(z) <= Len(y) /\ Holds(y, pos, z) => Holds(x \o y, Len(x) + pos, z)
<1>1. /\ x \o y \in Seq(Nat) /\ Len(x \o y) = Len(x) + Len(y)
      /\ \A i \in 1..Len(x) : (x \o y)[i] = x[i]
      /\ \A i \in 1..Len(y) : (x \o y)[Len(x) + i] = y[i]
  OBVIOUS
<1>2. Len(x) \in Nat /\ Len(y) \in Nat
  OBVIOUS
<1> DEFINE b == x \o y
<1> HIDE DEF b
<1>3. Holds(b, Len(x), y) /\ Holds(b, 0, x)
  BY <1>1, <1>2 DEF Holds, b
<1>4. ASSUME NEW pos \in Nat, NEW z \in Seq(Nat), pos + Len(z) <= Len(x), Holds(x, pos, z)
      PROVE  Holds(b, pos, z)
  <2> SUFFICES ASSUME NEW i \in 1..Len(z) PROVE b[pos + i] = z[i]
    BY DEF Holds
  <2>1. pos + i \in 1..Len(x)
    BY <1>2, <1>4
  <2>2. x[pos + i] = z[i]
    BY <1>4 DEF Holds
  <2> QED
    BY <1>1, <2>1, <2>2 DEF b
<1>5. ASSUME NEW pos \in Nat, NEW z \in Seq(Nat), pos + Len(z) <= Len(y), Holds(y, pos, z)
      PROVE  Holds(b, Len(x) + pos, z)
  <2> SUFFICES ASSUME NEW i \in 1..Len(z) PROVE b[Len(x) + pos + i] = z[i]
    BY DEF Holds
  <2>1. pos + i \in 1..Len(y) /\ Len(x) + pos + i = Len(x) + (pos + i)
    BY <1>2, <1>5
  <2>2. y[pos + i] = z[i]
    BY <1>5 DEF Holds
  <2> QED
    BY <1>1, <2>1, <2>2 DEF b
<1> QED
  BY <1>1, <1>3, <1>4, <1>5 DEF b

---------------------------------------------------------------------------

\* The frame as it is in the buffer.
Framed(f, buffer) ==
  LET hops == Len(f.path)
  IN  /\ buffer \in Seq(Nat)
      /\ \A i \in 1..CallLen : /\ buffer[AddressPos(0) + i] = 2 * CallChar(f.dest, i)
                                /\ buffer[AddressPos(1) + i] = 2 * CallChar(f.source, i)
      /\ (buffer[AddressPos(0) + CallLen + 1] \div 2) % 16 = f.dest.ssid
      /\ (buffer[AddressPos(1) + CallLen + 1] \div 2) % 16 = f.source.ssid
      /\ \A j \in 1..(hops + 1) :
           buffer[AddressPos(j) + CallLen + 1] % 2 = IF j = hops + 1 THEN 1 ELSE 0
      /\ buffer[AddressPos(hops + 2) + 1] = f.control
      /\ buffer[AddressPos(hops + 2) + 2] = f.pid
      /\ buffer[AddressPos(hops + 2) + 3] = f.type
      /\ Len(buffer) = AddressPos(hops + 2) + 3

\* The addresses of the digipeaters as they are in the buffer.
PathIn(f, bytes) ==
  /\ bytes \in Seq(Nat) /\ Len(bytes) = Len(f.path) * (CallLen + 1)
  /\ \A j \in 1..Len(f.path) :
       bytes[(j - 1) * (CallLen + 1) + CallLen + 1] % 2 = IF j = Len(f.path) THEN 1 ELSE 0

\* The digipeaters of a frame, three at most, are in its bytes one after the other.
LEMMA PathBytes ==
  ASSUME NEW f, Sendable(f)
  PROVE  PathIn(f, FlattenSeq([i \in DOMAIN f.path |-> Address(f.path[i], i = Len(f.path))]))
<1> DEFINE n == Len(f.path)
<1> DEFINE A == CallLen + 1
<1> DEFINE At(i) == Address(f.path[i], i = n)
<1> DEFINE addresses == [i \in DOMAIN f.path |-> At(i)]
<1>1. f.path \in Seq(Station) /\ n \in 0..3 /\ DOMAIN f.path = 1..n /\ A \in Nat /\ CallLen \in Nat
  <2>1. f.path \in Seq(Station) /\ n <= 3 /\ CallLen \in Nat
    BY CallLenAssumption DEF Sendable
  <2>2. n \in Nat /\ DOMAIN f.path = 1..n
    BY <2>1, LenProperties
  <2> HIDE DEF n
  <2> QED
    BY <2>1, <2>2
<1>2. ASSUME NEW i \in 1..n
      PROVE  /\ At(i) \in Seq(Nat) /\ Len(At(i)) = A
             /\ At(i)[CallLen + 1] % 2 = IF i = n THEN 1 ELSE 0
  <2>1. f.path[i] \in Station /\ (i = n) \in BOOLEAN
    BY <1>1
  <2>2. Encodes(At(i), f.path[i], i = n)
    BY <2>1, AddressEncodes
  <2> HIDE DEF At
  <2> QED
    BY <2>2 DEF Encodes
<1>3. addresses = [i \in 1..n |-> At(i)]
  BY <1>1
<1> HIDE DEF At, A
<1>4. CASE n = 0
  <2>1. addresses = <<>>
    BY <1>3, <1>4
  <2>2. FlattenSeq(addresses) = <<>>
    <3>1. Len(<<>>) = 0
      OBVIOUS
    <3> QED
      BY <2>1, <3>1 DEF FlattenSeq
  <2>3. PathIn(f, <<>>)
    BY <1>1, <1>4 DEF PathIn
  <2> QED
    BY <2>2, <2>3 DEF At
<1>5. CASE n = 1
  <2>1. addresses = <<At(1)>>
    BY <1>3, <1>5
  <2>2. FlattenSeq(addresses) = At(1)
    <3> HIDE DEF addresses
    <3> QED
      BY <2>1, FlattenOne
  <2>3. PathIn(f, At(1))
    <3>1. 1 * (CallLen + 1) = A /\ (1 - 1) * (CallLen + 1) + CallLen + 1 = CallLen + 1
      BY <1>1 DEF A
    <3> QED
      BY <1>2, <1>5, <3>1 DEF PathIn
  <2> QED
    BY <2>2, <2>3 DEF At
<1>6. CASE n = 2
  <2>1. addresses = <<At(1), At(2)>>
    BY <1>3, <1>6
  <2> DEFINE both == At(1) \o At(2)
  <2>2. FlattenSeq(addresses) = both
    <3> HIDE DEF addresses
    <3> QED
      BY <2>1, FlattenTwo
  <2>3. At(1) \in Seq(Nat) /\ At(2) \in Seq(Nat) /\ Len(At(1)) = A /\ Len(At(2)) = A
    BY <1>2, <1>6
  <2>4. both \in Seq(Nat) /\ Len(both) = A + A /\ Holds(both, 0, At(1)) /\ Holds(both, A, At(2))
    BY <2>3, ConcatHolds
  <2> HIDE DEF both, addresses
  <2>5. both[CallLen + 1] % 2 = 0 /\ both[A + (CallLen + 1)] % 2 = 1
    <3>1. CallLen + 1 \in 1..A
      BY <1>1, CallLenAssumption DEF A
    <3>2. both[0 + (CallLen + 1)] = At(1)[CallLen + 1] /\ both[A + (CallLen + 1)] = At(2)[CallLen + 1]
      BY <2>3, <2>4, <3>1 DEF Holds
    <3> QED
      BY <1>1, <1>2, <1>6, <3>2
  <2>6. PathIn(f, both)
    <3>1. /\ 2 * (CallLen + 1) = A + A /\ (1 - 1) * (CallLen + 1) + CallLen + 1 = CallLen + 1
          /\ (2 - 1) * (CallLen + 1) + CallLen + 1 = A + (CallLen + 1)
      BY <1>1 DEF A
    <3> QED
      BY <1>6, <2>4, <2>5, <3>1 DEF PathIn
  <2> QED
    BY <2>2, <2>6 DEF At, addresses
<1>7. CASE n = 3
  <2>1. addresses = <<At(1), At(2), At(3)>>
    BY <1>3, <1>7
  <2> DEFINE both == At(1) \o At(2)
  <2> DEFINE all == both \o At(3)
  <2>2. FlattenSeq(addresses) = all
    <3>1. FlattenSeq(<<At(1), At(2), At(3)>>) = At(1) \o At(2) \o At(3)
      BY FlattenThree
    <3> HIDE DEF addresses
    <3> QED
      BY <2>1, <3>1
  <2>3. /\ At(1) \in Seq(Nat) /\ At(2) \in Seq(Nat) /\ At(3) \in Seq(Nat)
        /\ Len(At(1)) = A /\ Len(At(2)) = A /\ Len(At(3)) = A
    BY <1>2, <1>7
  <2>4. both \in Seq(Nat) /\ Len(both) = A + A /\ Holds(both, 0, At(1)) /\ Holds(both, A, At(2))
    BY <2>3, ConcatHolds
  <2> HIDE DEF both, addresses
  <2>5. /\ all \in Seq(Nat) /\ Len(all) = A + A + A
        /\ Holds(all, 0, At(1)) /\ Holds(all, A, At(2)) /\ Holds(all, A + A, At(3))
    <3>1. all \in Seq(Nat) /\ Len(all) = A + A + A /\ Holds(all, A + A, At(3))
      BY <2>3, <2>4, ConcatHolds
    <3>2. 0 + Len(At(1)) <= Len(both) /\ A + Len(At(2)) <= Len(both)
      BY <1>1, <2>3, <2>4
    <3>3. Holds(all, 0, At(1)) /\ Holds(all, A, At(2))
      BY <1>1, <2>3, <2>4, <3>2, ConcatHolds
    <3> QED
      BY <3>1, <3>3
  <2> HIDE DEF all
  <2>6. /\ all[CallLen + 1] % 2 = 0 /\ all[A + (CallLen + 1)] % 2 = 0
        /\ all[A + A + (CallLen + 1)] % 2 = 1
    <3>1. CallLen + 1 \in 1..A
      BY <1>1, CallLenAssumption DEF A
    <3>2. /\ all[0 + (CallLen + 1)] = At(1)[CallLen + 1]
          /\ all[A + (CallLen + 1)] = At(2)[CallLen + 1]
          /\ all[A + A + (CallLen + 1)] = At(3)[CallLen + 1]
      BY <2>3, <2>5, <3>1 DEF Holds
    <3> QED
      BY <1>1, <1>2, <1>7, <3>2
  <2>7. PathIn(f, all)
    <3>1. /\ 3 * (CallLen + 1) = A + A + A /\ (1 - 1) * (CallLen + 1) + CallLen + 1 = CallLen + 1
          /\ (2 - 1) * (CallLen + 1) + CallLen + 1 = A + (CallLen + 1)
          /\ (3 - 1) * (CallLen + 1) + CallLen + 1 = A + A + (CallLen + 1)
      BY <1>1 DEF A
    <3> QED
      BY <1>7, <2>5, <2>6, <3>1 DEF PathIn
  <2> QED
    BY <2>2, <2>7 DEF At, addresses
<1> QED
  BY <1>1, <1>4, <1>5, <1>6, <1>7

\* The positions of a frame's addresses, of which there are five at most.
LEMMA Positions ==
  /\ AddressPos(0) = 0 /\ AddressPos(1) = CallLen + 1
  /\ \A j \in 2..5 : AddressPos(j) = (CallLen + 1) + (CallLen + 1) + (j - 2) * (CallLen + 1)
  /\ \A j \in 0..5 : AddressPos(j) \in Nat
<1>1. CallLen \in Nat
  BY CallLenAssumption
<1>2. /\ AddressPos(0) = 0 /\ AddressPos(1) = CallLen + 1
      /\ AddressPos(2) = (CallLen + 1) + (CallLen + 1) + (2 - 2) * (CallLen + 1)
      /\ AddressPos(3) = (CallLen + 1) + (CallLen + 1) + (3 - 2) * (CallLen + 1)
      /\ AddressPos(4) = (CallLen + 1) + (CallLen + 1) + (4 - 2) * (CallLen + 1)
      /\ AddressPos(5) = (CallLen + 1) + (CallLen + 1) + (5 - 2) * (CallLen + 1)
  BY <1>1 DEF AddressPos
<1>3. \A j \in 2..5 : j = 2 \/ j = 3 \/ j = 4 \/ j = 5
  OBVIOUS
<1>4. \A j \in 0..5 : AddressPos(j) \in Nat
  BY <1>1 DEF AddressPos
<1> QED
  BY <1>2, <1>3, <1>4

\* An address ends before the next one, ...
LEMMA NextPosition ==
  ASSUME NEW k \in 1..5, NEW j \in 0..(k - 1)
  PROVE  AddressPos(j) + (CallLen + 1) <= AddressPos(k)
<1> DEFINE A == CallLen + 1
<1>1. A \in Nat
  BY CallLenAssumption
<1> HIDE DEF A
<1>2. /\ 0 * A = 0 /\ 1 * A = A /\ 2 * A = A + A /\ 3 * A = A + A + A
      /\ 4 * A = A + A + A + A /\ 5 * A = A + A + A + A + A
  BY <1>1
<1>3. k = 1 \/ k = 2 \/ k = 3 \/ k = 4 \/ k = 5
  OBVIOUS
<1>4. (j = 0 \/ j = 1 \/ j = 2 \/ j = 3 \/ j = 4) /\ j < k
  <2>1. k \in Int /\ k <= 5 /\ j \in Int /\ 0 <= j /\ j <= k - 1
    OBVIOUS
  <2> QED
    BY <2>1
<1>5. j * A + A <= k * A
  BY <1>1, <1>2, <1>3, <1>4
<1> QED
  BY <1>5 DEF AddressPos, A

\* ... and its last byte is one of the path.
LEMMA WithinPath ==
  ASSUME NEW n \in 0..3, NEW k \in 1..n
  PROVE  (k - 1) * (CallLen + 1) + CallLen + 1 \in 1..(n * (CallLen + 1))
<1>1. CallLen \in Nat
  BY CallLenAssumption
<1> DEFINE A == CallLen + 1
<1>2. n = 1 \/ n = 2 \/ n = 3
  OBVIOUS
<1>3. k = 1 \/ (k = 2 /\ n >= 2) \/ (k = 3 /\ n = 3)
  BY <1>2
<1>4. n * A = A \/ (n >= 2 /\ n * A = A + A) \/ (n = 3 /\ n * A = A + A + A)
  BY <1>1, <1>2
<1>5. /\ k = 1 => (k - 1) * A + CallLen + 1 = A
      /\ k = 2 => (k - 1) * A + CallLen + 1 = A + A
      /\ k = 3 => (k - 1) * A + CallLen + 1 = A + A + A
  BY <1>1
<1>6. A \in Nat /\ A >= 1
  BY <1>1
<1>7. /\ n = 1 => n * A = A
      /\ n = 2 => n * A = A + A
      /\ n = 3 => n * A = A + A + A
  BY <1>1
<1> HIDE DEF A
<1>8. (k - 1) * A + CallLen + 1 \in 1..(n * A)
  BY <1>2, <1>3, <1>5, <1>6, <1>7
<1> QED
  BY <1>8 DEF A

\* Two addresses, the path and the three bytes are a frame.
LEMMA PartsFramed ==
  ASSUME NEW f, Sendable(f), NEW d, NEW s, NEW p,
         Encodes(d, f.dest, FALSE), Encodes(s, f.source, f.path = <<>>), PathIn(f, p)
  PROVE  Framed(f, d \o s \o p \o <<f.control, f.pid, f.type>>)
<1> DEFINE A == CallLen + 1
<1> DEFINE n == Len(f.path)
<1> DEFINE tail == <<f.control, f.pid, f.type>>
<1> DEFINE both == d \o s
<1> DEFINE addresses == both \o p
<1> DEFINE b == addresses \o tail
<1>1. CallLen \in Nat /\ CallLen >= 1
  BY CallLenAssumption
<1>2. n \in 0..3 /\ (f.path = <<>> <=> n = 0)
  <2>1. f.path \in Seq(Station) /\ n <= 3
    BY DEF Sendable
  <2>2. n \in Nat /\ (f.path = <<>> <=> n = 0)
    BY <2>1, EmptySeq, LenProperties
  <2> HIDE DEF n
  <2> QED
    BY <2>1, <2>2
<1>3. d \in Seq(Nat) /\ s \in Seq(Nat) /\ p \in Seq(Nat) /\ Len(d) = A /\ Len(s) = A /\ Len(p) = n * A
  BY DEF Encodes, PathIn
<1>4. /\ tail \in Seq(Nat) /\ Len(tail) = 3
      /\ tail[1] = f.control /\ tail[2] = f.pid /\ tail[3] = f.type
  <2>1. f.control \in 0..255 /\ f.pid \in 0..255 /\ f.type \in 0..255
    BY DEF Sendable
  <2>2. 0..255 \subseteq Nat
    OBVIOUS
  <2>3. f.control \in Nat /\ f.pid \in Nat /\ f.type \in Nat
    BY <2>1, <2>2, Zenon
  <2> QED
    BY <2>3
<1> HIDE DEF n, tail
<1>5. A \in Nat /\ n * A \in Nat /\ n \in Nat
  BY <1>1, <1>2
<1>6. both \in Seq(Nat) /\ Len(both) = A + A /\ Holds(both, 0, d) /\ Holds(both, A, s)
  BY <1>3, ConcatHolds
<1> HIDE DEF both
<1>7. /\ addresses \in Seq(Nat) /\ Len(addresses) = A + A + n * A
      /\ Holds(addresses, 0, d) /\ Holds(addresses, A, s) /\ Holds(addresses, A + A, p)
  <2>1. addresses \in Seq(Nat) /\ Len(addresses) = A + A + n * A /\ Holds(addresses, A + A, p)
    BY <1>3, <1>6, ConcatHolds
  <2>2. 0 + Len(d) <= Len(both) /\ A + Len(s) <= Len(both) /\ 0 \in Nat /\ A \in Nat
    BY <1>3, <1>5, <1>6
  <2> HIDE DEF A
  <2>3. Holds(addresses, 0, d) /\ Holds(addresses, A, s)
    BY <1>3, <1>6, <2>2, ConcatHolds
  <2> QED
    BY <2>1, <2>3
<1> HIDE DEF addresses
<1>8. /\ b \in Seq(Nat) /\ Len(b) = A + A + n * A + 3
      /\ Holds(b, 0, d) /\ Holds(b, A, s) /\ Holds(b, A + A, p) /\ Holds(b, A + A + n * A, tail)
  <2>1. b \in Seq(Nat) /\ Len(b) = A + A + n * A + 3 /\ Holds(b, A + A + n * A, tail)
    BY <1>4, <1>7, ConcatHolds
  <2>2. /\ 0 + Len(d) <= Len(addresses) /\ A + Len(s) <= Len(addresses)
        /\ A + A + Len(p) <= Len(addresses) /\ 0 \in Nat /\ A \in Nat /\ A + A \in Nat
    BY <1>3, <1>5, <1>7
  <2> HIDE DEF A
  <2>3. Holds(b, 0, d) /\ Holds(b, A, s) /\ Holds(b, A + A, p)
    BY <1>3, <1>4, <1>7, <2>2, ConcatHolds
  <2> QED
    BY <2>1, <2>3
<1> HIDE DEF b
<1>9. \A i \in 1..CallLen : /\ b[AddressPos(0) + i] = 2 * CallChar(f.dest, i)
                             /\ b[AddressPos(1) + i] = 2 * CallChar(f.source, i)
  <2> TAKE i \in 1..CallLen
  <2>1. i \in 1..Len(d) /\ i \in 1..Len(s)
    BY <1>1, <1>3
  <2>2. b[0 + i] = d[i] /\ b[A + i] = s[i]
    BY <1>8, <2>1 DEF Holds
  <2>3. d[i] = 2 * CallChar(f.dest, i) /\ s[i] = 2 * CallChar(f.source, i)
    BY DEF Encodes
  <2> QED
    BY <2>2, <2>3, Positions
<1>10. /\ b[AddressPos(0) + CallLen + 1] = d[CallLen + 1]
       /\ b[AddressPos(1) + CallLen + 1] = s[CallLen + 1]
  <2>1. CallLen + 1 \in 1..Len(d) /\ CallLen + 1 \in 1..Len(s)
    BY <1>1, <1>3
  <2>2. b[0 + (CallLen + 1)] = d[CallLen + 1] /\ b[A + (CallLen + 1)] = s[CallLen + 1]
    BY <1>8, <2>1 DEF Holds
  <2>3. 0 + CallLen + 1 = 0 + (CallLen + 1) /\ A + CallLen + 1 = A + (CallLen + 1)
    BY <1>1
  <2> QED
    BY <2>2, <2>3, Positions
<1>11. \A j \in 1..(n + 1) :
         b[AddressPos(j) + CallLen + 1] % 2 = IF j = n + 1 THEN 1 ELSE 0
  <2> TAKE j \in 1..(n + 1)
  <2>1. CASE j = 1
    <3>1. s[CallLen + 1] % 2 = IF n = 0 THEN 1 ELSE 0
      BY <1>2 DEF Encodes
    <3>2. j = n + 1 <=> n = 0
      BY <1>2, <2>1
    <3> QED
      BY <1>10, <2>1, <3>1, <3>2
  <2>2. CASE j # 1
    <3> DEFINE k == j - 1
    <3>1. k \in 1..n /\ j \in 2..5 /\ k - 1 = j - 2 /\ (k = n <=> j = n + 1)
      BY <1>2, <2>2
    <3>2. p[(k - 1) * (CallLen + 1) + CallLen + 1] % 2 = IF k = n THEN 1 ELSE 0
      BY <3>1 DEF PathIn, n
    <3> DEFINE i == (k - 1) * (CallLen + 1) + CallLen + 1
    <3>3. i \in 1..Len(p)
      BY <1>2, <1>3, <3>1, WithinPath
    <3>4. b[A + A + i] = p[i]
      <4> HIDE DEF i
      <4> QED
        BY <1>8, <3>3 DEF Holds
    <3>5. AddressPos(j) = A + A + (k - 1) * (CallLen + 1)
      BY <3>1, Positions
    <3>6. AddressPos(j) + CallLen + 1 = A + A + i
      <4>1. (k - 1) * (CallLen + 1) \in Int
        BY <1>1, <3>1
      <4> QED
        BY <1>1, <3>5, <4>1
    <3> HIDE DEF i, k
    <3> QED
      BY <3>1, <3>2, <3>4, <3>6 DEF i
  <2> QED
    BY <2>1, <2>2
<1>12. AddressPos(n + 2) = A + A + n * A
  <2>1. n + 2 \in 2..5 /\ (n + 2) - 2 = n
    BY <1>2
  <2> QED
    BY <2>1, Positions
<1>13. /\ b[AddressPos(n + 2) + 1] = f.control /\ b[AddressPos(n + 2) + 2] = f.pid
       /\ b[AddressPos(n + 2) + 3] = f.type
  <2>1. 1 \in 1..Len(tail) /\ 2 \in 1..Len(tail) /\ 3 \in 1..Len(tail)
    BY <1>4
  <2> QED
    BY <1>4, <1>8, <1>12, <2>1 DEF Holds
<1>14. /\ (b[AddressPos(0) + CallLen + 1] \div 2) % 16 = f.dest.ssid
       /\ (b[AddressPos(1) + CallLen + 1] \div 2) % 16 = f.source.ssid
  BY <1>10 DEF Encodes
<1>15. Len(b) = AddressPos(n + 2) + 3
  BY <1>8, <1>12
<1> QED
  BY <1>8, <1>9, <1>11, <1>13, <1>14, <1>15 DEF Framed, n, b, addresses, both, tail

\* The bytes of a frame hold it, our own status frame included.
LEMMA BytesFramed ==
  ASSUME NEW f, Sendable(f)
  PROVE  Framed(f, Bytes(f))
<1>1. f.source \in Station /\ f.dest \in Station
  BY DEF Sendable
<1>2. CASE ~IsOurStatus(f)
  <2> DEFINE d == Address(f.dest, FALSE)
  <2> DEFINE s == Address(f.source, f.path = <<>>)
  <2> DEFINE p == FlattenSeq([i \in DOMAIN f.path |-> Address(f.path[i], i = Len(f.path))])
  <2>1. Bytes(f) = d \o s \o p \o <<f.control, f.pid, f.type>>
    BY <1>2 DEF Bytes
  <2>2. (f.path = <<>>) \in BOOLEAN
    OBVIOUS
  <2>3. Encodes(d, f.dest, FALSE) /\ Encodes(s, f.source, f.path = <<>>)
    BY <1>1, <2>2, AddressEncodes
  <2>4. PathIn(f, p)
    BY PathBytes
  <2> HIDE DEF d, s, p
  <2>5. Framed(f, d \o s \o p \o <<f.control, f.pid, f.type>>)
    BY <2>3, <2>4, PartsFramed
  <2> QED
    BY <2>1, <2>5
<1>3. CASE IsOurStatus(f)
  <2> DEFINE d == ax25_encode_call(OurCall(f.dest, TRUE))
  <2> DEFINE s == ax25_encode_call(OurCall(f.source, FALSE))
  <2>1. f.path = <<>> /\ f.control = 3 /\ f.pid = 240 /\ f.type = STATUS
    BY <1>3 DEF IsOurStatus
  <2>2. Bytes(f) = d \o s \o <<3, 240, STATUS>> \o <<>>
    BY <1>3 DEF Bytes, aprs_status
  <2>3. Encodes(d, f.dest, FALSE) /\ Encodes(s, f.source, TRUE)
    <3>1. Encodes(d, f.dest, ~TRUE) /\ Encodes(s, f.source, ~FALSE)
      BY <1>1, OurCallEncodes
    <3> HIDE DEF d, s
    <3> QED
      BY <3>1 DEF Encodes
  <2> HIDE DEF d, s
  <2>4. Encodes(s, f.source, f.path = <<>>)
    BY <2>1, <2>3 DEF Encodes
  <2>5. PathIn(f, <<>>)
    <3>1. Len(f.path) = 0 /\ CallLen \in Nat
      BY <2>1, CallLenAssumption
    <3> QED
      BY <3>1 DEF PathIn
  <2>6. Framed(f, d \o s \o <<>> \o <<f.control, f.pid, f.type>>)
    BY <2>3, <2>4, <2>5, PartsFramed
  <2>7. d \in Seq(Nat) /\ s \in Seq(Nat)
    BY <2>3 DEF Encodes
  <2>8. d \o s \in Seq(Nat)
    BY <2>7
  <2> DEFINE tail == <<3, 240, STATUS>>
  <2>9. tail \in Seq(Nat)
    BY DEF STATUS
  <2>10. <<f.control, f.pid, f.type>> = tail
    BY <2>1
  <2> DEFINE both == d \o s
  <2> HIDE DEF tail, both
  <2>11. both \o <<>> = both
    BY <2>8, ConcatEmptySeq DEF both
  <2>12. both \o tail \in Seq(Nat)
    BY <2>8, <2>9, ConcatProperties DEF both
  <2>13. (both \o tail) \o <<>> = both \o tail
    BY <2>12, ConcatEmptySeq
  <2>14. Bytes(f) = (both \o tail) \o <<>>
    BY <2>2 DEF both, tail
  <2>15. Framed(f, (both \o <<>>) \o tail)
    BY <2>6, <2>10 DEF both
  <2> QED
    BY <2>11, <2>13, <2>14, <2>15
<1> QED
  BY <1>2, <1>3

---------------------------------------------------------------------------

\* The control byte is found after the address that says that it is the last.
LEMMA LastIsFound ==
  ASSUME NEW f, Sendable(f), NEW buffer, Framed(f, buffer)
  PROVE  LastAddress(buffer) = Len(f.path) + 1
<1> DEFINE A == CallLen + 1
<1> DEFINE n == Len(f.path)
<1> DEFINE m == Len(buffer) \div (CallLen + 1) - 1
<1> DEFINE IsLast(i) == ax25_decode_call(buffer, AddressPos(i)).last
<1> DEFINE I == {i \in 1..m : IsLast(i)}
<1>1. CallLen \in Nat /\ A \in Nat /\ A >= 2
  BY CallLenAssumption
<1>2. n \in 0..3
  <2>1. f.path \in Seq(Station) /\ n <= 3
    BY DEF Sendable
  <2>2. n \in Nat
    BY <2>1, LenProperties
  <2> HIDE DEF n
  <2> QED
    BY <2>1, <2>2
<1>3. Len(buffer) = AddressPos(n + 2) + 3
  BY DEF Framed
<1>4. \A j \in 1..(n + 1) : buffer[AddressPos(j) + CallLen + 1] % 2 = IF j = n + 1 THEN 1 ELSE 0
  BY DEF Framed
<1>5. LastAddress(buffer) = Min(I)
  BY DEF LastAddress
<1> HIDE DEF n
<1>6. m \in Nat /\ n + 1 <= m
  <2>1. AddressPos(n + 2) = (n + 2) * A
    BY DEF AddressPos
  <2>2. n + 2 \in Nat
    BY <1>2
  <2> DEFINE q == Len(buffer) \div A
  <2>3. Len(buffer) = (n + 2) * A + 3 /\ (n + 2) * A \in Nat
    BY <1>1, <1>3, <2>1, <2>2
  <2>4. q \in Nat /\ n + 2 <= q
    <3>1. n + 2 = 2 \/ n + 2 = 3 \/ n + 2 = 4 \/ n + 2 = 5
      BY <1>2
    <3>2. Len(buffer) \in Nat
      BY <2>3
    <3> HIDE DEF A
    <3>3. q \in Nat
      BY <1>1, <3>2
    <3>4. Len(buffer) < q * A + A
      BY <1>1, <3>2
    <3>9. /\ 0 * A = 0 /\ 1 * A = A /\ 2 * A = A + A /\ 3 * A = A + A + A
          /\ 4 * A = A + A + A + A /\ 5 * A = A + A + A + A + A
      BY <1>1
    <3>10. /\ q = 0 => Len(buffer) < A
           /\ q = 1 => Len(buffer) < A + A
           /\ q = 2 => Len(buffer) < A + A + A
           /\ q = 3 => Len(buffer) < A + A + A + A
           /\ q = 4 => Len(buffer) < A + A + A + A + A
      <4>1. q = 0 => Len(buffer) < 0 * A + A
        BY <3>4
      <4>2. q = 1 => Len(buffer) < 1 * A + A
        BY <3>4
      <4>3. q = 2 => Len(buffer) < 2 * A + A
        BY <3>4
      <4>4. q = 3 => Len(buffer) < 3 * A + A
        BY <3>4
      <4>5. q = 4 => Len(buffer) < 4 * A + A
        BY <3>4
      <4> QED
        BY <1>1, <3>9, <4>1, <4>2, <4>3, <4>4, <4>5
    <3>5. CASE n + 2 = 2
      <4>1. Len(buffer) = A + A + 3
        BY <2>3, <3>9, <3>5
      <4>2. ~ (q = 0) /\ ~ (q = 1)
        BY <1>1, <3>10, <4>1
      <4> QED
        BY <3>3, <3>5, <4>2
    <3>6. CASE n + 2 = 3
      <4>1. Len(buffer) = A + A + A + 3
        BY <2>3, <3>9, <3>6
      <4>2. ~ (q = 0) /\ ~ (q = 1) /\ ~ (q = 2)
        BY <1>1, <3>10, <4>1
      <4> QED
        BY <3>3, <3>6, <4>2
    <3>7. CASE n + 2 = 4
      <4>1. Len(buffer) = A + A + A + A + 3
        BY <2>3, <3>9, <3>7
      <4>2. ~ (q = 0) /\ ~ (q = 1) /\ ~ (q = 2) /\ ~ (q = 3)
        BY <1>1, <3>10, <4>1
      <4> QED
        BY <3>3, <3>7, <4>2
    <3>8. CASE n + 2 = 5
      <4>1. Len(buffer) = A + A + A + A + A + 3
        BY <2>3, <3>9, <3>8
      <4>2. ~ (q = 0) /\ ~ (q = 1) /\ ~ (q = 2) /\ ~ (q = 3) /\ ~ (q = 4)
        BY <1>1, <3>10, <4>1
      <4> QED
        BY <3>3, <3>8, <4>2
    <3> QED
      BY <3>1, <3>5, <3>6, <3>7, <3>8
  <2>5. m = q - 1
    OBVIOUS
  <2> HIDE DEF q, m
  <2> QED
    BY <1>2, <2>4, <2>5
<1> HIDE DEF m
<1>7. \A j \in 1..(n + 1) : IsLast(j) <=> j = n + 1
  <2> TAKE j \in 1..(n + 1)
  <2>1. IsLast(j) <=> (buffer[AddressPos(j) + CallLen + 1] \div 1) % 2 = 1
    BY DEF ax25_decode_call, Bits
  <2>2. AddressPos(j) + CallLen + 1 \in Nat
    <3>1. j \in 0..5
      BY <1>2
    <3> QED
      BY <1>1, <3>1, Positions
  <2>3. buffer[AddressPos(j) + CallLen + 1] % 2 = IF j = n + 1 THEN 1 ELSE 0
    BY <1>4
  <2>4. AddressPos(j) + CallLen + 1 \in 1..Len(buffer)
    <3>1. AddressPos(j) + (CallLen + 1) <= AddressPos(n + 2)
      <4>1. n + 2 \in 1..5 /\ j \in 0..((n + 2) - 1)
        BY <1>2
      <4> QED
        BY <4>1, NextPosition
    <3>2. AddressPos(j) \in Nat /\ AddressPos(n + 2) \in Nat
      <4>1. n + 2 \in 0..5 /\ j \in 0..5
        BY <1>2
      <4> QED
        BY <4>1, Positions
    <3> QED
      BY <1>1, <1>3, <3>1, <3>2
  <2>5. buffer[AddressPos(j) + CallLen + 1] \in Nat
    BY <2>4 DEF Framed
  <2> DEFINE byte == buffer[AddressPos(j) + CallLen + 1]
  <2> HIDE DEF byte
  <2>6. byte \div 1 = byte
    BY <2>5 DEF byte
  <2> QED
    BY <2>1, <2>3, <2>6 DEF byte
<1> HIDE DEF IsLast
<1>8. I \subseteq Nat /\ n + 1 \in I
  BY <1>2, <1>6, <1>7
<1>9. \A i \in I : n + 1 <= i
  <2> TAKE i \in I
  <2>1. i \in Nat /\ i >= 1 /\ IsLast(i)
    BY <1>6
  <2>2. i < n + 1 => FALSE
    <3>1. i < n + 1 => i \in 1..(n + 1) /\ i # n + 1
      BY <1>2, <2>1
    <3> QED
      BY <1>7, <2>1, <3>1
  <2> QED
    BY <1>2, <2>1, <2>2
<1> HIDE DEF I
<1>10. Min(I) = n + 1
  BY <1>8, <1>9, MinIsLeast
<1> QED
  BY <1>5, <1>10 DEF n

---------------------------------------------------------------------------
(* The display: what it says.                                              *)

\* Two stations are the same when their call signs and their SSIDs are.
LEMMA SameStation ==
  ASSUME NEW call \in Station
  PROVE  /\ call = TestSource <=> call.callsign = TestSource.callsign /\ call.ssid = TestSource.ssid
         /\ call = TestDest <=> call.callsign = TestDest.callsign /\ call.ssid = TestDest.ssid
<1>1. call \in [callsign: Seq(1..127 \ {32}), ssid: 0..15]
  BY DEF Station
<1>2. call = [callsign |-> call.callsign, ssid |-> call.ssid]
  BY <1>1
<1>3. ASSUME NEW c, NEW s
      PROVE  call = [callsign |-> c, ssid |-> s] <=> call.callsign = c /\ call.ssid = s
  BY <1>2
<1>4. /\ TestSource = [callsign |-> TestSource.callsign, ssid |-> TestSource.ssid]
      /\ TestDest = [callsign |-> TestDest.callsign, ssid |-> TestDest.ssid]
  BY DEF TestSource, TestDest
<1> QED
  BY <1>3, <1>4, Zenon

\* The bits of the control byte that are those of an unnumbered information frame: the
\* poll bit, of 16, is not looked at.
LEMMA Unnumbered ==
  ASSUME NEW control \in 0..255
  PROVE  /\ Bits(control, 1, 4) = 3 /\ Bits(control, 4, 4) = 0 /\ Bits(control, 32, 8) = 0
              <=> control \in {3, 19}
         /\ Bits(control, 1, 4) = 3 => Bits(control, 1, 2) # 0
<1>1. /\ Bits(control, 1, 4) = (control \div 1) % 4 /\ Bits(control, 4, 4) = (control \div 4) % 4
      /\ Bits(control, 32, 8) = (control \div 32) % 8 /\ Bits(control, 1, 2) = (control \div 1) % 2
  BY DEF Bits
<1>2. control \div 1 = control
  OBVIOUS
<1>3. control % 4 = 3 => control % 2 # 0
  OBVIOUS
<1>4. control \in {3, 19} => control % 4 = 3 /\ (control \div 4) % 4 = 0 /\ (control \div 32) % 8 = 0
  OBVIOUS
<1>5. ASSUME control % 4 = 3, (control \div 4) % 4 = 0, (control \div 32) % 8 = 0
      PROVE  control \in {3, 19}
  <2>1. control \div 32 = 0
    BY <1>5
  <2>2. control < 32
    BY <2>1
  <2>3. control \div 4 = 0 \/ control \div 4 = 4
    BY <1>5, <2>2
  <2> QED
    BY <1>5, <2>3
<1> QED
  BY <1>1, <1>2, <1>3, <1>4, <1>5

\* Of a buffer that holds a frame, the display says what the frame means.
LEMMA ShownFramed ==
  ASSUME NEW f, Sendable(f), NEW buffer, Framed(f, buffer), NEW from
  PROVE  Shown(buffer, from) = Expected(f, from, saw_our_beacon)
<1> DEFINE packet == ax25_init(buffer)
<1>1. f.source \in Station /\ f.dest \in Station
  BY DEF Sendable
<1>2. f.control \in 0..255 /\ f.pid \in 0..255 /\ f.type \in 0..255
  BY DEF Sendable
<1>3. /\ packet.dest_call.callsign = f.dest.callsign /\ packet.dest_call.ssid = f.dest.ssid
      /\ packet.source_call.callsign = f.source.callsign /\ packet.source_call.ssid = f.source.ssid
  <2>1. /\ packet.dest_call = ax25_decode_call(buffer, AddressPos(0))
        /\ packet.source_call = ax25_decode_call(buffer, AddressPos(1))
    BY DEF ax25_init
  <2> DEFINE to == AddressPos(0)
  <2> DEFINE at == AddressPos(1)
  <2>2. to \in Nat /\ at \in Nat
    BY Positions
  <2>3. /\ \A i \in 1..CallLen : /\ buffer[to + i] = 2 * CallChar(f.dest, i)
                                 /\ buffer[at + i] = 2 * CallChar(f.source, i)
        /\ (buffer[to + CallLen + 1] \div 2) % 16 = f.dest.ssid
        /\ (buffer[at + CallLen + 1] \div 2) % 16 = f.source.ssid
    BY DEF Framed
  <2> HIDE DEF to, at
  <2>4. /\ ax25_decode_call(buffer, to).callsign = f.dest.callsign
        /\ ax25_decode_call(buffer, to).ssid = f.dest.ssid
    BY <1>1, <2>2, <2>3, DecodeCall
  <2>5. /\ ax25_decode_call(buffer, at).callsign = f.source.callsign
        /\ ax25_decode_call(buffer, at).ssid = f.source.ssid
    BY <1>1, <2>2, <2>3, DecodeCall
  <2> QED
    BY <2>1, <2>4, <2>5 DEF to, at
<1>4. /\ After(packet, buffer, 0) = f.control /\ After(packet, buffer, 1) = f.pid
      /\ After(packet, buffer, 2) = f.type
  <2> DEFINE pos == AddressPos(Len(f.path) + 2)
  <2>1. Len(f.path) \in Nat /\ Len(f.path) <= 3
    <3>1. f.path \in Seq(Station) /\ Len(f.path) <= 3
      BY DEF Sendable
    <3> QED
      BY <3>1, LenProperties
  <2>2. packet.control_byte_pos = pos
    <3>1. LastAddress(buffer) = Len(f.path) + 1
      BY LastIsFound
    <3>2. LastAddress(buffer) + 1 = Len(f.path) + 2
      BY <2>1, <3>1
    <3> QED
      BY <3>2 DEF ax25_init
  <2>3. pos \in Nat
    <3>1. Len(f.path) + 2 \in 0..5
      BY <2>1
    <3> QED
      BY <3>1, Positions
  <2>4. buffer[pos + 1] = f.control /\ buffer[pos + 2] = f.pid /\ buffer[pos + 3] = f.type
    BY DEF Framed
  <2> HIDE DEF pos, packet
  <2>5. pos + 0 + 1 = pos + 1 /\ pos + 1 + 1 = pos + 2 /\ pos + 2 + 1 = pos + 3
    BY <2>3
  <2> QED
    BY <2>2, <2>4, <2>5 DEF After
<1> HIDE DEF packet
<1> DEFINE aprs == /\ ax25_frame_type(packet, buffer) = "U" /\ IsUI(packet, buffer)
                   /\ ax25_packet_pid_field(packet, buffer) = "NO_LAYER_3"
<1>5. aprs <=> IsAprs(f)
  <2>1. IsUI(packet, buffer) <=> f.control \in {3, 19}
    BY <1>2, <1>4, Unnumbered DEF IsUI
  <2>2. IsUI(packet, buffer) => ax25_frame_type(packet, buffer) = "U"
    <3> HAVE IsUI(packet, buffer)
    <3>1. Bits(f.control, 1, 4) = 3
      BY <1>4 DEF IsUI
    <3>2. Bits(f.control, 1, 2) # 0
      BY <1>2, <3>1, Unnumbered
    <3> QED
      BY <1>4, <3>1, <3>2 DEF ax25_frame_type
  <2>3. ax25_packet_pid_field(packet, buffer) = "NO_LAYER_3" <=> f.pid = 240
    BY <1>2, <1>4 DEF ax25_packet_pid_field
  <2> QED
    BY <2>1, <2>2, <2>3 DEF IsAprs
<1> DEFINE test == /\ aprs
                   /\ ax25_call_eq(packet.source_call, TestSource)
                   /\ ax25_call_eq(packet.dest_call, TestDest)
<1> HIDE DEF aprs
<1>6. test <=> IsTest(f)
  BY <1>1, <1>3, <1>5, SameStation DEF ax25_call_eq, IsTest
<1> HIDE DEF test
<1> DEFINE type == IF aprs THEN aprs_data_type(packet, buffer) ELSE 0
<1>7. type = IF IsAprs(f) THEN f.type ELSE 0
  BY <1>4, <1>5 DEF aprs_data_type
<1>8. ~ (0 \in Beacon) /\ ~ (0 \in Located)
  BY DEF Beacon, Located
<1> HIDE DEF type
<1>9. /\ type \in Beacon <=> IsAprs(f) /\ f.type \in Beacon
      /\ type \in Located <=> IsAprs(f) /\ f.type \in Located
  BY <1>7, <1>8
<1>10. Shown(buffer, from) =
         [callsign |-> packet.source_call.callsign,
          ssid     |-> packet.source_call.ssid,
          type     |-> type,
          test     |-> test,
          beacon   |-> ~test /\ from = "client" /\ type \in Beacon,
          distance |-> ~test /\ from = "tnc" /\ type \in Located /\ saw_our_beacon]
  BY DEF Shown, packet, aprs, test, type
<1>11. test = IsTest(f)
  BY <1>6 DEF test, IsTest
<1>12. (~test /\ from = "client" /\ type \in Beacon)
         = (from = "client" /\ IsAprs(f) /\ ~IsTest(f) /\ f.type \in Beacon)
  BY <1>6, <1>9
<1>13. (~test /\ from = "tnc" /\ type \in Located /\ saw_our_beacon)
         = (from = "tnc" /\ IsAprs(f) /\ ~IsTest(f) /\ f.type \in Located /\ saw_our_beacon)
  BY <1>6, <1>9
<1> QED
  BY <1>3, <1>7, <1>10, <1>11, <1>12, <1>13, Zenon DEF Expected

\* A display says something of the frame it shows.
LEMMA SaysSomething ==
  ASSUME NEW f, NEW from, NEW beaconed
  PROVE  Expected(f, from, beaconed) # Nothing
<1> DEFINE said == Expected(f, from, beaconed)
<1>1. "callsign" \in DOMAIN said
  BY DEF Expected
<1>2. "callsign" \notin DOMAIN Nothing
  BY DEF Nothing
<1> QED
  BY <1>1, <1>2, Zenon

\* A frame shown keeps PanelInv.
LEMMA ShowStep ==
  ASSUME PanelInv, NEW f, Sendable(f), NEW from, Show(f, from), scene' = scene
  PROVE  PanelInv'
<1> DEFINE said == Expected(f, from, saw_our_beacon)
<1> DEFINE beacon == from = "client" /\ IsAprs(f) /\ ~IsTest(f) /\ f.type \in Beacon
<1>1. oled' = said
  <2> DEFINE buffer == Bytes(f)
  <2>1. Framed(f, buffer)
    BY BytesFramed
  <2> HIDE DEF buffer
  <2>2. Shown(buffer, from) = said
    BY <2>1, ShownFramed
  <2> QED
    BY <2>2 DEF Show, buffer
<1>2. said.beacon = beacon
  BY DEF Expected
<1>3. saw_our_beacon' = (saw_our_beacon \/ beacon) /\ beacons' = (beacons \/ beacon)
  BY <1>1, <1>2 DEF Show
<1>4. beacons = saw_our_beacon /\ saw_our_beacon \in BOOLEAN /\ scene \in Scenes
  BY DEF PanelInv
<1>5. beacons' = saw_our_beacon' /\ saw_our_beacon' \in BOOLEAN
  BY <1>3, <1>4
<1>6. frame' = [content |-> f, from |-> from, beaconed |-> beacons]
  BY DEF Show
<1>7. frame'.content = f /\ frame'.from = from /\ frame'.beaconed = saw_our_beacon
  BY <1>4, <1>6
<1>8. frame' # Nothing
  <2>1. "content" \in DOMAIN frame'
    BY <1>6
  <2>2. "content" \notin DOMAIN Nothing
    BY DEF Nothing
  <2> QED
    BY <2>1, <2>2, Zenon
<1>9. oled' # Nothing
  BY <1>1, SaysSomething
<1>10. oled' = Expected(frame'.content, frame'.from, frame'.beaconed)
  BY <1>1, <1>7
<1> QED
  BY <1>4, <1>5, <1>8, <1>9, <1>10 DEF PanelInv, ShownIsSent

\* A step that leaves the display alone keeps PanelInv.
LEMMA PanelKept ==
  ASSUME PanelInv, UNCHANGED panel, scene' = scene
  PROVE  PanelInv'
<1> QED
  BY DEF PanelInv, ShownIsSent, panel

\* At the start nothing is shown.
LEMMA PanelInit ==
  ASSUME Init
  PROVE  PanelInv
<1> QED
  BY DEF Init, PanelInv, ShownIsSent

\* What the scene has is what the display can be given.
LEMMA SceneSendable ==
  ASSUME PanelInv
  PROVE  \A f \in scene.received \cup scene.sent : Sendable(f)
<1>1. scene \in Scenes
  BY DEF PanelInv
<1> QED
  BY <1>1, FrontPanelAssumption, Zenon

\* Every step keeps PanelInv.
LEMMA PanelStep ==
  ASSUME PanelInv, [Next]_vars
  PROVE  PanelInv'
<1>1. CASE Top
  BY <1>1, PanelKept DEF Top
<1>2. CASE Tnc
  <2>1. scene' = scene /\ (UNCHANGED panel \/ \E f \in scene.received : Show(f, "tnc"))
    BY <1>2 DEF Tnc
  <2> QED
    BY <2>1, PanelKept, ShowStep, SceneSendable
<1>3. CASE Ble
  <2>1. scene' = scene /\ (UNCHANGED panel \/ \E f \in scene.sent : Show(f, "client"))
    BY <1>3 DEF Ble
  <2> QED
    BY <2>1, PanelKept, ShowStep, SceneSendable
<1>4. CASE EndPass
  BY <1>4, PanelKept DEF EndPass
<1>5. CASE Spp
  <2>1. scene' = scene /\ \E f \in scene.sent : Show(f, "client")
    BY <1>5 DEF Spp
  <2> QED
    BY <2>1, ShowStep, SceneSendable
<1>6. CASE Connection
  BY <1>6, PanelKept DEF Connection
<1>7. CASE Typing
  BY <1>7, PanelKept DEF Typing, Type, TypeBeyond
<1>8. CASE UNCHANGED vars
  BY <1>8, PanelKept DEF vars
<1> QED
  BY <1>1, <1>2, <1>3, <1>4, <1>5, <1>6, <1>7, <1>8 DEF Next, Main

\* PanelInv holds in every state.
LEMMA PanelInvariance ==
  Spec => []PanelInv
<1>1. Init => PanelInv
  BY PanelInit
<1>2. PanelInv /\ [Next]_vars => PanelInv'
  BY PanelStep
<1> QED
  BY <1>1, <1>2, PTL DEF Spec

---------------------------------------------------------------------------
(* The front panel.                                                        *)

\* The display says what the frame it shows means, for any three digipeaters or fewer,
\* whether it came from the TNC or a client, and gives a distance only after the
\* operator's own position.
THEOREM DisplayTrue == Spec => []ShownIsSent
<1>1. PanelInv => ShownIsSent
  BY DEF PanelInv
<1> QED
  BY <1>1, PanelInvariance, PTL

\* A line that fits in cmd_buffer runs the command that it names: cmd_buffer is the line
\* as typed, less the spaces it begins with, and matches_prefix has shell_complete find
\* no other.  Only a line that is too long is stored behind cmd_buffer, and from then on
\* no line runs: nothing is claimed of what does happen.
THEOREM CommandTyped == Spec => []CommandIsTyped
<1>1. UsbInv => CommandIsTyped
  BY DEF UsbInv
<1> QED
  BY <1>1, UsbInvariance, PTL

\* Every variable of the front panel keeps its type: the letter's pulses are no more than
\* it has, and cmd_buffer holds no more than its array.
THEOREM TypeCorrect == Spec => []TypeOK
<1>1. ASSUME LightInv PROVE Len(led.pulse_timings) <= Len(letters[letter])
  <2>1. /\ letter \in Letter /\ led \in LED
        /\ Len(letters[letter]) - Len(led.pulse_timings) >= 0
    BY <1>1 DEF LightInv, LightTypes, PulsesInv
  <2>2. Len(letters[letter]) \in Nat
    BY <2>1, LetterFacts
  <2>3. Len(led.pulse_timings) \in Nat
    BY <2>1 DEF LED
  <2> QED
    BY <2>1, <2>2, <2>3
<1>2. LightInv /\ PanelInv /\ UsbInv => TypeOK
  <2> SUFFICES ASSUME LightInv, PanelInv, UsbInv PROVE TypeOK
    OBVIOUS
  <2>1. LightTypes
    BY DEF LightInv
  <2>2. /\ saw_our_beacon \in BOOLEAN /\ beacons \in BOOLEAN
        /\ oled = Nothing <=> frame = Nothing
    BY DEF PanelInv
  <2>3. typed \in Seq(Key) /\ Fits(cmd_buffer) /\ afterBlank \in BOOLEAN
    BY DEF UsbInv
  <2> QED
    BY <1>1, <2>1, <2>2, <2>3 DEF LightTypes, TypeOK
<1> QED
  BY <1>2, LightInvariance, PanelInvariance, UsbInvariance, PTL
==========================================================================
