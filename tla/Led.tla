-------------------------------- MODULE Led --------------------------------
(***************************************************************************)
(* firmware/blink.h: an LED that blinks a letter in Morse code while the   *)
(* main loop does other things.  The array pulse_timings and pulse_count   *)
(* are one sequence, the pulses still to come, last one first.             *)
(***************************************************************************)
EXTENDS Integers, Sequences, SequencesExt

CONSTANTS
  pulse_on_ms,   \* a dot; a dash is three times as long
  pulse_off_ms,  \* the pause after a pulse
  ClockRange     \* times are unsigned and wrap: 2^32 in the code

ASSUME LedAssumption ==
  /\ pulse_on_ms \in Nat \ {0} /\ pulse_off_ms \in Nat \ {0}
  /\ ClockRange \in Nat /\ ClockRange > 3 * pulse_on_ms /\ ClockRange > pulse_off_ms

Clock == 0..(ClockRange - 1)

\* Those of the table that the firmware uses.
letters == [E |-> <<".">>, M |-> <<"-", "-">>, R |-> <<".", "-", ".">>,
            S |-> <<".", ".", ".">>, T |-> <<"-">>]

Letter == DOMAIN letters

Timing(mark) == IF mark = "." THEN pulse_on_ms ELSE 3 * pulse_on_ms

LED == [led_state: BOOLEAN, next_pulse_ms: Clock,
        pulse_timings: Seq({Timing("."), Timing("-")})]

init_led == [led_state |-> FALSE, next_pulse_ms |-> 0, pulse_timings |-> <<>>]

Timings(letter) == Reverse([i \in DOMAIN letters[letter] |-> Timing(letters[letter][i])])

blink_morse(now_ms, letter) ==
  [led_state |-> FALSE, next_pulse_ms |-> now_ms, pulse_timings |-> Timings(letter)]

\* The comparison of the two times does not look for a clock that has wrapped.
Due(led, now_ms) == led.pulse_timings # <<>> /\ now_ms >= led.next_pulse_ms

\* Mutant: the next change is counted from the time of this one that was planned.
check_led_stateDrift(led, now_ms) ==
  IF ~Due(led, now_ms) THEN led
  ELSE IF ~led.led_state
  THEN [led EXCEPT !.led_state = TRUE,
                   !.next_pulse_ms = (@ + Last(led.pulse_timings)) % ClockRange]
  ELSE [led_state     |-> FALSE,
        next_pulse_ms |-> (led.next_pulse_ms + pulse_off_ms) % ClockRange,
        pulse_timings |-> Front(led.pulse_timings)]

\* Mutant: next_pulse_ms does not wrap with the clock.
check_led_stateWide(led, now_ms) ==
  IF ~Due(led, now_ms) THEN led
  ELSE IF ~led.led_state
  THEN [led EXCEPT !.led_state = TRUE, !.next_pulse_ms = now_ms + Last(led.pulse_timings)]
  ELSE [led_state     |-> FALSE,
        next_pulse_ms |-> now_ms + pulse_off_ms,
        pulse_timings |-> Front(led.pulse_timings)]

check_led_state(led, now_ms) ==
  IF ~Due(led, now_ms) THEN led
  ELSE IF ~led.led_state
  THEN [led EXCEPT !.led_state = TRUE,
                   !.next_pulse_ms = (now_ms + Last(led.pulse_timings)) % ClockRange]
  ELSE [led_state     |-> FALSE,
        next_pulse_ms |-> (now_ms + pulse_off_ms) % ClockRange,
        pulse_timings |-> Front(led.pulse_timings)]
==========================================================================
