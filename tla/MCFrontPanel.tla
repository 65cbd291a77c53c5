-------------------------- MODULE MCFrontPanel --------------------------
EXTENDS FrontPanel

Call(callsign, ssid) == [callsign |-> callsign, ssid |-> ssid]

\* "N", "NA" and "CQ" stand for N9600, N9600A and CQBEEP.
MCFrame(source, dest, path, control, pid, type) ==
  [source |-> source, dest |-> dest, path |-> path, control |-> control, pid |-> pid, type |-> type]

Digis == {<<>>, <<Call(<<87>>, 1)>>, <<Call(<<87>>, 1), Call(<<87>>, 15)>>}

Plain(path, control, pid, type) ==
  MCFrame(Call(<<75, 52>>, 9), Call(<<65>>, 0), path, control, pid, type)

\* UI with and without the poll bit, another U frame, an I and an S frame.
Received ==
  {Plain(path, control, 240, 33) : path \in Digis, control \in {3, 19, 47, 0, 1}}
    \cup {Plain(path, 3, pid, type) : path \in Digis, pid \in {240, 207}, type \in {64, 65}}

Test   == MCFrame(TestSource, TestDest, <<>>, 3, 240, 61)
NoTest == {[Test EXCEPT !.source.ssid = 5], [Test EXCEPT !.dest.ssid = 4],
           [Test EXCEPT !.source.callsign = <<78>>]}
Status == MCFrame(Call(<<78>>, 0), Call(<<65>>, 0), <<>>, 3, 240, STATUS)

Beeper == Plain(<<>>, 3, 240, 33)

SAVE   == <<"S", "A", "V", "E">>
CONFIG == <<"C", "O", "N", "F", "I", "G">>

\* All that can be made of two letters, spaces and carriage returns, the commands in
\* full, and one byte more than fits.
Lines ==
  BoundedSeq({"S", "A", SP, CR}, 3)
    \cup {SAVE \o <<CR>>, <<SP, SP>> \o CONFIG \o <<CR>>, CONFIG \o <<"S", CR>>,
          <<"H", "E", "L", "P", SP>>, <<"?", CR>>}

MCScenes ==
  {[starts |-> Clock, received |-> {Beeper}, sent |-> {}, typed |-> {}, passes |-> {1, 3}],
   [starts |-> {0}, received |-> {}, sent |-> {}, typed |-> Lines, passes |-> {4}]}
  \cup {[starts |-> {0}, received |-> {f}, sent |-> {f, Beeper}, typed |-> {}, passes |-> {4}] :
          f \in Received \cup NoTest \cup {Test, Status}}
==========================================================================
