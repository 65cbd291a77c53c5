--------------------------- MODULE BridgeProofs ---------------------------
(***************************************************************************)
(* Theorems about Bridge, for any number of frames, connection events and  *)
(* alarms.  A frame is whole where it goes out because it is whole in the  *)
(* parser while it waits (WaitingInv), and from kiss_read to the last use  *)
(* of scratch nobody else changes what its context depends on (WindowInv): *)
(* the main loop stands still while BTstack's context has a job, and what  *)
(* that context or an alarm changes under the main loop is in hit          *)
(* (StackInv).  Towards the clients the length says whose the buffer is    *)
(* (QueuedInv).  Apart from that, the card's mutex is held from each lock  *)
(* to the unlock after it (MutexInv).                                      *)
(***************************************************************************)
EXTENDS Bridge, TLAPS

---------------------------------------------------------------------------
(* The inductive invariant.                                                *)

\* The frame that a context relays stays complete in its parser until kiss_init.
Held(ctx) ==
  IF pc[ctx].job \in DOMAIN Relays
  THEN LET p == Relays[pc[ctx].job]
       IN  parser[p].fed = 2 /\ parser[p].frame = pc[ctx].frame
  ELSE pc[ctx].frame = Junk

\* The main loop relays for the TNC and BLE, BTstack's context for SPP.
JobInv ==
  /\ pc["main"].job \in {"none", "tnc", "version", "ble"}
  /\ pc["stack"].job \in {"none", "spp", "connect", "disconnect"}
  /\ \A ctx \in Context : Held(ctx)
  /\ \A p \in Parser : parser[p].fed > 0 => parser[p].frame.from = p

\* A frame that waits in its parser, and that nobody came across, is whole there.
WaitingInv ==
  \A p \in Parser :
    Waiting(p) /\ parser[p].frame \notin hit =>
      /\ parser[p].body[1] = parser[p].frame
      /\ parser[p].fed = 2 => parser[p].body[2] = parser[p].frame

\* The steps that find the first, and the second half encoded in scratch.
Half1 == {"encodeTail", "offer", "copy", "copyTail", "uart", "uartTail"}
Half2 == Half1 \ {"encodeTail"}

\* What a context in its window depends on is as it left it, unless it was hit.
WindowInv ==
  \A ctx \in Context :
    LET frame == pc[ctx].frame
        p     == Relays[pc[ctx].job]
    IN  Window(ctx) /\ frame \notin hit =>
          /\ parser[p].body = <<frame, frame>>
          /\ kissFrame = [buffer |-> p, head |-> frame]
          /\ At(ctx) \in Half1 => scratch[1] = frame
          /\ At(ctx) \in Half2 => scratch[2] = frame
          /\ At(ctx) = "uartTail" => uart[2] = [for |-> frame, half |-> 1, is |-> frame]
          /\ At(ctx) = "copyTail" => char_rx_value[1] = frame

\* A frame of SPP that has been read has hit what the main loop was doing.
StackInv ==
  /\ pc["stack"].job = "spp" /\ At("stack") # "read"
  /\ Window("main")
  => pc["main"].frame \in hit

\* The buffer towards the clients holds the frame that its length was set for, and
\* only the main loop's own is there while the loop copies.
QueuedInv ==
  /\ queued # Junk /\ queued \notin hit => char_rx_value = <<queued, queued>>
  /\ At("main") \in {"copy", "copyTail"} => queued \in hit \cup {Junk, pc["main"].frame}

IInv == TypeOK /\ JobInv /\ WaitingInv /\ WindowInv /\ StackInv /\ QueuedInv
          /\ ToTncWhole /\ ToClientsWhole

---------------------------------------------------------------------------
(* The steps of a context.                                                 *)

\* The table of Steps: the jobs, how long they are, and which steps they have where.
LEMMA Jobs == Job = {"tnc", "version", "ble", "spp", "connect", "disconnect"} /\ "none" \notin Job
BY DEF Job, Steps

LEMMA Lengths ==
  /\ Len(Steps["tnc"]) = 15 /\ Len(Steps["version"]) = 4
  /\ Len(Steps["ble"]) = 12 /\ Len(Steps["spp"]) = 12
  /\ Len(Steps["connect"]) = 3 /\ Len(Steps["disconnect"]) = 3
BY DEF Steps, RxSteps, TxSteps

LEMMA Domains ==
  \A job \in Job : Len(Steps[job]) \in Nat /\ DOMAIN Steps[job] = 1..Len(Steps[job])
<1>1. DOMAIN Steps["tnc"] = 1..15  BY DEF Steps, RxSteps
<1>2. DOMAIN Steps["ble"] = 1..12 /\ DOMAIN Steps["spp"] = 1..12  BY DEF Steps, TxSteps
<1>3. /\ DOMAIN Steps["version"] = 1..4
      /\ DOMAIN Steps["connect"] = 1..3 /\ DOMAIN Steps["disconnect"] = 1..3
  BY DEF Steps
<1> QED  BY <1>1, <1>2, <1>3, Jobs, Lengths

LEMMA RxTable ==
  /\ Steps["tnc"][1] = "read" /\ Steps["tnc"][2] = "display"
  /\ Steps["tnc"][3] = "lock" /\ Steps["tnc"][4] = "unlock"
  /\ Steps["tnc"][5] = "text" /\ Steps["tnc"][6] = "lock" /\ Steps["tnc"][7] = "unlock"
  /\ Steps["tnc"][8] = "encode" /\ Steps["tnc"][9] = "encodeTail" /\ Steps["tnc"][10] = "offer"
  /\ Steps["tnc"][11] = "copy" /\ Steps["tnc"][12] = "copyTail"
  /\ Steps["tnc"][13] = "copy" /\ Steps["tnc"][14] = "copyTail" /\ Steps["tnc"][15] = "init"
BY DEF Steps, RxSteps

LEMMA RxLabels ==
  \A at \in 1..15 :
    Steps["tnc"][at] \in {"read", "display", "lock", "unlock", "text", "encode", "encodeTail",
                         "offer", "copy", "copyTail", "init"}
BY RxTable

LEMMA RxSuccessor ==
  \A at \in 1..14 :
    LET a == Steps["tnc"][at]
        b == Steps["tnc"][at + 1]
    IN  /\ b # "read" /\ a # "init"
        /\ b = "encodeTail" => a = "encode"
        /\ b = "offer" => a = "encodeTail"
        /\ b = "copy" => a \in {"offer", "copyTail"}
        /\ b = "copyTail" => a = "copy"
BY RxTable

LEMMA TxTable ==
  ASSUME NEW job \in {"ble", "spp"}
  PROVE
  /\ Steps[job][1] = "read" /\ Steps[job][2] = "encode" /\ Steps[job][3] = "encodeTail"
  /\ Steps[job][4] = "uart" /\ Steps[job][5] = "uartTail" /\ Steps[job][6] = "display"
  /\ Steps[job][7] = "lock" /\ Steps[job][8] = "unlock" /\ Steps[job][9] = "text"
  /\ Steps[job][10] = "lock" /\ Steps[job][11] = "unlock" /\ Steps[job][12] = "init"
BY DEF Steps, TxSteps

LEMMA TxLabels ==
  \A job \in {"ble", "spp"} : \A at \in 1..12 :
    Steps[job][at] \in {"read", "encode", "encodeTail", "uart", "uartTail", "display", "lock",
                       "unlock", "text", "init"}
BY TxTable

LEMMA TxSuccessor ==
  \A job \in {"ble", "spp"} : \A at \in 1..11 :
    LET a == Steps[job][at]
        b == Steps[job][at + 1]
    IN  /\ b # "read" /\ a # "init"
        /\ b = "encode" => a = "read"
        /\ b = "encodeTail" => a = "encode"
        /\ b = "uart" => a = "encodeTail"
        /\ b = "uartTail" => a = "uart"
BY TxTable

LEMMA OtherTable ==
  /\ Steps["version"][1] = "read" /\ Steps["version"][2] = "lock"
  /\ Steps["version"][3] = "unlock" /\ Steps["version"][4] = "init"
  /\ \A job \in {"connect", "disconnect"} :
       Steps[job][1] = "lock" /\ Steps[job][2] = "unlock"
  /\ Steps["connect"][3] = "schedule" /\ Steps["disconnect"][3] = "forget"
BY DEF Steps

LEMMA RelaysIs ==
  /\ DOMAIN Relays = {"tnc", "version", "ble", "spp"}
  /\ Relays["tnc"] = "tnc" /\ Relays["version"] = "tnc"
  /\ Relays["ble"] = "ble" /\ Relays["spp"] = "spp"
BY DEF Relays

LEMMA Busy ==
  ASSUME TypeOK, NEW ctx \in Context
  PROVE  /\ pc[ctx] = Idle => At(ctx) = "idle" /\ ~Window(ctx) /\ pc[ctx].job = "none"
         /\ pc[ctx] # Idle =>
              /\ pc[ctx].job \in Job /\ pc[ctx].at \in 1..Len(Steps[pc[ctx].job])
              /\ At(ctx) = Steps[pc[ctx].job][pc[ctx].at]
         /\ pc[ctx] = Idle <=> pc[ctx].job = "none"
<1>1. pc[ctx].job \in Job => pc[ctx] # Idle
  <2>1. "none" \notin Job  BY Jobs
  <2> QED  BY <2>1 DEF Idle
<1>2. pc[ctx] # Idle => pc[ctx].job \in Job /\ pc[ctx].at \in 1..Len(Steps[pc[ctx].job])
  BY Domains DEF TypeOK
<1>3. "none" \notin Job  BY Jobs
<1> QED  BY <1>1, <1>2, <1>3 DEF At, Window, Idle

\* Where a job's steps are in its context's window.
LEMMA Labels ==
  ASSUME TypeOK, NEW ctx \in Context
  PROVE  /\ At(ctx) \in Half1 \cup {"encode"} => Window(ctx) /\ pc[ctx].job # "none"
         /\ At(ctx) \in {"uart", "uartTail"} => pc[ctx].job \in {"ble", "spp"}
         /\ At(ctx) \in {"offer", "copy", "copyTail"} => pc[ctx].job = "tnc"
         /\ At(ctx) \in {"read", "init"} => pc[ctx].job \in DOMAIN Relays /\ ~Window(ctx)
         /\ At(ctx) \in {"text", "display"} => pc[ctx].job \in {"tnc", "ble", "spp"}
         /\ Window(ctx) => pc[ctx].job \in {"tnc", "ble", "spp"} /\ At(ctx) # "idle"
         /\ At(ctx) \in {"schedule", "forget"} => pc[ctx].job \in {"connect", "disconnect"}
<1>1. CASE pc[ctx] = Idle
  BY <1>1, Busy DEF Half1
<1>2. CASE pc[ctx] # Idle
  <2> DEFINE job == pc[ctx].job
             at  == pc[ctx].at
  <2>1. job \in Job /\ at \in 1..Len(Steps[job]) /\ At(ctx) = Steps[job][at]
    BY <1>2, Busy
  <2>2. Window(ctx) <=> \/ job = "tnc" /\ At(ctx) \notin {"read", "init"}
                        \/ job \in {"ble", "spp"} /\ At(ctx) \in {"encode", "encodeTail", "uart", "uartTail"}
    BY <1>2 DEF Window
  <2> HIDE DEF job, at
  <2>3. CASE job = "tnc"
    <3>1. at \in 1..15  BY <2>1, <2>3, Lengths
    <3>2. At(ctx) \in {"read", "display", "lock", "unlock", "text", "encode", "encodeTail",
                        "offer", "copy", "copyTail", "init"}
      BY <2>1, <2>3, <3>1, RxLabels
    <3> QED  BY <2>2, <2>3, <3>2, RelaysIs DEF Half1, job
  <2>4. CASE job \in {"ble", "spp"}
    <3>1. at \in 1..12  BY <2>1, <2>4, Lengths
    <3>2. At(ctx) \in {"read", "encode", "encodeTail", "uart", "uartTail", "display", "lock",
                        "unlock", "text", "init"}
      BY <2>1, <2>4, <3>1, TxLabels
    <3> QED  BY <2>2, <2>4, <3>2, RelaysIs DEF Half1, job
  <2>5. CASE job = "version"
    <3>1. at \in 1..4  BY <2>1, <2>5, Lengths
    <3> QED  BY <2>1, <2>2, <2>5, <3>1, OtherTable, RelaysIs DEF Half1, job
  <2>6. CASE job \in {"connect", "disconnect"}
    <3>1. at \in 1..3  BY <2>1, <2>6, Lengths
    <3> QED  BY <2>1, <2>2, <2>6, <3>1, OtherTable, RelaysIs DEF Half1, job
  <2> QED  BY <2>1, <2>3, <2>4, <2>5, <2>6, Jobs
<1> QED  BY <1>1, <1>2

LEMMA SkipField ==
  ASSUME TypeOK, NEW ctx \in Context, pc[ctx] # Idle, NEW n \in {1, 2, 5}, Skip(ctx, n)
  PROVE  /\ \A other \in Context : other # ctx => pc'[other] = pc[other]
         /\ pc[ctx].at + n > Len(Steps[pc[ctx].job]) => pc'[ctx] = Idle
         /\ pc[ctx].at + n <= Len(Steps[pc[ctx].job]) =>
              pc'[ctx] = [job |-> pc[ctx].job, at |-> pc[ctx].at + n, frame |-> pc[ctx].frame]
         /\ DOMAIN pc' = Context /\ pc' = [c \in Context |-> pc'[c]]
<1>1. pc \in [Context -> [job: Job \cup {"none"}, at: Nat, frame: Piece]]  BY DEF TypeOK
<1>2. pc[ctx].at \in 1..Len(Steps[pc[ctx].job]) /\ Len(Steps[pc[ctx].job]) \in Nat
  BY Busy, Domains
<1>3. [pc[ctx] EXCEPT !.at = pc[ctx].at + n]
        = [job |-> pc[ctx].job, at |-> pc[ctx].at + n, frame |-> pc[ctx].frame]
  BY <1>1
<1>4. pc' = [pc EXCEPT ![ctx] = IF pc[ctx].at + n > Len(Steps[pc[ctx].job]) THEN Idle
                                ELSE [pc[ctx] EXCEPT !.at = pc[ctx].at + n]]
  BY DEF Skip
<1> DEFINE next == IF pc[ctx].at + n > Len(Steps[pc[ctx].job]) THEN Idle
                   ELSE [pc[ctx] EXCEPT !.at = pc[ctx].at + n]
<1>5. pc' = [pc EXCEPT ![ctx] = next]  BY <1>4
<1>6. /\ pc[ctx].at + n > Len(Steps[pc[ctx].job]) => next = Idle
      /\ pc[ctx].at + n <= Len(Steps[pc[ctx].job]) =>
           next = [job |-> pc[ctx].job, at |-> pc[ctx].at + n, frame |-> pc[ctx].frame]
  BY <1>2, <1>3
<1> HIDE DEF next
<1>7. /\ \A other \in Context : other # ctx => pc'[other] = pc[other]
      /\ DOMAIN pc' = Context /\ pc' = [c \in Context |-> pc'[c]] /\ pc'[ctx] = next
  BY <1>1, <1>5
<1> QED  BY <1>6, <1>7

\* After n steps a context is idle, or at a later step of the same job.
LEMMA SkipType ==
  ASSUME TypeOK, NEW ctx \in Context, pc[ctx] # Idle, NEW n \in {1, 2, 5}, Skip(ctx, n),
         Piece \subseteq Piece'
  PROVE  /\ pc' \in [Context -> [job: Job \cup {"none"}, at: Nat, frame: Piece']]
         /\ \A c \in Context :
              pc'[c] = Idle \/ (pc'[c].job \in Job /\ pc'[c].at \in DOMAIN Steps[pc'[c].job])
<1>1. pc \in [Context -> [job: Job \cup {"none"}, at: Nat, frame: Piece]]  BY DEF TypeOK
<1>2. pc[ctx].job \in Job /\ pc[ctx].at \in 1..Len(Steps[pc[ctx].job])  BY Busy
<1>3. Len(Steps[pc[ctx].job]) \in Nat /\ DOMAIN Steps[pc[ctx].job] = 1..Len(Steps[pc[ctx].job])
  BY <1>2, Domains
<1>4. Idle \in [job: Job \cup {"none"}, at: Nat, frame: Piece']  BY DEF Idle, Piece
<1> DEFINE Entry(e) == e \in [job: Job \cup {"none"}, at: Nat, frame: Piece']
           Good(e)  == e = Idle \/ (e.job \in Job /\ e.at \in DOMAIN Steps[e.job])
<1>5. Entry(pc'[ctx]) /\ Good(pc'[ctx])
  <2>1. CASE pc[ctx].at + n > Len(Steps[pc[ctx].job])
    BY <1>4, <2>1, SkipField
  <2>2. CASE pc[ctx].at + n <= Len(Steps[pc[ctx].job])
    <3> DEFINE e == [job |-> pc[ctx].job, at |-> pc[ctx].at + n, frame |-> pc[ctx].frame]
    <3>1. pc'[ctx] = e  BY <2>2, SkipField
    <3>2. pc[ctx].frame \in Piece'  BY <1>1
    <3>3. pc[ctx].at + n \in Nat /\ pc[ctx].at + n \in DOMAIN Steps[pc[ctx].job]
      BY <1>2, <1>3, <2>2
    <3>4. Entry(e)  BY <1>2, <3>2, <3>3
    <3>5. Good(e)  BY <1>2, <3>3
    <3> QED  BY <3>1, <3>4, <3>5
  <2> QED  BY <1>2, <1>3, <2>1, <2>2
<1>6. ASSUME NEW c \in Context, c # ctx
      PROVE  Entry(pc'[c]) /\ Good(pc'[c])
  <2>1. pc'[c] = pc[c]  BY <1>6, SkipField
  <2>2. pc[c] \in [job: Job \cup {"none"}, at: Nat, frame: Piece]  BY <1>1
  <2>3. Good(pc[c])  BY DEF TypeOK
  <2> QED  BY <2>1, <2>2, <2>3
<1>7. \A c \in Context : Entry(pc'[c]) /\ Good(pc'[c])  BY <1>5, <1>6
<1>8. pc' = [c \in Context |-> pc'[c]]  BY SkipField
<1> QED  BY <1>7, <1>8

\* What one step leads to: the windows have no gap, and each half has its predecessor.
LEMMA Follows ==
  ASSUME TypeOK, NEW ctx \in Context, pc[ctx] # Idle, Skip(ctx, 1)
  PROVE  /\ \A other \in Context : other # ctx => pc'[other] = pc[other]
         /\ At(ctx) \in {"init", "schedule", "forget"} <=> pc'[ctx] = Idle
         /\ pc'[ctx] # Idle =>
              /\ pc'[ctx].job = pc[ctx].job /\ pc'[ctx].frame = pc[ctx].frame
              /\ At(ctx)' # "read"
              /\ At(ctx)' = "encodeTail" => At(ctx) = "encode"
              /\ At(ctx)' \in {"offer", "uart"} => At(ctx) = "encodeTail"
              /\ At(ctx)' = "uartTail" => At(ctx) = "uart"
              /\ At(ctx)' = "copy" => At(ctx) \in {"offer", "copyTail"}
              /\ At(ctx)' = "copyTail" => At(ctx) = "copy"
              /\ Window(ctx)' => At(ctx) = "read" \/ Window(ctx)
<1> DEFINE job == pc[ctx].job
           at  == pc[ctx].at
<1>1. job \in Job /\ at \in 1..Len(Steps[job]) /\ At(ctx) = Steps[job][at] /\ Len(Steps[job]) \in Nat
  BY Busy, Domains
<1>2. \A other \in Context : other # ctx => pc'[other] = pc[other]  BY SkipField
<1>0. /\ at + 1 > Len(Steps[job]) => pc'[ctx] = Idle
      /\ at + 1 <= Len(Steps[job]) =>
           pc'[ctx] = [job |-> job, at |-> at + 1, frame |-> pc[ctx].frame]
  BY SkipField
<1>3. at = Len(Steps[job]) => pc'[ctx] = Idle  BY <1>0, <1>1
<1>4. at < Len(Steps[job]) =>
        /\ pc'[ctx] = [job |-> job, at |-> at + 1, frame |-> pc[ctx].frame]
        /\ pc'[ctx].job = job /\ pc'[ctx].frame = pc[ctx].frame /\ pc'[ctx] # Idle
        /\ At(ctx)' = Steps[job][at + 1]
  <2>1. "none" \notin Job  BY Jobs
  <2> SUFFICES ASSUME at < Len(Steps[job])
               PROVE  /\ pc'[ctx] = [job |-> job, at |-> at + 1, frame |-> pc[ctx].frame]
                      /\ pc'[ctx].job = job /\ pc'[ctx].frame = pc[ctx].frame /\ pc'[ctx] # Idle
                      /\ At(ctx)' = Steps[job][at + 1]
    OBVIOUS
  <2>2. pc'[ctx] = [job |-> job, at |-> at + 1, frame |-> pc[ctx].frame]  BY <1>0, <1>1
  <2>3. pc'[ctx].job = job /\ pc'[ctx].at = at + 1 /\ pc'[ctx].frame = pc[ctx].frame  BY <2>2
  <2>4. pc'[ctx] # Idle  BY <1>1, <2>1, <2>3 DEF Idle
  <2> QED  BY <2>2, <2>3, <2>4 DEF At
<1>5. Window(ctx)' => \/ pc'[ctx].job = "tnc" /\ At(ctx)' \notin {"read", "init"}
                      \/ /\ pc'[ctx].job \in {"ble", "spp"}
                         /\ At(ctx)' \in {"encode", "encodeTail", "uart", "uartTail"}
  BY DEF Window
<1>6. \/ job = "tnc" /\ At(ctx) \notin {"read", "init"}
      \/ job \in {"ble", "spp"} /\ At(ctx) \in {"encode", "encodeTail", "uart", "uartTail"}
      => Window(ctx)
  BY DEF Window
<1> HIDE DEF job, at
<1> DEFINE Last  == /\ At(ctx) \in {"init", "schedule", "forget"}
                    /\ pc'[ctx] = Idle
           Inner == /\ At(ctx) \notin {"init", "schedule", "forget"}
                    /\ pc'[ctx] # Idle
                    /\ At(ctx)' # "read"
                    /\ At(ctx)' = "encodeTail" => At(ctx) = "encode"
                    /\ At(ctx)' \in {"offer", "uart"} => At(ctx) = "encodeTail"
                    /\ At(ctx)' = "uartTail" => At(ctx) = "uart"
                    /\ At(ctx)' = "copy" => At(ctx) \in {"offer", "copyTail"}
                    /\ At(ctx)' = "copyTail" => At(ctx) = "copy"
                    /\ Window(ctx)' => At(ctx) = "read" \/ Window(ctx)
<1>7. CASE job = "tnc"
  <2>0. Len(Steps[job]) = 15  BY <1>7, Lengths
  <2>1. CASE at = 15
    <3>1. pc'[ctx] = Idle  BY <1>3, <2>0, <2>1
    <3>2. At(ctx) = "init"  BY <1>1, <1>7, <2>1, RxTable
    <3> QED  BY <1>2, <3>1, <3>2
  <2>2. CASE at \in 1..14
    <3>1. At(ctx) = Steps["tnc"][at] /\ At(ctx)' = Steps["tnc"][at + 1] /\ pc'[ctx] # Idle
      BY <1>1, <1>4, <1>7, <2>0, <2>2
    <3>2. /\ At(ctx) \in {"read", "display", "lock", "unlock", "text", "encode", "encodeTail",
                         "offer", "copy", "copyTail", "init"}
          /\ At(ctx)' \in {"read", "display", "lock", "unlock", "text", "encode", "encodeTail",
                          "offer", "copy", "copyTail", "init"}
      BY <2>2, <3>1, RxLabels
    <3>3. /\ At(ctx)' # "read" /\ At(ctx) # "init"
          /\ At(ctx)' = "encodeTail" => At(ctx) = "encode"
          /\ At(ctx)' = "offer" => At(ctx) = "encodeTail"
          /\ At(ctx)' = "copy" => At(ctx) \in {"offer", "copyTail"}
          /\ At(ctx)' = "copyTail" => At(ctx) = "copy"
      BY <2>2, <3>1, RxSuccessor
    <3>4. Inner  BY <1>6, <1>7, <3>1, <3>2, <3>3
    <3> QED  BY <1>1, <1>4, <1>2, <2>0, <2>2, <3>4 DEF job
  <2> QED  BY <1>1, <2>0, <2>1, <2>2
<1>8. CASE job \in {"ble", "spp"}
  <2>0. Len(Steps[job]) = 12  BY <1>8, Lengths
  <2>1. CASE at = 12
    <3>1. pc'[ctx] = Idle  BY <1>3, <2>0, <2>1
    <3>2. At(ctx) = "init"  BY <1>1, <1>8, <2>1, TxTable
    <3> QED  BY <1>2, <3>1, <3>2
  <2>2. CASE at \in 1..11
    <3>1. At(ctx) = Steps[job][at] /\ At(ctx)' = Steps[job][at + 1] /\ pc'[ctx] # Idle
      BY <1>1, <1>4, <2>0, <2>2
    <3>2. /\ At(ctx) \in {"read", "encode", "encodeTail", "uart", "uartTail", "display", "lock",
                         "unlock", "text", "init"}
          /\ At(ctx)' \in {"read", "encode", "encodeTail", "uart", "uartTail", "display", "lock",
                          "unlock", "text", "init"}
      BY <1>8, <2>2, <3>1, TxLabels
    <3>3. /\ At(ctx)' # "read" /\ At(ctx) # "init"
          /\ At(ctx)' = "encode" => At(ctx) = "read"
          /\ At(ctx)' = "encodeTail" => At(ctx) = "encode"
          /\ At(ctx)' = "uart" => At(ctx) = "encodeTail"
          /\ At(ctx)' = "uartTail" => At(ctx) = "uart"
      BY <1>8, <2>2, <3>1, TxSuccessor
    <3>4. pc'[ctx].job = job  BY <1>1, <1>4, <2>0, <2>2
    <3>5. Inner  BY <1>5, <1>6, <1>8, <3>1, <3>2, <3>3, <3>4
    <3> QED  BY <1>1, <1>4, <1>2, <2>0, <2>2, <3>5 DEF job
  <2> QED  BY <1>1, <2>0, <2>1, <2>2
<1>9. CASE job \in {"version", "connect", "disconnect"}
  <2>0. /\ job = "version" => Len(Steps[job]) = 4
        /\ job \in {"connect", "disconnect"} => Len(Steps[job]) = 3
    BY <1>9, Lengths
  <2>1. CASE at = Len(Steps[job])
    <3>1. pc'[ctx] = Idle  BY <1>3, <2>1
    <3>2. Steps[job][at] \in {"init", "schedule", "forget"}  BY <1>9, <2>0, <2>1, OtherTable
    <3> QED  BY <1>1, <1>2, <3>1, <3>2
  <2>2. CASE at < Len(Steps[job])
    <3>1. /\ At(ctx) \in {"read", "lock", "unlock"} /\ At(ctx)' \in {"lock", "unlock", "init", "schedule", "forget"}
          /\ pc'[ctx] # Idle /\ pc'[ctx].job = job
      <4>1. at \in 1..3 /\ (job # "version" => at \in 1..2)
        <5>1. at \in Nat /\ at >= 1  BY <1>1
        <5>2. CASE job = "version"
          <6>1. Len(Steps[job]) = 4  BY <2>0, <5>2
          <6>2. at < 4  BY <2>2, <6>1
          <6> QED  BY <5>1, <5>2, <6>2
        <5>3. CASE job \in {"connect", "disconnect"}
          <6>1. Len(Steps[job]) = 3 /\ job # "version"  BY <2>0, <5>3
          <6>2. at < 3  BY <2>2, <6>1
          <6> QED  BY <5>1, <5>3, <6>2
        <5> QED  BY <1>9, <5>2, <5>3
      <4>2. At(ctx) = Steps[job][at] /\ At(ctx)' = Steps[job][at + 1] /\ pc'[ctx] # Idle /\ pc'[ctx].job = job
        BY <1>1, <1>4, <2>2
      <4> QED  BY <1>9, <4>1, <4>2, OtherTable
    <3>2. Inner  BY <1>5, <1>9, <3>1
    <3> QED  BY <1>1, <1>4, <1>2, <2>2, <3>2 DEF job
  <2> QED  BY <1>1, <2>1, <2>2
<1> QED  BY <1>1, <1>7, <1>8, <1>9, Jobs

---------------------------------------------------------------------------
(* The type invariant.                                                     *)

LEMMA DoStep ==
  ASSUME TypeOK, NEW ctx \in Context, NEW step, step # "idle", Do(ctx, step)
  PROVE  pc[ctx] # Idle /\ Skip(ctx, 1) /\ At(ctx) = step /\ Runs(ctx)
BY Busy DEF Do

LEMMA PieceKept == begun' = begun => Piece' = Piece
BY DEF Piece, Own

LEMMA PieceGrows ==
  ASSUME TypeOK, begun' \in [Sender -> Nat], \A s \in Sender : begun[s] <= begun'[s]
  PROVE  Piece \subseteq Piece'
<1>1. begun \in [Sender -> Nat]  BY DEF TypeOK
<1>2. \A s \in Sender : 1..begun[s] \subseteq 1..begun'[s]  BY <1>1
<1>3. \A p \in Parser : Own(p) \subseteq Own(p)'  BY <1>2 DEF Own, Sender
<1>4. 1..begun["alarm"] \subseteq 1..begun'["alarm"]  BY <1>2 DEF Sender
<1> QED  BY <1>3, <1>4 DEF Piece

LEMMA InitTypes == Init => TypeOK
<1> SUFFICES ASSUME Init PROVE TypeOK
  OBVIOUS
<1>1. Junk \in Piece  BY DEF Piece
<1>2. Empty \in [fed: 0..2, frame: Piece, body: Piece \X Piece]  BY <1>1 DEF Empty
<1>3. Nothing \in Written  BY <1>1 DEF Nothing, Written
<1>4. Idle \in [job: Job \cup {"none"}, at: Nat, frame: Piece]  BY <1>1 DEF Idle
<1>5. alarms + begun["alarm"] <= MaxAlarms /\ events \in 0..MaxEvents
  BY BridgeAssumption DEF Init, Sender
<1>6. parser \in [Parser -> [fed: 0..2, frame: Piece, body: Piece \X Piece]]  BY <1>2 DEF Init
<1>7. pc \in [Context -> [job: Job \cup {"none"}, at: Nat, frame: Piece]]  BY <1>4 DEF Init
<1>8. begun \in [Sender -> Nat]  BY DEF Init
<1>9. uart \in Written \X Written  BY <1>3 DEF Init
<1>10. /\ kissFrame \in [buffer: Parser \cup {"null"}, head: Piece]
       /\ scratch \in Piece \X Piece /\ char_rx_value \in Piece \X Piece
       /\ queued \in Piece /\ card \in {"free"} \cup Context
       /\ sent \in [for: Piece, head: Piece, tail: Piece]
  BY <1>1 DEF Init
<1> QED  BY <1>5, <1>6, <1>7, <1>8, <1>9, <1>10 DEF Init, TypeOK

\* The frame that a context relays is in a parser.
LEMMA RelaysType ==
  ASSUME NEW job \in DOMAIN Relays PROVE Relays[job] \in Parser
BY RelaysIs DEF Parser

LEMMA AddAlarmType ==
  ASSUME TypeOK, AddAlarm \/ alarms' = alarms, begun' = begun
  PROVE  alarms' \in Nat /\ alarms' + begun'["alarm"] <= MaxAlarms
BY BridgeAssumption DEF TypeOK, AddAlarm, Sender

\* What kissFrame's header does not fit is Junk, so nothing else comes of a null pointer.
LEMMA PayloadType ==
  ASSUME TypeOK, NEW half PROVE Payload(half) \in Piece
BY DEF Payload, TypeOK, Piece

LEMMA RelayTypes ==
  ASSUME TypeOK, NEW ctx \in Context, Relay(ctx)
  PROVE  TypeOK'
<1>1. UNCHANGED <<char_rx_value, queued, sent, query, begun, events, faulted>>
  BY DEF Relay, Read, Encode, Display, Text, Lock, Unlock, WriteUart, InitParser, shared
<1>2. Piece' = Piece  BY <1>1, PieceKept
<1>3. \E step : step # "idle" /\ Do(ctx, step)
  BY DEF Relay, Read, Encode, Display, Text, Lock, Unlock, WriteUart, InitParser
<1>4. pc[ctx] # Idle /\ Skip(ctx, 1)  BY <1>3, DoStep
<1>5. /\ pc' \in [Context -> [job: Job \cup {"none"}, at: Nat, frame: Piece']]
      /\ \A c \in Context :
           pc'[c] = Idle \/ (pc'[c].job \in Job /\ pc'[c].at \in DOMAIN Steps[pc'[c].job])
  BY <1>2, <1>4, SkipType
<1> DEFINE Rest == /\ parser \in [Parser -> [fed: 0..2, frame: Piece, body: Piece \X Piece]]
                   /\ kissFrame \in [buffer: Parser \cup {"null"}, head: Piece]
                   /\ scratch \in Piece \X Piece /\ card \in {"free"} \cup Context
                   /\ uart \in Written \X Written
                   /\ alarms \in Nat /\ alarms + begun["alarm"] <= MaxAlarms
                   /\ hit \subseteq Piece
<1>6. SUFFICES Rest'
  BY <1>1, <1>2, <1>5 DEF TypeOK
<1>7. /\ parser \in [Parser -> [fed: 0..2, frame: Piece, body: Piece \X Piece]]
      /\ kissFrame \in [buffer: Parser \cup {"null"}, head: Piece]
      /\ scratch \in Piece \X Piece /\ card \in {"free"} \cup Context
      /\ uart \in Written \X Written
      /\ alarms \in Nat /\ alarms + begun["alarm"] <= MaxAlarms
      /\ hit \subseteq Piece /\ Junk \in Piece /\ Written' = Written
  BY <1>2 DEF TypeOK, Piece, Written
<1>8. CASE Read(ctx)
  <2>1. At(ctx) = "read"  BY <1>8, DoStep DEF Read
  <2>2. Relays[pc[ctx].job] \in Parser  BY <2>1, Labels, RelaysType
  <2>3. InWindow \subseteq Piece  BY DEF InWindow, TypeOK
  <2>4. /\ UNCHANGED <<parser, scratch, card, uart, alarms>> /\ hit' = hit \cup InWindow
        /\ kissFrame' = [buffer |-> Relays[pc[ctx].job], head |-> parser[Relays[pc[ctx].job]].frame]
    BY <1>8 DEF Read
  <2>5. kissFrame' \in [buffer: Parser \cup {"null"}, head: Piece]  BY <1>7, <2>2, <2>4
  <2> QED  BY <1>1, <1>2, <1>7, <2>3, <2>4, <2>5
<1>9. CASE Encode(ctx)
  <2>1. Payload(1) \in Piece /\ Payload(2) \in Piece  BY PayloadType
  <2>2. scratch' \in Piece \X Piece  BY <1>7, <1>9, <2>1 DEF Encode
  <2>3. UNCHANGED <<parser, kissFrame, card, uart, alarms, hit>>  BY <1>9 DEF Encode
  <2> QED  BY <1>1, <1>2, <1>7, <2>2, <2>3
<1>10. CASE Display(ctx)
  <2>1. alarms' \in Nat /\ alarms' + begun'["alarm"] <= MaxAlarms
    BY <1>1, <1>10, AddAlarmType DEF Display
  <2>2. UNCHANGED <<parser, kissFrame, scratch, card, uart, hit>>  BY <1>10 DEF Display, shared
  <2> QED  BY <1>1, <1>2, <1>7, <2>1, <2>2
<1>11. CASE Text(ctx)
  BY <1>1, <1>2, <1>7, <1>11 DEF Text
<1>12. CASE Lock(ctx) \/ Unlock(ctx)
  BY <1>1, <1>2, <1>7, <1>12 DEF Lock, Unlock
<1>13. CASE WriteUart(ctx)
  <2> DEFINE half == IF At(ctx) = "uart" THEN 1 ELSE 2
  <2>1. half \in {1, 2} /\ scratch[half] \in Piece /\ pc[ctx].frame \in Piece
    BY <1>7 DEF TypeOK
  <2>2. uart' = <<uart[2], [for |-> pc[ctx].frame, half |-> half, is |-> scratch[half]]>>
    BY <1>13 DEF WriteUart
  <2> HIDE DEF half
  <2>3. [for |-> pc[ctx].frame, half |-> half, is |-> scratch[half]] \in Written
    BY <2>1 DEF Written
  <2>4. uart' \in Written \X Written  BY <1>7, <2>2, <2>3
  <2>5. UNCHANGED <<parser, kissFrame, scratch, card, alarms, hit>>  BY <1>13 DEF WriteUart
  <2> QED  BY <1>1, <1>2, <1>7, <2>4, <2>5
<1>14. CASE InitParser(ctx)
  <2>1. At(ctx) = "init"  BY <1>14, DoStep DEF InitParser
  <2>2. Relays[pc[ctx].job] \in Parser  BY <2>1, Labels, RelaysType
  <2>3. parser' = [parser EXCEPT ![Relays[pc[ctx].job]].fed = 0]  BY <1>14 DEF InitParser
  <2>4. parser' \in [Parser -> [fed: 0..2, frame: Piece, body: Piece \X Piece]]
    BY <1>7, <2>2, <2>3
  <2>5. UNCHANGED <<kissFrame, scratch, card, uart, alarms, hit>>  BY <1>14 DEF InitParser
  <2> QED  BY <1>1, <1>2, <1>7, <2>4, <2>5
<1> QED  BY <1>8, <1>9, <1>10, <1>11, <1>12, <1>13, <1>14 DEF Relay

\* A context that begins a job.
LEMMA BeginType ==
  ASSUME TypeOK, NEW ctx \in Context, NEW job \in Job, NEW frame \in Piece,
         pc' = [pc EXCEPT ![ctx] = Begin(job, frame)]
  PROVE  /\ pc' \in [Context -> [job: Job \cup {"none"}, at: Nat, frame: Piece]]
         /\ \A c \in Context :
              pc'[c] = Idle \/ (pc'[c].job \in Job /\ pc'[c].at \in DOMAIN Steps[pc'[c].job])
<1>1. pc \in [Context -> [job: Job \cup {"none"}, at: Nat, frame: Piece]]  BY DEF TypeOK
<1>2. Begin(job, frame) \in [job: Job \cup {"none"}, at: Nat, frame: Piece]  BY DEF Begin
<1>3. 1 \in DOMAIN Steps[job]
  <2>1. /\ Len(Steps["tnc"]) >= 1 /\ Len(Steps["version"]) >= 1 /\ Len(Steps["ble"]) >= 1
        /\ Len(Steps["spp"]) >= 1 /\ Len(Steps["connect"]) >= 1 /\ Len(Steps["disconnect"]) >= 1
    BY Lengths
  <2>2. Len(Steps[job]) >= 1  BY <2>1, Jobs
  <2> QED  BY <2>2, Domains
<1>4. Begin(job, frame).job \in Job /\ Begin(job, frame).at \in DOMAIN Steps[Begin(job, frame).job]
  BY <1>3 DEF Begin
<1>5. pc'[ctx] = Begin(job, frame) /\ \A c \in Context : c # ctx => pc'[c] = pc[c]  BY <1>1
<1>6. pc' \in [Context -> [job: Job \cup {"none"}, at: Nat, frame: Piece]]  BY <1>1, <1>2
<1> HIDE DEF Begin
<1>7. \A c \in Context :
        pc'[c] = Idle \/ (pc'[c].job \in Job /\ pc'[c].at \in DOMAIN Steps[pc'[c].job])
  BY <1>4, <1>5 DEF TypeOK
<1> QED  BY <1>6, <1>7

\* What the reception of half a frame does, field by field.
LEMMA FeedHeadParser ==
  ASSUME TypeOK, NEW p \in Parser, NEW kind, FeedHead(p, kind)
  PROVE  LET frame == Frame(p, begun[p] + 1, kind)
         IN  /\ parser'[p].fed = 1 /\ parser'[p].frame = frame /\ parser'[p].body[1] = frame
             /\ parser'[p].body[2] = parser[p].body[2]
             /\ parser'[p] = [fed |-> 1, frame |-> frame, body |-> <<frame, parser[p].body[2]>>]
             /\ \A q \in Parser : q # p => parser'[q] = parser[q]
             /\ DOMAIN parser' = Parser /\ parser' = [q \in Parser |-> parser'[q]]
<1> DEFINE frame == Frame(p, begun[p] + 1, kind)
<1>1. parser \in [Parser -> [fed: 0..2, frame: Piece, body: Piece \X Piece]]  BY DEF TypeOK
<1>2. parser' = [parser EXCEPT ![p].fed = 1, ![p].frame = frame, ![p].body[1] = frame]
  BY DEF FeedHead
<1> HIDE DEF frame
<1>3. parser'[p] = [fed |-> 1, frame |-> frame, body |-> <<frame, parser[p].body[2]>>]
  <2>1. parser[p].body \in Piece \X Piece /\ parser[p] \in [fed: 0..2, frame: Piece, body: Piece \X Piece]
    BY <1>1
  <2>2. [parser[p].body EXCEPT ![1] = frame] = <<frame, parser[p].body[2]>>  BY <2>1
  <2>3. parser'[p] = [fed |-> 1, frame |-> frame, body |-> [parser[p].body EXCEPT ![1] = frame]]
    BY <1>1, <1>2, <2>1
  <2> QED  BY <2>2, <2>3
<1>4. \A q \in Parser : q # p => parser'[q] = parser[q]  BY <1>1, <1>2
<1>5. DOMAIN parser' = Parser /\ parser' = [q \in Parser |-> parser'[q]]  BY <1>1, <1>2
<1> QED  BY <1>3, <1>4, <1>5 DEF frame

LEMMA FeedTailParser ==
  ASSUME TypeOK, NEW p \in Parser, FeedTail(p)
  PROVE  /\ parser'[p] = [fed |-> 2, frame |-> parser[p].frame,
                          body |-> <<parser[p].body[1], parser[p].frame>>]
         /\ \A q \in Parser : q # p => parser'[q] = parser[q]
         /\ DOMAIN parser' = Parser /\ parser' = [q \in Parser |-> parser'[q]]
<1>1. parser \in [Parser -> [fed: 0..2, frame: Piece, body: Piece \X Piece]]  BY DEF TypeOK
<1>2. parser' = [parser EXCEPT ![p].fed = 2, ![p].body[2] = parser[p].frame]  BY DEF FeedTail
<1>3. parser[p].body \in Piece \X Piece /\ parser[p] \in [fed: 0..2, frame: Piece, body: Piece \X Piece]
  BY <1>1
<1>4. [parser[p].body EXCEPT ![2] = parser[p].frame] = <<parser[p].body[1], parser[p].frame>>
  BY <1>3
<1>5. parser'[p] = [fed |-> 2, frame |-> parser[p].frame,
                    body |-> [parser[p].body EXCEPT ![2] = parser[p].frame]]
  BY <1>1, <1>2, <1>3
<1>6. \A q \in Parser : q # p => parser'[q] = parser[q]  BY <1>1, <1>2
<1>7. DOMAIN parser' = Parser /\ parser' = [q \in Parser |-> parser'[q]]  BY <1>1, <1>2
<1> QED  BY <1>4, <1>5, <1>6, <1>7

LEMMA ArriveTypes ==
  ASSUME TypeOK, Arrive
  PROVE  TypeOK'
<1>1. ASSUME NEW p \in Parser, NEW kind \in Kinds[p], FeedHead(p, kind)
      PROVE  TypeOK'
  <2> DEFINE frame == Frame(p, begun[p] + 1, kind)
  <2>1. begun \in [Sender -> Nat] /\ begun' = [begun EXCEPT ![p] = begun[p] + 1] /\ p \in Sender
    BY <1>1 DEF TypeOK, FeedHead, Sender
  <2>2. /\ begun' \in [Sender -> Nat] /\ \A s \in Sender : begun[s] <= begun'[s]
        /\ begun'["alarm"] = begun["alarm"] /\ begun'[p] = begun[p] + 1
    BY <2>1 DEF Sender, Parser
  <2>3. Piece \subseteq Piece'  BY <2>2, PieceGrows
  <2>4. frame \in Piece'
    <3>1. begun[p] + 1 \in 1..begun'[p]  BY <2>1, <2>2
    <3>2. frame \in Own(p)'  BY <1>1, <3>1 DEF Own, FeedHead, Frame
    <3> QED  BY <3>2 DEF Piece
  <2>5. /\ parser \in [Parser -> [fed: 0..2, frame: Piece, body: Piece \X Piece]]
        /\ pc \in [Context -> [job: Job \cup {"none"}, at: Nat, frame: Piece]]
        /\ Written \subseteq Written'
    BY <2>3 DEF TypeOK, Written
  <2>6. parser' \in [Parser -> [fed: 0..2, frame: Piece', body: Piece' \X Piece']]
    <3>1. /\ parser'[p] = [fed |-> 1, frame |-> frame, body |-> <<frame, parser[p].body[2]>>]
          /\ \A q \in Parser : q # p => parser'[q] = parser[q]
          /\ parser' = [q \in Parser |-> parser'[q]]
      BY <1>1, FeedHeadParser
    <3> HIDE DEF frame
    <3>2. parser[p].body[2] \in Piece'  BY <2>3, <2>5
    <3>3. parser'[p] \in [fed: 0..2, frame: Piece', body: Piece' \X Piece']
      BY <2>4, <3>1, <3>2
    <3>4. \A q \in Parser : parser[q] \in [fed: 0..2, frame: Piece', body: Piece' \X Piece']
      BY <2>3, <2>5
    <3>5. \A q \in Parser : parser'[q] \in [fed: 0..2, frame: Piece', body: Piece' \X Piece']
      BY <3>1, <3>3, <3>4
    <3> QED  BY <3>1, <3>5
  <2>7. pc' \in [Context -> [job: Job \cup {"none"}, at: Nat, frame: Piece']]
    BY <1>1, <2>3, <2>5 DEF FeedHead
  <2>8. UNCHANGED <<kissFrame, scratch, char_rx_value, queued, card, uart, sent, pc, alarms,
                    query, events, faulted, hit>>
    BY <1>1 DEF FeedHead
  <2>9. /\ kissFrame \in [buffer: Parser \cup {"null"}, head: Piece']
        /\ scratch \in Piece' \X Piece' /\ char_rx_value \in Piece' \X Piece'
        /\ queued \in Piece' /\ uart \in Written' \X Written'
        /\ sent \in [for: Piece', head: Piece', tail: Piece']
        /\ hit \subseteq Piece'
    BY <2>3, <2>5 DEF TypeOK
  <2> QED  BY <2>2, <2>6, <2>7, <2>8, <2>9 DEF TypeOK
<1>2. ASSUME NEW p \in Parser, FeedTail(p)
      PROVE  TypeOK'
  <2>1. /\ UNCHANGED <<kissFrame, scratch, char_rx_value, queued, card, uart, sent, alarms, query,
                       begun, events, faulted, hit>>
        /\ pc' = CASE p = "tnc" -> pc
                   [] p = "ble" -> [pc EXCEPT !["main"] = Begin(p, parser[p].frame)]
                   [] p = "spp" -> [pc EXCEPT !["stack"] = Begin(p, parser[p].frame)]
    BY <1>2 DEF FeedTail
  <2>2. Piece' = Piece  BY <2>1, PieceKept
  <2>3. /\ parser \in [Parser -> [fed: 0..2, frame: Piece, body: Piece \X Piece]]
        /\ parser[p].frame \in Piece
    BY DEF TypeOK
  <2>4. parser' \in [Parser -> [fed: 0..2, frame: Piece, body: Piece \X Piece]]
    <3>0. parser'[p] = [fed |-> 2, frame |-> parser[p].frame,
                        body |-> <<parser[p].body[1], parser[p].frame>>]
      BY <1>2, FeedTailParser
    <3>1. parser'[p] \in [fed: 0..2, frame: Piece, body: Piece \X Piece]
      BY <2>3, <3>0
    <3>2. \A q \in Parser : parser'[q] \in [fed: 0..2, frame: Piece, body: Piece \X Piece]
      BY <1>2, <2>3, <3>1, FeedTailParser
    <3> QED  BY <1>2, <3>2, FeedTailParser
  <2>5. /\ pc' \in [Context -> [job: Job \cup {"none"}, at: Nat, frame: Piece]]
        /\ \A c \in Context :
             pc'[c] = Idle \/ (pc'[c].job \in Job /\ pc'[c].at \in DOMAIN Steps[pc'[c].job])
    <3>1. CASE p = "tnc"
      <4>1. pc' = pc  BY <2>1, <3>1
      <4> QED  BY <4>1 DEF TypeOK
    <3>2. CASE p = "ble"
      <4>1. pc' = [pc EXCEPT !["main"] = Begin("ble", parser[p].frame)]  BY <2>1, <3>2
      <4>2. "main" \in Context /\ "ble" \in Job  BY Jobs DEF Context
      <4> QED  BY <2>3, <4>1, <4>2, BeginType
    <3>3. CASE p = "spp"
      <4>1. pc' = [pc EXCEPT !["stack"] = Begin("spp", parser[p].frame)]  BY <2>1, <3>3
      <4>2. "stack" \in Context /\ "spp" \in Job  BY Jobs DEF Context
      <4> QED  BY <2>3, <4>1, <4>2, BeginType
    <3> QED  BY <3>1, <3>2, <3>3 DEF Parser
  <2> QED  BY <2>1, <2>2, <2>4, <2>5 DEF TypeOK, Written
<1> QED  BY <1>1, <1>2 DEF Arrive

\* A context that goes on, with nothing else that a type depends on.
LEMMA SkipTypes ==
  ASSUME TypeOK, NEW ctx \in Context, NEW n \in {1, 2, 5}, At(ctx) # "idle", Skip(ctx, n),
         begun' = begun
  PROVE  /\ pc' \in [Context -> [job: Job \cup {"none"}, at: Nat, frame: Piece]]
         /\ \A c \in Context :
              pc'[c] = Idle \/ (pc'[c].job \in Job /\ pc'[c].at \in DOMAIN Steps[pc'[c].job])
<1>1. pc[ctx] # Idle  BY Busy
<1>2. Piece' = Piece  BY PieceKept
<1> QED  BY <1>1, <1>2, SkipType

LEMMA MainTypes ==
  ASSUME TypeOK, CheckTnc \/ Offer \/ CopyHead \/ CopyTail \/ NoClient
  PROVE  TypeOK'
<1>1. UNCHANGED <<parser, kissFrame, scratch, card, uart, sent, alarms, query, begun, events,
                  faulted, hit>>
  BY DEF CheckTnc, Offer, CopyHead, CopyTail, NoClient, shared
<1>2. Piece' = Piece /\ Written' = Written  BY <1>1, PieceKept DEF Written
<1>3. "main" \in Context  BY DEF Context
<1>4. /\ pc' \in [Context -> [job: Job \cup {"none"}, at: Nat, frame: Piece]]
      /\ \A c \in Context :
           pc'[c] = Idle \/ (pc'[c].job \in Job /\ pc'[c].at \in DOMAIN Steps[pc'[c].job])
  <2>1. CASE CheckTnc
    <3>1. PICK job \in Job : pc' = [pc EXCEPT !["main"] = Begin(job, parser["tnc"].frame)]
      BY <2>1, Jobs DEF CheckTnc
    <3>2. parser["tnc"].frame \in Piece  BY DEF TypeOK, Parser
    <3> QED  BY <1>3, <3>1, <3>2, BeginType
  <2>2. CASE Offer
    <3>1. At("main") = "offer" /\ Skip("main", IF queued = Junk THEN 1 ELSE 1 + 2 * Copy)
      BY <2>2 DEF Offer
    <3>2. Skip("main", 1) \/ Skip("main", 5)
      <4>1. 1 + 2 * Copy = 5  BY DEF Copy
      <4> QED  BY <3>1, <4>1
    <3> QED  BY <1>1, <1>3, <3>1, <3>2, SkipTypes
  <2>3. CASE CopyHead \/ CopyTail
    <3>1. At("main") # "idle" /\ Skip("main", 1)  BY <2>3 DEF CopyHead, CopyTail, Do
    <3> QED  BY <1>1, <1>3, <3>1, SkipTypes
  <2>4. CASE NoClient
    <3>1. At("main") # "idle" /\ Skip("main", 2)  BY <2>4 DEF NoClient, Copy
    <3> QED  BY <1>1, <1>3, <3>1, SkipTypes
  <2> QED  BY <2>1, <2>2, <2>3, <2>4
<1>5. char_rx_value' \in Piece \X Piece /\ queued' \in Piece
  <2>1. /\ char_rx_value \in Piece \X Piece /\ queued \in Piece /\ pc["main"].frame \in Piece
        /\ scratch[1] \in Piece /\ scratch[2] \in Piece
    BY <1>3 DEF TypeOK
  <2>2. CASE CheckTnc \/ Offer \/ NoClient
    BY <2>1, <2>2 DEF CheckTnc, Offer, NoClient, shared
  <2>3. CASE CopyHead
    BY <2>1, <2>3 DEF CopyHead
  <2>4. CASE CopyTail
    BY <2>1, <2>4 DEF CopyTail
  <2> QED  BY <2>2, <2>3, <2>4
<1> QED  BY <1>1, <1>2, <1>4, <1>5 DEF TypeOK

LEMMA StackTypes ==
  ASSUME TypeOK, ConnectionEvent \/ Schedule \/ Forget \/ SendToClient
  PROVE  TypeOK'
<1>1. UNCHANGED <<parser, kissFrame, scratch, char_rx_value, card, uart, query, begun, faulted, hit>>
  BY DEF ConnectionEvent, Schedule, Forget, SendToClient, shared
<1>2. Piece' = Piece /\ Written' = Written /\ Junk \in Piece
  BY <1>1, PieceKept DEF Written, Piece
<1>3. "stack" \in Context  BY DEF Context
<1>4. /\ pc' \in [Context -> [job: Job \cup {"none"}, at: Nat, frame: Piece]]
      /\ \A c \in Context :
           pc'[c] = Idle \/ (pc'[c].job \in Job /\ pc'[c].at \in DOMAIN Steps[pc'[c].job])
  <2>1. CASE ConnectionEvent
    <3>1. PICK job \in Job : pc' = [pc EXCEPT !["stack"] = Begin(job, Junk)]
      BY <2>1, Jobs DEF ConnectionEvent
    <3> QED  BY <1>2, <1>3, <3>1, BeginType
  <2>2. CASE Schedule \/ Forget
    <3>1. At("stack") # "idle" /\ Skip("stack", 1)  BY <2>2 DEF Schedule, Forget, Do
    <3> QED  BY <1>1, <1>3, <3>1, SkipTypes
  <2>3. CASE SendToClient
    BY <2>3 DEF SendToClient, TypeOK
  <2> QED  BY <2>1, <2>2, <2>3
<1>5. /\ queued' \in Piece /\ sent' \in [for: Piece, head: Piece, tail: Piece]
      /\ events' \in 0..MaxEvents
  <2>1. /\ queued \in Piece /\ sent \in [for: Piece, head: Piece, tail: Piece]
        /\ char_rx_value[1] \in Piece /\ char_rx_value[2] \in Piece /\ events \in 0..MaxEvents
    BY DEF TypeOK
  <2>2. CASE ConnectionEvent
    <3>1. /\ begun["tnc"] \in Nat /\ begun["ble"] \in Nat /\ begun["spp"] \in Nat
      BY DEF TypeOK, Sender, Parser
    <3>2. events' = events + 1 /\ UNCHANGED <<queued, sent>>
          /\ begun["tnc"] + begun["ble"] + begun["spp"] + events < MaxEvents
      BY <2>2 DEF ConnectionEvent, shared, More
    <3>3. events' \in 0..MaxEvents  BY <2>1, <3>1, <3>2, BridgeAssumption
    <3> QED  BY <2>1, <3>2, <3>3
  <2>3. CASE Schedule \/ Forget
    BY <1>2, <2>1, <2>3 DEF Schedule, Forget, shared
  <2>4. CASE SendToClient
    BY <1>2, <2>1, <2>4 DEF SendToClient
  <2> QED  BY <2>2, <2>3, <2>4
<1>6. alarms' \in Nat /\ alarms' + begun'["alarm"] <= MaxAlarms
  <2>1. AddAlarm \/ alarms' = alarms  BY DEF ConnectionEvent, Schedule, Forget, SendToClient
  <2> QED  BY <1>1, <2>1, AddAlarmType
<1> QED  BY <1>1, <1>2, <1>4, <1>5, <1>6 DEF TypeOK

LEMMA QueryTypes ==
  ASSUME TypeOK, QueryTnc
  PROVE  TypeOK'
<1>1. UNCHANGED <<parser, kissFrame, scratch, char_rx_value, queued, card, sent, pc, alarms,
                  begun, events, faulted>>
  BY DEF QueryTnc
<1>2. Piece' = Piece /\ Written' = Written /\ Query \in Piece
  BY <1>1, PieceKept DEF Written, Piece
<1>3. hit' \subseteq Piece
  <2>1. \A ctx \in Context : pc[ctx].frame \in Piece  BY DEF TypeOK
  <2> QED  BY <2>1 DEF QueryTnc, TypeOK
<1>4. uart' \in Written \X Written
  <2>1. [for |-> Query, half |-> 0, is |-> Query] \in Written  BY <1>2 DEF Written
  <2> QED  BY <2>1 DEF QueryTnc, TypeOK
<1>5. query' \in BOOLEAN  BY DEF QueryTnc
<1> QED  BY <1>1, <1>2, <1>3, <1>4, <1>5 DEF TypeOK

\* The status frame in the parser of the last frame read.
LEMMA AlarmParser ==
  ASSUME TypeOK, NEW pieces, kissFrame.buffer # "null",
         parser' = [parser EXCEPT ![kissFrame.buffer].body = pieces]
  PROVE  LET p == kissFrame.buffer
         IN  /\ p \in Parser
             /\ parser'[p] = [fed |-> parser[p].fed, frame |-> parser[p].frame, body |-> pieces]
             /\ \A q \in Parser : q # p => parser'[q] = parser[q]
             /\ DOMAIN parser' = Parser /\ parser' = [q \in Parser |-> parser'[q]]
<1> DEFINE p == kissFrame.buffer
<1>1. parser \in [Parser -> [fed: 0..2, frame: Piece, body: Piece \X Piece]]  BY DEF TypeOK
<1>2. p \in Parser
  <2>1. kissFrame \in [buffer: Parser \cup {"null"}, head: Piece]  BY DEF TypeOK
  <2> QED  BY <2>1
<1>3. parser' = [parser EXCEPT ![p].body = pieces]  OBVIOUS
<1> HIDE DEF p
<1>4. parser[p] \in [fed: 0..2, frame: Piece, body: Piece \X Piece]  BY <1>1, <1>2
<1>5. parser'[p] = [fed |-> parser[p].fed, frame |-> parser[p].frame, body |-> pieces]
  BY <1>1, <1>2, <1>3, <1>4
<1>6. \A q \in Parser : q # p => parser'[q] = parser[q]  BY <1>1, <1>3
<1>7. DOMAIN parser' = Parser /\ parser' = [q \in Parser |-> parser'[q]]  BY <1>1, <1>3
<1> QED  BY <1>2, <1>5, <1>6, <1>7 DEF p

LEMMA AlarmTypes ==
  ASSUME TypeOK, SendOurInfo
  PROVE  TypeOK'
<1> DEFINE frame  == Frame("alarm", begun["alarm"] + 1, "status")
           null   == kissFrame.buffer = "null"
           pieces == IF null THEN <<Junk, Junk>> ELSE <<frame, frame>>
<1>1. /\ UNCHANGED <<card, uart, sent, pc, query, events>>
      /\ alarms > 0 /\ alarms' = alarms - 1 /\ begun' = [begun EXCEPT !["alarm"] = begun["alarm"] + 1]
  BY DEF SendOurInfo
<1>2. begun \in [Sender -> Nat] /\ "alarm" \in Sender  BY DEF TypeOK, Sender
<1>3. /\ begun' \in [Sender -> Nat] /\ \A s \in Sender : begun[s] <= begun'[s]
      /\ begun'["alarm"] = begun["alarm"] + 1
  BY <1>1, <1>2
<1>4. Piece \subseteq Piece'  BY <1>3, PieceGrows
<1>5. frame \in Piece' /\ Junk \in Piece'
  <2>1. begun["alarm"] + 1 \in 1..begun'["alarm"]  BY <1>2, <1>3
  <2>2. frame \in [from: {"alarm"}, n: 1..begun'["alarm"], kind: {"status"}]
    BY <2>1 DEF Frame
  <2> HIDE DEF frame
  <2>3. frame \in Piece'  BY <2>2 DEF Piece
  <2>4. Junk \in Piece'  BY DEF Piece
  <2> QED  BY <2>3, <2>4
<1>6. pieces \in Piece' \X Piece'  BY <1>5
<1>7. alarms' \in Nat /\ alarms' + begun'["alarm"] <= MaxAlarms
  BY <1>1, <1>2, <1>3, BridgeAssumption DEF TypeOK
<1>8. /\ parser \in [Parser -> [fed: 0..2, frame: Piece', body: Piece' \X Piece']]
      /\ kissFrame \in [buffer: Parser \cup {"null"}, head: Piece']
      /\ scratch \in Piece' \X Piece' /\ char_rx_value \in Piece' \X Piece'
      /\ queued \in Piece' /\ card \in {"free"} \cup Context
      /\ Written \subseteq Written'
      /\ sent \in [for: Piece', head: Piece', tail: Piece']
      /\ pc \in [Context -> [job: Job \cup {"none"}, at: Nat, frame: Piece']]
      /\ hit \subseteq Piece'
  BY <1>4 DEF TypeOK, Written
<1>9. /\ parser' \in [Parser -> [fed: 0..2, frame: Piece', body: Piece' \X Piece']]
      /\ kissFrame' \in [buffer: Parser \cup {"null"}, head: Piece']
      /\ scratch' \in Piece' \X Piece' /\ char_rx_value' \in Piece' \X Piece'
      /\ queued' \in Piece' /\ hit' \subseteq Piece' /\ faulted' \in BOOLEAN
  <2>1. CASE /\ null /\ faulted' = TRUE
             /\ UNCHANGED <<parser, kissFrame, scratch, queued, char_rx_value, hit>>
    BY <1>8, <2>1
  <2>2. CASE /\ UNCHANGED faulted
             /\ parser' = IF null THEN parser ELSE [parser EXCEPT ![kissFrame.buffer].body = pieces]
             /\ kissFrame' = [kissFrame EXCEPT !.head = frame]
             /\ scratch' = pieces
             /\ OfferAtOnce(frame, pieces)
             /\ hit' = hit \cup Disturbed(frame) \cup (IF null THEN {frame} ELSE {})
    <3>1. Disturbed(frame) \subseteq Piece'
      <4>1. \A ctx \in Context : pc[ctx].frame \in Piece'  BY <1>8
      <4>2. \A p \in Parser : parser[p].frame \in Piece'  BY <1>8
      <4> HIDE DEF frame
      <4> QED  BY <1>5, <4>1, <4>2 DEF Disturbed, InWindow
    <3>2. parser' \in [Parser -> [fed: 0..2, frame: Piece', body: Piece' \X Piece']]
      <4>1. CASE null
        BY <1>8, <2>2, <4>1
      <4>2. CASE ~null
        <5> DEFINE p == kissFrame.buffer
        <5>1. parser' = [parser EXCEPT ![kissFrame.buffer].body = pieces]  BY <2>2, <4>2
        <5> HIDE DEF pieces
        <5>2. /\ p \in Parser
              /\ parser'[p] = [fed |-> parser[p].fed, frame |-> parser[p].frame, body |-> pieces]
              /\ \A q \in Parser : q # p => parser'[q] = parser[q]
              /\ parser' = [q \in Parser |-> parser'[q]]
          BY <4>2, <5>1, AlarmParser
        <5> HIDE DEF p
        <5>3. parser'[p] \in [fed: 0..2, frame: Piece', body: Piece' \X Piece']
          BY <1>6, <1>8, <5>2
        <5>4. \A q \in Parser : parser'[q] \in [fed: 0..2, frame: Piece', body: Piece' \X Piece']
          BY <1>8, <5>2, <5>3
        <5> QED  BY <5>2, <5>4
      <4> QED  BY <4>1, <4>2
    <3> HIDE DEF frame, pieces, null
    <3>3. kissFrame' \in [buffer: Parser \cup {"null"}, head: Piece']  BY <1>5, <1>8, <2>2
    <3>4. char_rx_value' \in Piece' \X Piece' /\ queued' \in Piece'
      BY <1>5, <1>6, <1>8, <2>2 DEF OfferAtOnce
    <3>5. hit' \subseteq Piece'  BY <1>5, <1>8, <2>2, <3>1
    <3> QED  BY <1>6, <2>2, <3>2, <3>3, <3>4, <3>5 DEF TypeOK
  <2> QED  BY <2>1, <2>2 DEF SendOurInfo
<1>10. uart' \in Written' \X Written'  BY <1>1, <1>8 DEF TypeOK
<1> QED  BY <1>1, <1>3, <1>7, <1>8, <1>9, <1>10 DEF TypeOK

LEMMA TypesKept ==
  ASSUME TypeOK, [Next]_vars
  PROVE  TypeOK'
<1>1. CASE UNCHANGED vars
  <2>1. Piece' = Piece  BY <1>1, PieceKept DEF vars
  <2> QED  BY <1>1, <2>1 DEF TypeOK, vars, shared, Written
<1>2. CASE Next
  <2>1. "main" \in Context /\ "stack" \in Context  BY DEF Context
  <2> QED  BY <1>2, <2>1, ArriveTypes, RelayTypes, MainTypes, StackTypes, QueryTypes, AlarmTypes
           DEF Next, Main, Stack, Alarm
<1> QED  BY <1>1, <1>2

---------------------------------------------------------------------------
(* How the contexts move.                                                  *)

LEMMA Same ==
  ASSUME NEW ctx \in Context, pc'[ctx] = pc[ctx]
  PROVE  At(ctx)' = At(ctx) /\ Window(ctx)' = Window(ctx)
BY DEF At, Window

\* Offer and NoClient leave out the copies, and end at the next copy or the last step.
LEMMA Leap ==
  ASSUME TypeOK, Offer \/ NoClient
  PROVE  /\ pc["main"] # Idle /\ Runs("main") /\ pc'["stack"] = pc["stack"]
         /\ pc'["main"] # Idle
         /\ pc'["main"].job = pc["main"].job /\ pc'["main"].frame = pc["main"].frame
         /\ At("main")' \in {"copy", "init"}
         /\ At("main") = "offer" /\ At("main")' = "copy" => queued = Junk
         /\ At("main") \in {"offer", "copy"} /\ Window("main")
<1> DEFINE at == pc["main"].at
<1>1. "main" \in Context /\ "stack" \in Context  BY DEF Context
<1>2. Runs("main") /\ At("main") \in {"offer", "copy"}  BY DEF Offer, NoClient
<1>3. Window("main") /\ pc["main"].job = "tnc"  BY <1>1, <1>2, Labels DEF Half1
<1>4. pc["main"] # Idle  BY <1>1, <1>2, Busy
<1>5. at \in 1..15 /\ At("main") = Steps["tnc"][at]  BY <1>1, <1>3, <1>4, Busy, Lengths
<1>6. PICK n \in {1, 2, 5} :
        /\ Skip("main", n)
        /\ \/ At("main") = "offer" /\ n = 1 /\ queued = Junk
           \/ At("main") = "offer" /\ n = 5
           \/ At("main") = "copy" /\ n = 2
  <2>1. 1 + 2 * Copy = 5 /\ Copy = 2  BY DEF Copy
  <2> QED  BY <2>1 DEF Offer, NoClient
<1>7. /\ pc'["stack"] = pc["stack"]
      /\ at + n <= 15 => pc'["main"] = [job |-> "tnc", at |-> at + n, frame |-> pc["main"].frame]
  <2>1. Len(Steps[pc["main"].job]) = 15  BY <1>3, Lengths
  <2>2. /\ \A other \in Context : other # "main" => pc'[other] = pc[other]
        /\ at + n <= 15 =>
             pc'["main"] = [job |-> pc["main"].job, at |-> at + n, frame |-> pc["main"].frame]
    BY <1>1, <1>4, <1>6, <2>1, SkipField
  <2> QED  BY <1>1, <1>3, <2>2
<1> HIDE DEF at
<1>8. /\ at + n <= 15 /\ Steps["tnc"][at + n] \in {"copy", "init"}
      /\ At("main") = "offer" /\ Steps["tnc"][at + n] = "copy" => n = 1
  <2>1. at \in {10, 11, 13}  BY <1>2, <1>5, RxTable
  <2>2. at = 10 => At("main") = "offer"  BY <1>5, RxTable
  <2>3. at \in {11, 13} => At("main") = "copy"  BY <1>5, RxTable
  <2>4. (at = 10 /\ n \in {1, 5}) \/ (at \in {11, 13} /\ n = 2)  BY <1>6, <2>1, <2>2, <2>3
  <2>5. at + n \in {11, 13, 15} /\ (at = 10 => at + n \in {11, 15}) /\ (at = 10 /\ at + n = 11 => n = 1)
    BY <2>4
  <2> QED  BY <2>1, <2>3, <2>5, RxTable
<1>9. pc'["main"] = [job |-> "tnc", at |-> at + n, frame |-> pc["main"].frame]  BY <1>7, <1>8
<1>10. pc'["main"].job = "tnc" /\ pc'["main"].at = at + n /\ pc'["main"].frame = pc["main"].frame
  BY <1>9
<1>11. pc'["main"] # Idle  BY <1>10 DEF Idle
<1>12. At("main")' = Steps["tnc"][at + n]  BY <1>10, <1>11 DEF At
<1>13. At("main") = "offer" /\ At("main")' = "copy" => queued = Junk
  BY <1>6, <1>8, <1>12
<1> QED  BY <1>2, <1>3, <1>4, <1>7, <1>8, <1>10, <1>11, <1>12, <1>13

\* A context goes on with its job.
Advance(ctx) ==
  \/ Relay(ctx)
  \/ ctx = "main" /\ (Offer \/ CopyHead \/ CopyTail \/ NoClient)
  \/ ctx = "stack" /\ (Schedule \/ Forget)

LEMMA Advances ==
  ASSUME TypeOK, NEW ctx \in Context, Advance(ctx)
  PROVE  /\ pc[ctx] # Idle /\ Runs(ctx)
         /\ \A other \in Context : other # ctx => pc'[other] = pc[other]
         /\ At(ctx) \in {"init", "schedule", "forget"} <=> pc'[ctx] = Idle
         /\ pc'[ctx] # Idle =>
              /\ pc'[ctx].job = pc[ctx].job /\ pc'[ctx].frame = pc[ctx].frame
              /\ At(ctx)' # "read"
              /\ At(ctx)' = "encodeTail" => At(ctx) = "encode"
              /\ At(ctx)' \in {"offer", "uart"} => At(ctx) = "encodeTail"
              /\ At(ctx)' = "uartTail" => At(ctx) = "uart"
              /\ At(ctx)' = "copy" => At(ctx) \in {"offer", "copyTail", "copy"}
              /\ At(ctx)' = "copyTail" => At(ctx) = "copy"
              /\ Window(ctx)' => At(ctx) = "read" \/ Window(ctx)
<1>1. CASE \E step : step # "idle" /\ Do(ctx, step)
  <2>1. pc[ctx] # Idle /\ Skip(ctx, 1) /\ Runs(ctx)  BY <1>1, DoStep
  <2> QED  BY <2>1, Follows
<1>2. CASE ctx = "main" /\ (Offer \/ NoClient)
  <2>1. "main" \in Context /\ Context = {"main", "stack"}  BY DEF Context
  <2> QED  BY <1>2, <2>1, Leap
<1>3. Relay(ctx) => \E step : step # "idle" /\ Do(ctx, step)
  BY DEF Relay, Read, Encode, Display, Text, Lock, Unlock, WriteUart, InitParser
<1>4. ctx = "main" /\ (CopyHead \/ CopyTail) => \E step : step # "idle" /\ Do(ctx, step)
  BY DEF CopyHead, CopyTail
<1>5. ctx = "stack" /\ (Schedule \/ Forget) => \E step : step # "idle" /\ Do(ctx, step)
  BY DEF Schedule, Forget
<1> QED  BY <1>1, <1>2, <1>3, <1>4, <1>5 DEF Advance

\* A context begins a job.
LEMMA Begins ==
  ASSUME TypeOK, NEW ctx \in Context, NEW entry, pc' = [pc EXCEPT ![ctx] = entry]
  PROVE  pc'[ctx] = entry /\ \A other \in Context : other # ctx => pc'[other] = pc[other]
<1>1. pc \in [Context -> [job: Job \cup {"none"}, at: Nat, frame: Piece]]  BY DEF TypeOK
<1> QED  BY <1>1

\* Its first step is not in a window.
LEMMA BeginSteps ==
  ASSUME TypeOK, NEW ctx \in Context, pc'[ctx].job \in Job, pc'[ctx].at = 1
  PROVE  /\ ~Window(ctx)'
         /\ pc'[ctx].job \in DOMAIN Relays => At(ctx)' = "read"
         /\ pc'[ctx].job \notin DOMAIN Relays => At(ctx)' = "lock"
<1> DEFINE job == pc'[ctx].job
<1>4. pc'[ctx] # Idle  BY Jobs DEF Idle
<1>5. At(ctx)' = Steps[job][1]  BY <1>4 DEF At
<1>6. /\ job \in DOMAIN Relays => Steps[job][1] = "read"
      /\ job \notin DOMAIN Relays => Steps[job][1] = "lock"
  <2>1. CASE job \in {"ble", "spp"}  BY <2>1, TxTable, RelaysIs
  <2>2. CASE job \notin {"ble", "spp"}  BY <2>2, RxTable, OtherTable, RelaysIs, Jobs
  <2> QED  BY <2>1, <2>2
<1>7. ~Window(ctx)'
  <2>1. job \in {"tnc", "ble", "spp"} => At(ctx)' = "read"  BY <1>5, <1>6, RelaysIs
  <2> QED  BY <2>1 DEF Window
<1> QED  BY <1>5, <1>6, <1>7

---------------------------------------------------------------------------
(* Which frames the contexts hold.                                         *)

LEMMA Relayed ==
  ASSUME TypeOK, JobInv, NEW ctx \in Context, pc[ctx].job \in DOMAIN Relays
  PROVE  LET p == Relays[pc[ctx].job]
         IN  /\ p \in Parser /\ parser[p].fed = 2 /\ parser[p].frame = pc[ctx].frame
             /\ pc[ctx].frame.from = p /\ (p = "spp" <=> ctx = "stack")
<1>1. Relays[pc[ctx].job] \in Parser  BY RelaysType
<1>2. Held(ctx)  BY DEF JobInv
<1>3. ctx = "main" => pc[ctx].job \in {"tnc", "version", "ble"}  BY RelaysIs DEF JobInv
<1>4. ctx = "stack" => pc[ctx].job = "spp"  BY RelaysIs DEF JobInv
<1>5. Relays[pc[ctx].job] = "spp" <=> ctx = "stack"  BY <1>3, <1>4, RelaysIs DEF Context
<1>6. parser[Relays[pc[ctx].job]].fed = 2 /\ parser[Relays[pc[ctx].job]].frame = pc[ctx].frame
  BY <1>2 DEF Held
<1>7. pc[ctx].frame.from = Relays[pc[ctx].job]  BY <1>1, <1>6 DEF JobInv
<1> QED  BY <1>1, <1>5, <1>6, <1>7

\* A frame that a context and a parser have in common is the one that the context relays.
LEMMA FrameOf ==
  ASSUME TypeOK, JobInv, NEW ctx \in Context, NEW p \in Parser, parser[p].fed > 0,
         pc[ctx].frame = parser[p].frame
  PROVE  /\ pc[ctx].job \in DOMAIN Relays /\ Relays[pc[ctx].job] = p
         /\ parser[p].fed = 2 /\ (p = "spp" <=> ctx = "stack")
<1>1. parser[p].frame.from = p  BY DEF JobInv
<1>2. Junk.from = "none" /\ "none" \notin Parser  BY DEF Junk, Frame, Parser
<1>3. pc[ctx].job \in DOMAIN Relays
  <2>1. pc[ctx].frame # Junk  BY <1>1, <1>2
  <2> QED  BY <2>1 DEF JobInv, Held
<1> QED  BY <1>1, <1>3, Relayed

\* No context relays a frame that is not complete.
LEMMA Unheld ==
  ASSUME TypeOK, JobInv, NEW p \in Parser, parser[p].fed # 2, NEW ctx \in Context
  PROVE  /\ pc[ctx].job \in DOMAIN Relays => Relays[pc[ctx].job] # p
         /\ parser[p].fed > 0 => pc[ctx].frame # parser[p].frame
BY Relayed, FrameOf

LEMMA ParserAdvances ==
  ASSUME TypeOK, NEW ctx \in Context, Advance(ctx)
  PROVE  \/ At(ctx) # "init" /\ parser' = parser
         \/ LET p == Relays[pc[ctx].job]
            IN  /\ At(ctx) = "init" /\ pc[ctx].job \in DOMAIN Relays /\ p \in Parser
                /\ parser'[p].fed = 0
                /\ \A q \in Parser : q # p => parser'[q] = parser[q]
<1>1. CASE InitParser(ctx)
  <2> DEFINE p == Relays[pc[ctx].job]
  <2>1. At(ctx) = "init"  BY <1>1, DoStep DEF InitParser
  <2>2. pc[ctx].job \in DOMAIN Relays /\ p \in Parser  BY <2>1, Labels, RelaysType
  <2>3. parser' = [parser EXCEPT ![p].fed = 0]  BY <1>1 DEF InitParser
  <2>4. parser \in [Parser -> [fed: 0..2, frame: Piece, body: Piece \X Piece]]  BY DEF TypeOK
  <2> HIDE DEF p
  <2>5. parser'[p].fed = 0 /\ \A q \in Parser : q # p => parser'[q] = parser[q]
    BY <2>2, <2>3, <2>4
  <2> QED  BY <2>1, <2>2, <2>5 DEF p
<1>2. CASE Relay(ctx) /\ ~InitParser(ctx)
  <2>1. \E step \in {"read", "encode", "encodeTail", "display", "text", "lock", "unlock", "uart",
                     "uartTail"} : Do(ctx, step)
    BY <1>2 DEF Relay, Read, Encode, Display, Text, Lock, Unlock, WriteUart
  <2>2. At(ctx) # "init"  BY <2>1 DEF Do
  <2>3. parser' = parser
    BY <1>2 DEF Relay, Read, Encode, Display, Text, Lock, Unlock, WriteUart, shared
  <2> QED  BY <2>2, <2>3
<1>3. CASE ctx = "main" /\ (Offer \/ CopyHead \/ CopyTail \/ NoClient)
  <2>1. At(ctx) \in {"offer", "copy", "copyTail"}
    BY <1>3 DEF Offer, CopyHead, CopyTail, NoClient, Do
  <2>2. parser' = parser  BY <1>3 DEF Offer, CopyHead, CopyTail, NoClient, shared
  <2> QED  BY <2>1, <2>2
<1>4. CASE ctx = "stack" /\ (Schedule \/ Forget)
  BY <1>4 DEF Schedule, Forget, Do, shared
<1> QED  BY <1>1, <1>2, <1>3, <1>4 DEF Advance

LEMMA ArriveJob ==
  ASSUME TypeOK, JobInv, Arrive
  PROVE  JobInv'
<1>1. ASSUME NEW p \in Parser, NEW kind \in Kinds[p], FeedHead(p, kind)
      PROVE  JobInv'
  <2>1. /\ parser[p].fed = 0 /\ pc' = pc
        /\ parser'[p].frame.from = p
        /\ \A q \in Parser : q # p => parser'[q] = parser[q]
    <3>1. Frame(p, begun[p] + 1, kind).from = p  BY DEF Frame
    <3>2. parser[p].fed = 0 /\ pc' = pc  BY <1>1 DEF FeedHead
    <3> QED  BY <1>1, <3>1, <3>2, FeedHeadParser
  <2>2. ASSUME NEW ctx \in Context
        PROVE  Held(ctx)'
    <3>1. Held(ctx)  BY DEF JobInv
    <3>2. pc[ctx].job \in DOMAIN Relays => Relays[pc[ctx].job] \in Parser \ {p}
      BY <2>1, Unheld, RelaysType
    <3> QED  BY <2>1, <3>1, <3>2 DEF Held
  <2> QED  BY <2>1, <2>2 DEF JobInv
<1>2. ASSUME NEW p \in Parser, FeedTail(p)
      PROVE  JobInv'
  <2>1. /\ parser[p].fed = 1 /\ parser'[p].fed = 2 /\ parser'[p].frame = parser[p].frame
        /\ \A q \in Parser : q # p => parser'[q] = parser[q]
    <3>1. parser[p].fed = 1  BY <1>2 DEF FeedTail
    <3>2. /\ parser'[p] = [fed |-> 2, frame |-> parser[p].frame,
                           body |-> <<parser[p].body[1], parser[p].frame>>]
          /\ \A q \in Parser : q # p => parser'[q] = parser[q]
      BY <1>2, FeedTailParser
    <3> QED  BY <3>1, <3>2
  <2>2. ASSUME NEW ctx \in Context, pc'[ctx] = pc[ctx]
        PROVE  Held(ctx)'
    <3>1. Held(ctx)  BY DEF JobInv
    <3>2. pc[ctx].job \in DOMAIN Relays => Relays[pc[ctx].job] \in Parser \ {p}
      BY <2>1, Unheld, RelaysType
    <3> QED  BY <2>1, <2>2, <3>1, <3>2 DEF Held
  <2>3. \A q \in Parser : parser'[q].fed > 0 => parser'[q].frame.from = q  BY <2>1 DEF JobInv
  <2>4. CASE p = "tnc"
    <3>1. pc' = pc  BY <1>2, <2>4 DEF FeedTail
    <3> QED  BY <2>2, <2>3, <3>1 DEF JobInv
  <2>5. CASE p = "ble"
    <3>1. pc' = [pc EXCEPT !["main"] = Begin("ble", parser[p].frame)]  BY <1>2, <2>5 DEF FeedTail
    <3>2. "main" \in Context /\ "stack" \in Context /\ "ble" \in Job  BY Jobs DEF Context
    <3>6. /\ pc'["main"] = Begin("ble", parser[p].frame)
          /\ \A c \in Context : c # "main" => pc'[c] = pc[c]
      BY <3>1, <3>2, Begins
    <3>3. pc'["main"].job = "ble" /\ pc'["main"].frame = parser[p].frame
      BY <3>6 DEF Begin
    <3>4. Held("main")'  BY <2>1, <2>5, <3>3, RelaysIs DEF Held
    <3>5. Held("stack")'  BY <2>2, <3>2, <3>6
    <3> QED  BY <2>3, <3>2, <3>6, <3>3, <3>4, <3>5 DEF JobInv, Context
  <2>6. CASE p = "spp"
    <3>1. pc' = [pc EXCEPT !["stack"] = Begin("spp", parser[p].frame)]  BY <1>2, <2>6 DEF FeedTail
    <3>2. "main" \in Context /\ "stack" \in Context /\ "spp" \in Job  BY Jobs DEF Context
    <3>6. /\ pc'["stack"] = Begin("spp", parser[p].frame)
          /\ \A c \in Context : c # "stack" => pc'[c] = pc[c]
      BY <3>1, <3>2, Begins
    <3>3. pc'["stack"].job = "spp" /\ pc'["stack"].frame = parser[p].frame
      BY <3>6 DEF Begin
    <3>4. Held("stack")'  BY <2>1, <2>6, <3>3, RelaysIs DEF Held
    <3>5. Held("main")'  BY <2>2, <3>2, <3>6
    <3> QED  BY <2>3, <3>2, <3>6, <3>3, <3>4, <3>5 DEF JobInv, Context
  <2> QED  BY <2>4, <2>5, <2>6 DEF Parser
<1> QED  BY <1>1, <1>2 DEF Arrive

LEMMA AdvanceJob ==
  ASSUME TypeOK, JobInv, NEW ctx \in Context, Advance(ctx)
  PROVE  JobInv'
<1> DEFINE p == Relays[pc[ctx].job]
<1>1. /\ \A other \in Context : other # ctx => pc'[other] = pc[other]
      /\ At(ctx) \in {"init", "schedule", "forget"} <=> pc'[ctx] = Idle
      /\ pc'[ctx] # Idle => pc'[ctx].job = pc[ctx].job /\ pc'[ctx].frame = pc[ctx].frame
  BY Advances
<1>2. \/ At(ctx) # "init" /\ parser' = parser
      \/ /\ At(ctx) = "init" /\ pc[ctx].job \in DOMAIN Relays /\ p \in Parser
         /\ parser'[p].fed = 0
         /\ \A q \in Parser : q # p => parser'[q] = parser[q]
  BY ParserAdvances
<1>3. Idle.job = "none" /\ Idle.frame = Junk /\ "none" \notin DOMAIN Relays
  BY RelaysIs DEF Idle
<1>4. Held(ctx)'
  <2>1. CASE pc'[ctx] = Idle
    BY <1>3, <2>1 DEF Held
  <2>2. CASE pc'[ctx] # Idle
    <3>1. parser' = parser  BY <1>1, <1>2, <2>2
    <3>2. Held(ctx)  BY DEF JobInv
    <3> QED  BY <1>1, <2>2, <3>1, <3>2 DEF Held
  <2> QED  BY <2>1, <2>2
<1>5. ASSUME NEW other \in Context, other # ctx
      PROVE  Held(other)'
  <2>1. Held(other) /\ pc'[other] = pc[other]  BY <1>1, <1>5 DEF JobInv
  <2>2. CASE parser' = parser
    BY <2>1, <2>2 DEF Held
  <2>3. CASE /\ pc[ctx].job \in DOMAIN Relays
             /\ \A q \in Parser : q # p => parser'[q] = parser[q]
    <3>1. pc[other].job \in DOMAIN Relays =>
            Relays[pc[other].job] # p /\ Relays[pc[other].job] \in Parser
      BY <1>5, <2>3, Relayed DEF Context
    <3> QED  BY <2>1, <2>3, <3>1 DEF Held
  <2> QED  BY <1>2, <2>2, <2>3
<1>6. \A q \in Parser : parser'[q].fed > 0 => parser'[q].frame.from = q
  BY <1>2 DEF JobInv
<1>7. /\ pc'["main"].job \in {"none", "tnc", "version", "ble"}
      /\ pc'["stack"].job \in {"none", "spp", "connect", "disconnect"}
  <2>1. \A c \in Context : pc'[c].job \in {"none", pc[c].job}  BY <1>1, <1>3
  <2> QED  BY <2>1 DEF JobInv, Context
<1> QED  BY <1>4, <1>5, <1>6, <1>7 DEF JobInv

\* The alarm changes the body of a parser, not what it is of.
LEMMA AlarmFields ==
  ASSUME TypeOK, Alarm
  PROVE  /\ \A p \in Parser : parser'[p].fed = parser[p].fed /\ parser'[p].frame = parser[p].frame
         /\ pc' = pc /\ hit \subseteq hit'
<1>1. pc' = pc /\ hit \subseteq hit'  BY DEF Alarm, QueryTnc, SendOurInfo
<1>2. \/ parser' = parser
      \/ /\ kissFrame.buffer # "null"
         /\ \E pieces : parser' = [parser EXCEPT ![kissFrame.buffer].body = pieces]
  BY DEF Alarm, QueryTnc, SendOurInfo
<1>3. ASSUME kissFrame.buffer # "null", NEW pieces,
             parser' = [parser EXCEPT ![kissFrame.buffer].body = pieces]
      PROVE  \A p \in Parser : parser'[p].fed = parser[p].fed /\ parser'[p].frame = parser[p].frame
  <2> DEFINE b == kissFrame.buffer
  <2>1. /\ b \in Parser
        /\ parser'[b] = [fed |-> parser[b].fed, frame |-> parser[b].frame, body |-> pieces]
        /\ \A q \in Parser : q # b => parser'[q] = parser[q]
    BY <1>3, AlarmParser
  <2> HIDE DEF b
  <2> QED  BY <2>1
<1> QED  BY <1>1, <1>2, <1>3

LEMMA JobKept ==
  ASSUME TypeOK, JobInv, [Next]_vars
  PROVE  JobInv'
<1>1. CASE UNCHANGED vars
  BY <1>1 DEF vars, shared, JobInv, Held
<1>2. CASE CheckTnc
  <2>1. PICK job \in {"tnc", "version"} : pc' = [pc EXCEPT !["main"] = Begin(job, parser["tnc"].frame)]
    BY <1>2 DEF CheckTnc
  <2>2. "main" \in Context /\ "stack" \in Context  BY DEF Context
  <2>3. /\ pc'["main"] = Begin(job, parser["tnc"].frame)
        /\ \A other \in Context : other # "main" => pc'[other] = pc[other]
    BY <2>1, <2>2, Begins
  <2>4. pc'["main"].job = job /\ pc'["main"].frame = parser["tnc"].frame  BY <2>3 DEF Begin
  <2>5. parser' = parser /\ parser["tnc"].fed = 2  BY <1>2 DEF CheckTnc, shared
  <2>6. Held("main")'  BY <2>4, <2>5, RelaysIs DEF Held
  <2>7. Held("stack")'  BY <2>2, <2>3, <2>5 DEF Held, JobInv
  <2> QED  BY <2>2, <2>3, <2>4, <2>5, <2>6, <2>7 DEF JobInv, Context
<1>3. CASE ConnectionEvent
  <2>1. PICK job \in {"connect", "disconnect"} : pc' = [pc EXCEPT !["stack"] = Begin(job, Junk)]
    BY <1>3 DEF ConnectionEvent
  <2>2. "main" \in Context /\ "stack" \in Context  BY DEF Context
  <2>3. /\ pc'["stack"] = Begin(job, Junk)
        /\ \A other \in Context : other # "stack" => pc'[other] = pc[other]
    BY <2>1, <2>2, Begins
  <2>4. pc'["stack"].job = job /\ pc'["stack"].frame = Junk  BY <2>3 DEF Begin
  <2>5. parser' = parser  BY <1>3 DEF ConnectionEvent, shared
  <2>6. Held("stack")'  BY <2>4, RelaysIs DEF Held
  <2>7. Held("main")'  BY <2>2, <2>3, <2>5 DEF Held, JobInv
  <2> QED  BY <2>2, <2>3, <2>4, <2>5, <2>6, <2>7 DEF JobInv, Context
<1>4. CASE SendToClient
  BY <1>4 DEF SendToClient, JobInv, Held
<1>5. CASE Alarm
  <2>1. /\ \A p \in Parser : parser'[p].fed = parser[p].fed /\ parser'[p].frame = parser[p].frame
        /\ pc' = pc
    BY <1>5, AlarmFields
  <2>2. ASSUME NEW ctx \in Context PROVE Held(ctx)'
    <3>1. Held(ctx)  BY DEF JobInv
    <3>2. pc[ctx].job \in DOMAIN Relays => Relays[pc[ctx].job] \in Parser  BY RelaysType
    <3> QED  BY <2>1, <3>1, <3>2 DEF Held
  <2> QED  BY <2>1, <2>2 DEF JobInv
<1>6. "main" \in Context /\ "stack" \in Context  BY DEF Context
<1> QED  BY <1>1, <1>2, <1>3, <1>4, <1>5, <1>6, ArriveJob, AdvanceJob
         DEF Next, Main, Stack, Advance

---------------------------------------------------------------------------
(* The frames that wait.                                                   *)

LEMMA HitGrows == ASSUME [Next]_vars PROVE hit \subseteq hit'
BY DEF Next, Arrive, FeedHead, FeedTail, Main, Stack, Alarm, CheckTnc, Relay, Read, Encode, Display,
       Text, Lock, Unlock, WriteUart, InitParser, Offer, CopyHead, CopyTail, NoClient,
       ConnectionEvent, Schedule, Forget, SendToClient, QueryTnc, SendOurInfo, vars, shared

\* A frame that waits after a step waited before it.
LEMMA Waited ==
  ASSUME TypeOK, JobInv, NEW q \in Parser, Waiting(q)', parser[q].fed > 0,
         parser'[q].frame = parser[q].frame,
         \A ctx \in Context :
           \/ pc'[ctx] = pc[ctx] \/ pc[ctx] = Idle \/ At(ctx) = "read"
           \/ pc'[ctx].frame = pc[ctx].frame /\ At(ctx)' # "read"
           \/ pc[ctx].frame # parser[q].frame
  PROVE  Waiting(q)
<1>1. ASSUME NEW ctx \in Context, pc[ctx].frame = parser[q].frame
      PROVE  At(ctx) = "read"
  <2>1. pc'[ctx].frame = parser[q].frame => At(ctx)' = "read"  BY DEF Waiting
  <2>2. pc[ctx] # Idle  BY <1>1, FrameOf, RelaysIs DEF Idle
  <2>3. pc'[ctx] = pc[ctx] => At(ctx) = At(ctx)'  BY Same
  <2> QED  BY <1>1, <2>1, <2>2, <2>3
<1> QED  BY <1>1 DEF Waiting

\* WaitingInv, for one parser.
Whole(p) ==
  Waiting(p) /\ parser[p].frame \notin hit =>
    /\ parser[p].body[1] = parser[p].frame
    /\ parser[p].fed = 2 => parser[p].body[2] = parser[p].frame

LEMMA WholeStays ==
  ASSUME TypeOK, JobInv, WaitingInv, NEW q \in Parser, parser'[q] = parser[q], hit \subseteq hit',
         \A ctx \in Context :
           \/ pc'[ctx] = pc[ctx] \/ pc[ctx] = Idle \/ At(ctx) = "read"
           \/ pc'[ctx].frame = pc[ctx].frame /\ At(ctx)' # "read"
           \/ pc[ctx].frame # parser[q].frame
  PROVE  Whole(q)'
<1>1. SUFFICES ASSUME Waiting(q)', parser'[q].frame \notin hit'
               PROVE  /\ parser'[q].body[1] = parser'[q].frame
                      /\ parser'[q].fed = 2 => parser'[q].body[2] = parser'[q].frame
  BY DEF Whole
<1>2. parser[q].fed > 0  BY <1>1 DEF Waiting
<1>3. Waiting(q)  BY <1>1, <1>2, Waited
<1> QED  BY <1>1, <1>3 DEF WaitingInv

LEMMA ArriveWaiting ==
  ASSUME TypeOK, JobInv, WaitingInv, Arrive
  PROVE  WaitingInv'
<1>1. ASSUME NEW p \in Parser, NEW kind \in Kinds[p], FeedHead(p, kind), NEW q \in Parser
      PROVE  Whole(q)'
  <2>1. pc' = pc /\ hit' = hit  BY <1>1 DEF FeedHead
  <2>2. CASE q = p
    <3>1. parser'[p].fed = 1 /\ parser'[p].body[1] = parser'[p].frame  BY <1>1, FeedHeadParser
    <3> QED  BY <2>2, <3>1 DEF Whole
  <2>3. CASE q # p
    <3>1. parser'[q] = parser[q]  BY <1>1, <2>3, FeedHeadParser
    <3> QED  BY <2>1, <3>1, WholeStays
  <2> QED  BY <2>2, <2>3
<1>2. ASSUME NEW p \in Parser, FeedTail(p), NEW q \in Parser
      PROVE  Whole(q)'
  <2>1. hit' = hit /\ parser[p].fed = 1  BY <1>2 DEF FeedTail
  <2>2. \A ctx \in Context : pc'[ctx] = pc[ctx] \/ pc[ctx] = Idle
    <3>1. CASE p = "tnc"
      BY <1>2, <3>1 DEF FeedTail
    <3>2. CASE p = "ble"
      <4>1. pc' = [pc EXCEPT !["main"] = Begin("ble", parser[p].frame)] /\ pc["main"] = Idle
        BY <1>2, <3>2 DEF FeedTail, Feeds
      <4>2. "main" \in Context  BY DEF Context
      <4> QED  BY <4>1, <4>2, Begins
    <3>3. CASE p = "spp"
      <4>1. pc' = [pc EXCEPT !["stack"] = Begin("spp", parser[p].frame)] /\ pc["stack"] = Idle
        BY <1>2, <3>3 DEF FeedTail, Feeds
      <4>2. "stack" \in Context  BY DEF Context
      <4> QED  BY <4>1, <4>2, Begins
    <3> QED  BY <3>1, <3>2, <3>3 DEF Parser
  <2>3. /\ parser'[p] = [fed |-> 2, frame |-> parser[p].frame,
                         body |-> <<parser[p].body[1], parser[p].frame>>]
        /\ \A r \in Parser : r # p => parser'[r] = parser[r]
    BY <1>2, FeedTailParser
  <2>4. CASE q = p
    <3>1. Waiting(p)
      <4>1. \A ctx \in Context : pc[ctx].frame # parser[p].frame  BY <2>1, Unheld
      <4> QED  BY <2>1, <4>1 DEF Waiting
    <3>2. parser[p].frame \notin hit => parser[p].body[1] = parser[p].frame
      BY <3>1 DEF WaitingInv
    <3>3. /\ parser'[p].frame = parser[p].frame /\ parser'[p].body[1] = parser[p].body[1]
          /\ parser'[p].body[2] = parser[p].frame
      BY <2>3
    <3> QED  BY <2>1, <2>4, <3>2, <3>3 DEF Whole
  <2>5. CASE q # p
    BY <2>1, <2>2, <2>3, <2>5, WholeStays
  <2> QED  BY <2>4, <2>5
<1>3. \A q \in Parser : Whole(q)'  BY <1>1, <1>2 DEF Arrive
<1> QED  BY <1>3 DEF WaitingInv, Whole

LEMMA AdvanceWaiting ==
  ASSUME TypeOK, JobInv, WaitingInv, NEW ctx \in Context, Advance(ctx), hit \subseteq hit'
  PROVE  WaitingInv'
<1> DEFINE p == Relays[pc[ctx].job]
<1>1. /\ \A other \in Context : other # ctx => pc'[other] = pc[other]
      /\ At(ctx) \in {"init", "schedule", "forget"} <=> pc'[ctx] = Idle
      /\ pc'[ctx] # Idle => pc'[ctx].frame = pc[ctx].frame /\ At(ctx)' # "read"
  BY Advances
<1>2. \/ At(ctx) # "init" /\ parser' = parser
      \/ /\ At(ctx) = "init" /\ pc[ctx].job \in DOMAIN Relays /\ p \in Parser
         /\ parser'[p].fed = 0
         /\ \A q \in Parser : q # p => parser'[q] = parser[q]
  BY ParserAdvances
<1>3. ASSUME NEW q \in Parser
      PROVE  Whole(q)'
  <2>1. CASE parser'[q].fed = 0
    BY <2>1 DEF Whole, Waiting
  <2>2. CASE parser[q].fed > 0 /\ parser'[q] = parser[q] /\ (At(ctx) = "init" => q # p)
    <3>1. pc'[ctx] = Idle => pc[ctx].frame # parser[q].frame
      <4>1. CASE At(ctx) = "init"
        BY <2>2, <4>1, FrameOf
      <4>2. CASE At(ctx) \in {"schedule", "forget"}
        <5>1. pc[ctx].job \notin DOMAIN Relays  BY <4>2, Labels, RelaysIs
        <5> QED  BY <2>2, <5>1, FrameOf
      <4> QED  BY <1>1, <4>1, <4>2
    <3> HIDE DEF p
    <3> QED  BY <1>1, <2>2, <3>1, WholeStays
  <2>3. parser[q].fed \in 0..2  BY DEF TypeOK
  <2>4. parser'[q] = parser[q] => parser'[q].fed = parser[q].fed  OBVIOUS
  <2> HIDE DEF p
  <2> QED  BY <1>2, <2>1, <2>2, <2>3, <2>4
<1> QED  BY <1>3 DEF WaitingInv, Whole

\* The status frame hits the frame that waits in the parser it is written to.
LEMMA AlarmWaiting ==
  ASSUME TypeOK, JobInv, WaitingInv, SendOurInfo
  PROVE  WaitingInv'
<1>1. /\ \A p \in Parser : parser'[p].fed = parser[p].fed /\ parser'[p].frame = parser[p].frame
      /\ pc' = pc /\ hit \subseteq hit'
  BY AlarmFields DEF Alarm
<1>2. ASSUME NEW q \in Parser
      PROVE  Whole(q)'
  <2>1. CASE parser'[q] = parser[q]
    BY <1>1, <2>1, WholeStays
  <2>2. CASE parser'[q] # parser[q]
    <3>1. \A ctx \in Context : At(ctx)' = At(ctx)  BY <1>1, Same
    <3>2. Waiting(q)' => Waiting(q)  BY <1>1, <3>1 DEF Waiting
    <3>3. Waiting(q) => parser[q].frame \in hit'
      <4>1. kissFrame.buffer # "null" /\ parser' # parser  BY <2>2 DEF SendOurInfo
      <4>2. PICK pieces, frame : /\ parser' = [parser EXCEPT ![kissFrame.buffer].body = pieces]
                                 /\ Disturbed(frame) \subseteq hit'
        BY <4>1 DEF SendOurInfo
      <4>3. q = kissFrame.buffer  BY <2>2, <4>1, <4>2, AlarmParser
      <4> QED  BY <4>2, <4>3 DEF Disturbed
    <3> QED  BY <1>1, <3>2, <3>3 DEF Whole
  <2> QED  BY <2>1, <2>2
<1> QED  BY <1>2 DEF WaitingInv, Whole

LEMMA WaitingKept ==
  ASSUME TypeOK, JobInv, WaitingInv, [Next]_vars
  PROVE  WaitingInv'
<1>1. hit \subseteq hit'  BY HitGrows
<1>2. CASE UNCHANGED vars \/ SendToClient \/ QueryTnc
  <2>1. parser' = parser /\ pc' = pc  BY <1>2 DEF vars, shared, SendToClient, QueryTnc
  <2>2. \A q \in Parser : Whole(q)'  BY <1>1, <2>1, WholeStays
  <2> QED  BY <2>2 DEF WaitingInv, Whole
<1>3. CASE CheckTnc \/ ConnectionEvent
  <2>1. PICK ctx \in Context :
          /\ pc[ctx] = Idle /\ parser' = parser
          /\ \E entry : pc' = [pc EXCEPT ![ctx] = entry]
    BY <1>3 DEF CheckTnc, ConnectionEvent, Context, shared
  <2>2. \A c \in Context : pc'[c] = pc[c] \/ pc[c] = Idle  BY <2>1, Begins
  <2>3. \A q \in Parser : Whole(q)'  BY <1>1, <2>1, <2>2, WholeStays
  <2> QED  BY <2>3 DEF WaitingInv, Whole
<1>4. "main" \in Context /\ "stack" \in Context  BY DEF Context
<1> QED  BY <1>1, <1>2, <1>3, <1>4, ArriveWaiting, AdvanceWaiting, AlarmWaiting
         DEF Next, Main, Stack, Alarm, Advance

---------------------------------------------------------------------------
(* The windows.                                                            *)

\* What a step does to the buffers, by its name.
LEMMA Effects ==
  ASSUME TypeOK, NEW ctx \in Context, Advance(ctx)
  PROVE  /\ sent' = sent
         /\ At(ctx) = "read" => Read(ctx)
         /\ At(ctx) # "read" => kissFrame' = kissFrame /\ hit' = hit
         /\ At(ctx) = "encode" => scratch' = <<Payload(1), scratch[2]>>
         /\ At(ctx) = "encodeTail" => scratch' = <<scratch[1], Payload(2)>>
         /\ At(ctx) \notin {"encode", "encodeTail", "text"} => scratch' = scratch
         /\ At(ctx) = "uart" =>
              uart' = <<uart[2], [for |-> pc[ctx].frame, half |-> 1, is |-> scratch[1]]>>
         /\ At(ctx) = "uartTail" =>
              uart' = <<uart[2], [for |-> pc[ctx].frame, half |-> 2, is |-> scratch[2]]>>
         /\ At(ctx) \notin {"uart", "uartTail"} => uart' = uart
         /\ At(ctx) = "copy" =>
              \/ char_rx_value' = <<scratch[1], char_rx_value[2]>>
              \/ char_rx_value' = char_rx_value /\ At(ctx)' \in {"copy", "init"}
         /\ At(ctx) = "copyTail" =>
              char_rx_value' = <<char_rx_value[1], scratch[2]>> /\ queued' = pc[ctx].frame
         /\ At(ctx) \notin {"copy", "copyTail"} => char_rx_value' = char_rx_value
         /\ At(ctx) = "forget" => queued' = Junk
         /\ At(ctx) \notin {"copyTail", "forget"} => queued' = queued
<1>1. scratch \in Piece \X Piece /\ char_rx_value \in Piece \X Piece  BY DEF TypeOK
<1>2. /\ \A x : [scratch EXCEPT ![1] = x] = <<x, scratch[2]>>
      /\ \A x : [scratch EXCEPT ![2] = x] = <<scratch[1], x>>
      /\ \A x : [char_rx_value EXCEPT ![1] = x] = <<x, char_rx_value[2]>>
      /\ \A x : [char_rx_value EXCEPT ![2] = x] = <<char_rx_value[1], x>>
  BY <1>1
<1>3. CASE Read(ctx)
  BY <1>3 DEF Read, Do
<1>4. CASE Encode(ctx)
  BY <1>2, <1>4 DEF Encode, Do
<1>5. CASE Display(ctx)
  BY <1>5 DEF Display, Do, shared
<1>6. CASE Text(ctx) \/ Lock(ctx) \/ Unlock(ctx) \/ InitParser(ctx)
  BY <1>6 DEF Text, Lock, Unlock, InitParser, Do
<1>7. CASE WriteUart(ctx)
  BY <1>7 DEF WriteUart, Do
<1>8. CASE ctx = "main" /\ (Offer \/ NoClient)
  <2>1. At(ctx)' \in {"copy", "init"} /\ At(ctx) \in {"offer", "copy"}  BY <1>8, Leap
  <2>2. UNCHANGED <<shared, sent, hit>>  BY <1>8 DEF Offer, NoClient
  <2> QED  BY <2>1, <2>2 DEF shared
<1>9. CASE ctx = "main" /\ CopyHead
  BY <1>2, <1>9 DEF CopyHead, Do
<1>10. CASE ctx = "main" /\ CopyTail
  BY <1>2, <1>10 DEF CopyTail, Do
<1>11. CASE ctx = "stack" /\ (Schedule \/ Forget)
  BY <1>11 DEF Schedule, Forget, Do, shared
<1> QED  BY <1>3, <1>4, <1>5, <1>6, <1>7, <1>8, <1>9, <1>10, <1>11 DEF Advance, Relay

\* What WindowInv says of a context that is in its window.
Exact(ctx) ==
  LET frame == pc[ctx].frame
      p     == Relays[pc[ctx].job]
  IN  /\ parser[p].body = <<frame, frame>>
      /\ kissFrame = [buffer |-> p, head |-> frame]
      /\ At(ctx) \in Half1 => scratch[1] = frame
      /\ At(ctx) \in Half2 => scratch[2] = frame
      /\ At(ctx) = "uartTail" => uart[2] = [for |-> frame, half |-> 1, is |-> frame]
      /\ At(ctx) = "copyTail" => char_rx_value[1] = frame

LEMMA InExact ==
  WindowInv <=> \A ctx \in Context : Window(ctx) /\ pc[ctx].frame \notin hit => Exact(ctx)
BY DEF WindowInv, Exact

\* The other context does not change what an unhit window depends on.
LEMMA Preempted ==
  ASSUME TypeOK, JobInv, StackInv, NEW ctx \in Context, Advance(ctx), NEW c \in Context, c # ctx,
         Window(c), pc[c].frame \notin hit'
  PROVE  UNCHANGED <<parser, kissFrame, scratch, uart, char_rx_value>>
<1>1. pc[ctx] # Idle /\ Runs(ctx)  BY Advances
<1>2. ctx = "stack" /\ c = "main"
  <2>1. ctx = "main" => pc["stack"] = Idle  BY <1>1 DEF Runs
  <2>2. pc[c] # Idle  BY DEF Window
  <2> QED  BY <2>1, <2>2 DEF Context
<1>3. At(ctx) # "read"
  <2>1. Read(ctx) => pc[c].frame \in hit'  BY DEF Read, InWindow
  <2> QED  BY <2>1, Effects
<1>4. pc["stack"].job # "spp"
  <2>1. hit' = hit  BY <1>3, Effects
  <2> QED  BY <1>2, <1>3, <2>1 DEF StackInv
<1>5. pc[ctx].job \in {"connect", "disconnect"}
  BY <1>1, <1>2, <1>4, Busy DEF JobInv
<1>6. At(ctx) \notin {"init", "encode", "encodeTail", "text", "uart", "uartTail", "copy", "copyTail"}
  BY <1>5, Labels, RelaysIs DEF Half1
<1> QED  BY <1>3, <1>6, Effects, ParserAdvances

\* A context enters its window with the frame that waits for it, whole.
LEMMA EntersExact ==
  ASSUME TypeOK, JobInv, WaitingInv, NEW ctx \in Context, Advance(ctx), At(ctx) = "read",
         Window(ctx)', pc'[ctx].frame \notin hit'
  PROVE  Exact(ctx)'
<1> DEFINE p == Relays[pc[ctx].job]
<1>1. Read(ctx) /\ parser' = parser  BY Effects, ParserAdvances
<1>2. /\ pc'[ctx] # Idle /\ pc'[ctx].job = pc[ctx].job /\ pc'[ctx].frame = pc[ctx].frame
      /\ At(ctx)' \notin Half1
  <2>1. pc'[ctx] # Idle  BY DEF Window
  <2> QED  BY <2>1, Advances DEF Half1
<1>3. pc[ctx].job \in DOMAIN Relays  BY Labels
<1>4. p \in Parser /\ parser[p].fed = 2 /\ parser[p].frame = pc[ctx].frame
  BY <1>3, Relayed
<1>5. Waiting(p)
  <2>1. \A c \in Context : pc[c].frame = parser[p].frame => c = ctx
    BY <1>3, <1>4, Relayed, FrameOf DEF Context
  <2> QED  BY <1>4, <2>1 DEF Waiting
<1>6. hit \subseteq hit' /\ kissFrame' = [buffer |-> p, head |-> pc[ctx].frame]
  BY <1>1, <1>4 DEF Read
<1>7. parser[p].body[1] = pc[ctx].frame /\ parser[p].body[2] = pc[ctx].frame
  BY <1>2, <1>4, <1>5, <1>6 DEF WaitingInv
<1>8. parser[p].body = <<pc[ctx].frame, pc[ctx].frame>>
  <2>1. parser[p].body \in Piece \X Piece  BY <1>4 DEF TypeOK
  <2> QED  BY <1>7, <2>1
<1>9. At(ctx)' \notin Half2 /\ At(ctx)' # "uartTail" /\ At(ctx)' # "copyTail"
  BY <1>2 DEF Half1, Half2
<1> QED  BY <1>1, <1>2, <1>6, <1>8, <1>9 DEF Exact

\* In its window it finds each half where its last steps have put it.
LEMMA StaysExact ==
  ASSUME TypeOK, JobInv, WindowInv, NEW ctx \in Context, Advance(ctx), At(ctx) # "read",
         Window(ctx)', pc'[ctx].frame \notin hit'
  PROVE  Exact(ctx)'
<1> DEFINE p == Relays[pc[ctx].job]
           frame == pc[ctx].frame
<1>1. pc'[ctx] # Idle  BY DEF Window
<1>2. pc'[ctx].job = pc[ctx].job /\ pc'[ctx].frame = frame /\ Window(ctx)  BY <1>1, Advances
<1>3. parser' = parser /\ kissFrame' = kissFrame /\ hit' = hit
  BY <1>1, Advances, Effects, ParserAdvances
<1>4. /\ parser[p].body = <<frame, frame>> /\ kissFrame = [buffer |-> p, head |-> frame]
      /\ At(ctx) \in Half1 => scratch[1] = frame
      /\ At(ctx) \in Half2 => scratch[2] = frame
  BY <1>2, <1>3 DEF WindowInv
<1>5. Payload(1) = frame /\ Payload(2) = frame  BY <1>4 DEF Payload
<1>6. parser'[p].body = <<frame, frame>> /\ kissFrame' = [buffer |-> p, head |-> frame]
  BY <1>3, <1>4
<1> HIDE DEF frame, p
<1>7. /\ At(ctx)' \in Half1 => scratch'[1] = frame
      /\ At(ctx)' \in Half2 => scratch'[2] = frame
  <2>1. CASE At(ctx)' = "encodeTail"
    <3>1. At(ctx) = "encode"  BY <1>1, <2>1, Advances
    <3> QED  BY <1>5, <2>1, <3>1, Effects DEF Half2, Half1
  <2>2. CASE At(ctx)' \in {"offer", "uart"}
    <3>1. At(ctx) = "encodeTail"  BY <1>1, <2>2, Advances
    <3> QED  BY <1>4, <1>5, <3>1, Effects DEF Half1
  <2>3. CASE At(ctx)' \in {"uartTail", "copy", "copyTail"}
    <3>1. At(ctx) \in {"uart", "offer", "copy", "copyTail"}  BY <1>1, <2>3, Advances
    <3>2. scratch' = scratch  BY <3>1, Effects
    <3> QED  BY <1>4, <3>1, <3>2 DEF Half1, Half2
  <2> QED  BY <2>1, <2>2, <2>3 DEF Half1, Half2
<1>8. At(ctx)' = "uartTail" => uart'[2] = [for |-> frame, half |-> 1, is |-> frame]
  <2> SUFFICES ASSUME At(ctx)' = "uartTail"
               PROVE  uart'[2] = [for |-> frame, half |-> 1, is |-> frame]
    OBVIOUS
  <2>1. At(ctx) = "uart"  BY <1>1, Advances
  <2>2. scratch[1] = frame  BY <1>4, <2>1 DEF Half1
  <2> QED  BY <2>1, <2>2, Effects DEF frame
<1>9. At(ctx)' = "copyTail" => char_rx_value'[1] = frame
  <2> SUFFICES ASSUME At(ctx)' = "copyTail"
               PROVE  char_rx_value'[1] = frame
    OBVIOUS
  <2>1. At(ctx) = "copy"  BY <1>1, Advances
  <2>2. scratch[1] = frame  BY <1>4, <2>1 DEF Half1
  <2> QED  BY <2>1, <2>2, Effects
<1> QED  BY <1>2, <1>6, <1>7, <1>8, <1>9 DEF Exact, frame, p

LEMMA ExactStays ==
  ASSUME NEW c \in Context, pc'[c] = pc[c], Exact(c),
         parser'[Relays[pc[c].job]] = parser[Relays[pc[c].job]],
         UNCHANGED <<kissFrame, scratch, char_rx_value>>, uart' = uart \/ At(c) # "uartTail"
  PROVE  Exact(c)'
<1>1. At(c)' = At(c)  BY Same
<1> QED  BY <1>1 DEF Exact

LEMMA AdvanceWindow ==
  ASSUME TypeOK, JobInv, WaitingInv, WindowInv, StackInv, NEW ctx \in Context, Advance(ctx),
         hit \subseteq hit'
  PROVE  WindowInv'
<1>1. Window(ctx)' /\ pc'[ctx].frame \notin hit' => Exact(ctx)'  BY EntersExact, StaysExact
<1>2. ASSUME NEW c \in Context, c # ctx, Window(c)', pc'[c].frame \notin hit'
      PROVE  Exact(c)'
  <2>1. pc'[c] = pc[c]  BY <1>2, Advances
  <2>2. Window(c)  BY <1>2, <2>1, Same
  <2>3. Exact(c)  BY <1>2, <2>1, <2>2, InExact
  <2>4. UNCHANGED <<parser, kissFrame, scratch, uart, char_rx_value>>
    BY <1>2, <2>1, <2>2, Preempted
  <2> QED  BY <2>1, <2>3, <2>4, ExactStays
<1> QED  BY <1>1, <1>2 DEF WindowInv, Exact

\* A context that begins a job is not in its window, and the parser of a frame that
\* is in one is complete: nothing is fed to it.
LEMMA ArriveWindow ==
  ASSUME TypeOK, JobInv, WindowInv, Arrive
  PROVE  WindowInv'
<1>1. /\ UNCHANGED <<kissFrame, scratch, char_rx_value, uart, hit>>
      /\ \A p \in Parser : parser'[p] = parser[p] \/ parser[p].fed # 2
  <2>1. ASSUME NEW p \in Parser, NEW kind \in Kinds[p], FeedHead(p, kind)
        PROVE  /\ UNCHANGED <<kissFrame, scratch, char_rx_value, uart, hit>>
               /\ parser[p].fed # 2 /\ \A q \in Parser : q # p => parser'[q] = parser[q]
    <3>1. /\ UNCHANGED <<kissFrame, scratch, char_rx_value, uart, hit>> /\ parser[p].fed # 2
      BY <2>1 DEF FeedHead
    <3>2. \A q \in Parser : q # p => parser'[q] = parser[q]  BY <2>1, FeedHeadParser
    <3> QED  BY <3>1, <3>2
  <2>2. ASSUME NEW p \in Parser, FeedTail(p)
        PROVE  /\ UNCHANGED <<kissFrame, scratch, char_rx_value, uart, hit>>
               /\ parser[p].fed # 2 /\ \A q \in Parser : q # p => parser'[q] = parser[q]
    <3>1. /\ UNCHANGED <<kissFrame, scratch, char_rx_value, uart, hit>> /\ parser[p].fed # 2
      BY <2>2 DEF FeedTail
    <3>2. \A q \in Parser : q # p => parser'[q] = parser[q]  BY <2>2, FeedTailParser
    <3> QED  BY <3>1, <3>2
  <2>3. \E p \in Parser :
          /\ UNCHANGED <<kissFrame, scratch, char_rx_value, uart, hit>>
          /\ parser[p].fed # 2 /\ \A q \in Parser : q # p => parser'[q] = parser[q]
    BY <2>1, <2>2 DEF Arrive
  <2> QED  BY <2>3
<1>2. ASSUME NEW c \in Context
      PROVE  pc'[c] = pc[c] \/ ~Window(c)'
  <2>1. CASE pc' = pc
    BY <2>1
  <2>2. ASSUME NEW ctx \in Context, NEW job \in Job, NEW frame,
               pc' = [pc EXCEPT ![ctx] = Begin(job, frame)]
        PROVE  pc'[c] = pc[c] \/ ~Window(c)'
    <3>1. pc'[ctx] = Begin(job, frame) /\ \A other \in Context : other # ctx => pc'[other] = pc[other]
      BY <2>2, Begins
    <3>2. pc'[ctx].job = job /\ pc'[ctx].at = 1  BY <3>1 DEF Begin
    <3>3. ~Window(ctx)'  BY <3>2, BeginSteps
    <3> QED  BY <3>1, <3>3
  <2>3. "ble" \in Job /\ "spp" \in Job /\ "main" \in Context /\ "stack" \in Context
    BY Jobs DEF Context
  <2>4. \/ pc' = pc
        \/ \E ctx \in Context, job \in Job, p \in Parser :
             pc' = [pc EXCEPT ![ctx] = Begin(job, parser[p].frame)]
    <3>1. ASSUME NEW p \in Parser, FeedTail(p)
          PROVE  \/ pc' = pc
                 \/ \E ctx \in Context, job \in Job :
                      pc' = [pc EXCEPT ![ctx] = Begin(job, parser[p].frame)]
      BY <2>3, <3>1 DEF FeedTail, Parser
    <3>2. ASSUME NEW p \in Parser, NEW kind \in Kinds[p], FeedHead(p, kind)
          PROVE  pc' = pc
      BY <3>2 DEF FeedHead
    <3> QED  BY <3>1, <3>2 DEF Arrive
  <2> QED  BY <2>1, <2>2, <2>4
<1>3. ASSUME NEW c \in Context, Window(c)', pc'[c].frame \notin hit'
      PROVE  Exact(c)'
  <2>1. pc'[c] = pc[c] /\ Window(c)  BY <1>2, <1>3, Same
  <2>2. Exact(c)  BY <1>1, <1>3, <2>1, InExact
  <2>3. pc[c].job \in DOMAIN Relays
    <3>1. pc[c].job \in {"tnc", "ble", "spp"}  BY <2>1, Labels
    <3> QED  BY <3>1, RelaysIs
  <2>4. parser'[Relays[pc[c].job]] = parser[Relays[pc[c].job]]  BY <1>1, <2>3, Relayed
  <2> QED  BY <1>1, <2>1, <2>2, <2>4, ExactStays
<1> QED  BY <1>3 DEF WindowInv, Exact

LEMMA WindowKept ==
  ASSUME TypeOK, JobInv, WaitingInv, WindowInv, StackInv, [Next]_vars
  PROVE  WindowInv'
<1>0. hit \subseteq hit' /\ "main" \in Context /\ "stack" \in Context  BY HitGrows DEF Context
<1>1. CASE UNCHANGED vars \/ SendToClient \/ QueryTnc
  <2>1. ASSUME NEW c \in Context, Window(c)', pc'[c].frame \notin hit'
        PROVE  Exact(c)'
    <3>1. UNCHANGED <<parser, kissFrame, scratch, char_rx_value, pc>>
      BY <1>1 DEF vars, shared, SendToClient, QueryTnc
    <3>2. Exact(c)  BY <1>0, <2>1, <3>1, Same, InExact
    <3>3. uart' = uart \/ At(c) # "uartTail"
      BY <1>1, <2>1, <3>1 DEF vars, shared, SendToClient, QueryTnc
    <3> QED  BY <3>1, <3>2, <3>3, ExactStays
  <2> QED  BY <2>1 DEF WindowInv, Exact
<1>2. CASE CheckTnc \/ ConnectionEvent
  <2>1. UNCHANGED <<parser, kissFrame, scratch, char_rx_value, uart, hit>>
    BY <1>2 DEF CheckTnc, ConnectionEvent, shared
  <2>2. PICK ctx \in Context, job \in Job, frame \in Piece : pc' = [pc EXCEPT ![ctx] = Begin(job, frame)]
    <3>1. parser["tnc"].frame \in Piece /\ Junk \in Piece  BY DEF TypeOK, Parser, Piece
    <3> QED  BY <1>0, <1>2, <3>1, Jobs DEF CheckTnc, ConnectionEvent
  <2>3. pc'[ctx] = Begin(job, frame) /\ \A c \in Context : c # ctx => pc'[c] = pc[c]
    BY <2>2, Begins
  <2>4. pc'[ctx].job = job /\ pc'[ctx].at = 1  BY <2>3 DEF Begin
  <2>5. ~Window(ctx)'  BY <2>4, BeginSteps
  <2>6. ASSUME NEW c \in Context, Window(c)', pc'[c].frame \notin hit'
        PROVE  Exact(c)'
    <3>1. pc'[c] = pc[c]  BY <2>3, <2>5, <2>6
    <3>2. Exact(c)  BY <2>1, <2>6, <3>1, Same, InExact
    <3> QED  BY <2>1, <3>1, <3>2, ExactStays
  <2> QED  BY <2>6 DEF WindowInv, Exact
<1>3. CASE SendOurInfo
  <2>1. pc' = pc /\ uart' = uart  BY <1>3 DEF SendOurInfo
  <2>2. ASSUME NEW c \in Context, Window(c)', pc'[c].frame \notin hit'
        PROVE  Exact(c)'
    <3>1. pc'[c] = pc[c] /\ Window(c)  BY <2>1, <2>2, Same
    <3>2. UNCHANGED <<parser, kissFrame, scratch, char_rx_value>>
      <4>1. pc[c].frame \in InWindow  BY <3>1 DEF InWindow
      <4>2. ~(InWindow \subseteq hit')  BY <2>2, <3>1, <4>1
      <4> QED  BY <1>3, <4>2 DEF SendOurInfo, Disturbed
    <3>3. Exact(c)  BY <1>0, <2>2, <3>1, InExact
    <3> QED  BY <2>1, <3>1, <3>2, <3>3, ExactStays
  <2> QED  BY <2>2 DEF WindowInv, Exact
<1> QED  BY <1>0, <1>1, <1>2, <1>3, ArriveWindow, AdvanceWindow
         DEF Next, Main, Stack, Alarm, Advance

---------------------------------------------------------------------------
(* What goes out.                                                          *)

\* A context goes on, or stays where it is, or begins.
LEMMA Moves ==
  ASSUME TypeOK, [Next]_vars
  PROVE  \/ \E ctx \in Context : Advance(ctx)
         \/ pc' = pc
         \/ /\ \E ctx \in Context, job \in Job, frame \in Piece :
                 pc' = [pc EXCEPT ![ctx] = Begin(job, frame)]
            /\ UNCHANGED <<queued, char_rx_value, uart, sent>>
<1>1. "main" \in Context /\ "stack" \in Context  BY DEF Context
<1>2. /\ \A p \in Parser : parser[p].frame \in Piece
      /\ "tnc" \in Parser /\ Junk \in Piece
  BY DEF TypeOK, Parser, Piece
<1>3. CASE CheckTnc \/ ConnectionEvent
  BY <1>1, <1>2, <1>3, Jobs DEF CheckTnc, ConnectionEvent, shared
<1>4. CASE Arrive
  <2>1. ASSUME NEW p \in Parser, FeedTail(p)
        PROVE  \/ pc' = pc
               \/ /\ \E ctx \in Context, job \in Job, frame \in Piece :
                       pc' = [pc EXCEPT ![ctx] = Begin(job, frame)]
                  /\ UNCHANGED <<queued, char_rx_value, uart, sent>>
    <3>1. "ble" \in Job /\ "spp" \in Job  BY Jobs
    <3> QED  BY <1>1, <1>2, <2>1, <3>1 DEF FeedTail, Parser
  <2>2. ASSUME NEW p \in Parser, NEW kind \in Kinds[p], FeedHead(p, kind)
        PROVE  pc' = pc
    BY <2>2 DEF FeedHead
  <2> QED  BY <1>4, <2>1, <2>2 DEF Arrive
<1>5. CASE SendToClient \/ Alarm \/ UNCHANGED vars
  BY <1>5 DEF SendToClient, Alarm, QueryTnc, SendOurInfo, vars
<1> QED  BY <1>1, <1>3, <1>4, <1>5 DEF Next, Main, Stack, Advance

\* One that begins is neither past its read nor where the copies are.
LEMMA BeginsOutside ==
  ASSUME TypeOK, NEW ctx \in Context, NEW job \in Job, NEW frame \in Piece,
         pc' = [pc EXCEPT ![ctx] = Begin(job, frame)]
  PROVE  /\ ~(pc'["stack"].job = "spp" /\ At("stack")' # "read" /\ Window("main")')
           \/ (pc'["stack"] = pc["stack"] /\ pc'["main"] = pc["main"])
         /\ At("main")' \in {"copy", "copyTail"} => pc'["main"] = pc["main"]
<1>1. pc'[ctx] = Begin(job, frame) /\ \A c \in Context : c # ctx => pc'[c] = pc[c]  BY Begins
<1>2. pc'[ctx].job = job /\ pc'[ctx].at = 1  BY <1>1 DEF Begin
<1>3. /\ ~Window(ctx)'
      /\ job \in DOMAIN Relays => At(ctx)' = "read"
      /\ job \notin DOMAIN Relays => At(ctx)' = "lock"
  BY <1>2, BeginSteps
<1>4. "spp" \in DOMAIN Relays  BY RelaysIs
<1> QED  BY <1>1, <1>2, <1>3, <1>4 DEF Context

LEMMA StackKept ==
  ASSUME TypeOK, JobInv, StackInv, [Next]_vars
  PROVE  StackInv'
<1>0. hit \subseteq hit' /\ "main" \in Context /\ "stack" \in Context  BY HitGrows DEF Context
<1> SUFFICES ASSUME pc'["stack"].job = "spp", At("stack")' # "read", Window("main")'
             PROVE  pc'["main"].frame \in hit'
  BY DEF StackInv
<1>1. CASE pc'["stack"] = pc["stack"] /\ pc'["main"] = pc["main"]
  <2>1. At("stack") # "read" /\ Window("main")  BY <1>0, <1>1, Same
  <2> QED  BY <1>0, <1>1, <2>1 DEF StackInv
<1>2. CASE Advance("main")
  <2>1. pc["stack"] = Idle  BY <1>0, <1>2, Advances DEF Runs
  <2>2. pc'["stack"] = Idle  BY <1>0, <1>2, <2>1, Advances
  <2> QED  BY <2>2 DEF Idle
<1>3. CASE Advance("stack")
  <2>1. pc'["stack"] # Idle  BY DEF Idle
  <2>2. pc["stack"].job = "spp" /\ pc'["main"] = pc["main"]  BY <1>0, <1>3, <2>1, Advances
  <2>3. Window("main")  BY <1>0, <2>2, Same
  <2>4. CASE At("stack") = "read"
    <3>1. Read("stack")  BY <1>0, <1>3, <2>4, Effects
    <3> QED  BY <1>0, <2>2, <2>3, <3>1 DEF Read, InWindow
  <2>5. CASE At("stack") # "read"
    BY <1>0, <2>2, <2>3, <2>5 DEF StackInv
  <2> QED  BY <2>4, <2>5
<1>4. ASSUME NEW ctx \in Context, NEW job \in Job, NEW frame \in Piece,
             pc' = [pc EXCEPT ![ctx] = Begin(job, frame)]
      PROVE  pc'["stack"] = pc["stack"] /\ pc'["main"] = pc["main"]
  BY <1>4, BeginsOutside
<1> QED  BY <1>1, <1>2, <1>3, <1>4, Moves DEF Context

LEMMA QueuedKept ==
  ASSUME TypeOK, JobInv, WindowInv, QueuedInv, [Next]_vars
  PROVE  QueuedInv'
<1>0. hit \subseteq hit' /\ "main" \in Context /\ "stack" \in Context  BY HitGrows DEF Context
<1>1. CASE SendOurInfo
  <2>1. pc' = pc  BY <1>1 DEF SendOurInfo
  <2>2. At("main")' = At("main")  BY <1>0, <2>1, Same
  <2>3. CASE UNCHANGED <<queued, char_rx_value>>
    BY <1>0, <2>1, <2>2, <2>3 DEF QueuedInv
  <2>4. CASE ~UNCHANGED <<queued, char_rx_value>>
    <3> DEFINE frame == Frame("alarm", begun["alarm"] + 1, "status")
    <3>1. /\ queued' = frame
          /\ frame \in hit' \/ char_rx_value' = <<frame, frame>>
          /\ At("main") \in {"copy", "copyTail"} => frame \in hit'
      BY <1>1, <2>4 DEF SendOurInfo, OfferAtOnce, Disturbed
    <3> HIDE DEF frame
    <3> QED  BY <2>2, <3>1 DEF QueuedInv
  <2> QED  BY <2>3, <2>4
<1>2. ASSUME NEW ctx \in Context, Advance(ctx)
      PROVE  QueuedInv'
  <2> DEFINE frame == pc["main"].frame
  <2>1. Window("main") /\ frame \notin hit =>
          /\ At("main") \in Half1 => scratch[1] = frame
          /\ At("main") \in Half2 => scratch[2] = frame
          /\ At("main") = "copyTail" => char_rx_value[1] = frame
    BY <1>0 DEF WindowInv
  <2>2. CASE At(ctx) \in {"copy", "copyTail"}
    <3>1. ctx = "main" /\ Window("main")
      <4>1. pc[ctx].job = "tnc" /\ Window(ctx)  BY <2>2, Labels DEF Half1
      <4>2. ctx # "stack"  BY <4>1 DEF JobInv
      <4> QED  BY <4>1, <4>2 DEF Context
    <3>2. pc'["main"].frame = frame /\ hit' = hit
      <4>1. pc'["main"] # Idle  BY <1>2, <2>2, <3>1, Advances
      <4> QED  BY <1>2, <2>2, <3>1, <4>1, Advances, Effects
    <3>3. frame \notin hit => scratch[1] = frame /\ scratch[2] = frame
      BY <2>1, <2>2, <3>1 DEF Half1, Half2
    <3>4. CASE At(ctx) = "copy"
      <4>1. queued' = queued  BY <1>2, <3>4, Effects
      <4>2. queued \in hit \cup {Junk, frame}  BY <3>1, <3>4 DEF QueuedInv
      <4>3. queued # Junk /\ queued \notin hit => char_rx_value = <<queued, queued>>
        BY DEF QueuedInv
      <4>4. char_rx_value' = <<scratch[1], char_rx_value[2]>> \/ char_rx_value' = char_rx_value
        BY <1>2, <3>4, Effects
      <4>5. queued # Junk /\ queued \notin hit => char_rx_value' = <<queued, queued>>
        BY <3>3, <4>2, <4>3, <4>4
      <4> QED  BY <3>2, <4>1, <4>2, <4>5 DEF QueuedInv
    <3>5. CASE At(ctx) = "copyTail"
      <4>1. queued' = frame /\ char_rx_value' = <<char_rx_value[1], scratch[2]>>
        BY <1>2, <3>1, <3>5, Effects
      <4>2. frame \notin hit => char_rx_value[1] = frame  BY <2>1, <3>1, <3>5
      <4> QED  BY <3>2, <3>3, <4>1, <4>2 DEF QueuedInv
    <3> QED  BY <2>2, <3>4, <3>5
  <2>3. CASE At(ctx) \notin {"copy", "copyTail"}
    <3>1. char_rx_value' = char_rx_value /\ queued' \in {queued, Junk}  BY <1>2, <2>3, Effects
    <3>2. ASSUME At("main")' \in {"copy", "copyTail"}
          PROVE  queued' \in hit' \cup {Junk, pc'["main"].frame}
      <4>1. CASE ctx = "main"
        <5>1. At("main") = "offer" /\ At("main")' = "copy"
          <6>1. pc'["main"] # Idle  BY <3>2 DEF At
          <6> QED  BY <1>0, <1>2, <2>3, <3>2, <4>1, <6>1, Advances
        <5>2. Offer
          <6>1. ~Relay("main")
            BY <5>1 DEF Relay, Read, Encode, Display, Text, Lock, Unlock, WriteUart, InitParser, Do
          <6> QED  BY <1>2, <4>1, <5>1, <6>1 DEF Advance, CopyHead, CopyTail, NoClient, Do
        <5>3. queued = Junk  BY <5>1, <5>2, Leap
        <5> QED  BY <3>1, <5>3
      <4>2. CASE ctx # "main"
        <5>1. pc'["main"] = pc["main"] /\ At("main") \in {"copy", "copyTail"}
          BY <1>0, <1>2, <3>2, <4>2, Advances, Same
        <5> QED  BY <1>0, <3>1, <5>1 DEF QueuedInv
      <4> QED  BY <4>1, <4>2
    <3> QED  BY <1>0, <3>1, <3>2 DEF QueuedInv
  <2> QED  BY <2>2, <2>3
<1>3. CASE pc' = pc /\ ~SendOurInfo /\ ~(\E ctx \in Context : Advance(ctx))
  <2>1. At("main")' = At("main")  BY <1>0, <1>3, Same
  <2>2. queued' = Junk \/ UNCHANGED <<queued, char_rx_value>>
    BY <1>0, <1>3 DEF Next, Arrive, FeedHead, FeedTail, Main, Stack, Alarm, CheckTnc, QueryTnc,
                ConnectionEvent, SendToClient, Advance, vars, shared
  <2> QED  BY <1>0, <1>3, <2>1, <2>2 DEF QueuedInv
<1>4. ASSUME NEW ctx \in Context, NEW job \in Job, NEW frame \in Piece,
             pc' = [pc EXCEPT ![ctx] = Begin(job, frame)],
             UNCHANGED <<queued, char_rx_value, uart, sent>>
      PROVE  QueuedInv'
  <2>1. At("main")' \in {"copy", "copyTail"} => pc'["main"] = pc["main"]
    BY <1>4, BeginsOutside
  <2>2. pc'["main"] = pc["main"] => At("main")' = At("main")  BY <1>0, Same
  <2> QED  BY <1>0, <1>4, <2>1, <2>2 DEF QueuedInv
<1> QED  BY <1>1, <1>2, <1>3, <1>4, Moves

LEMMA ToTncKept ==
  ASSUME TypeOK, WindowInv, ToTncWhole, [Next]_vars
  PROVE  ToTncWhole'
<1>0. hit \subseteq hit'  BY HitGrows
<1>1. CASE uart' = uart
  BY <1>0, <1>1 DEF ToTncWhole
<1>2. CASE QueryTnc
  <2>1. uart'[2] = [for |-> Query, half |-> 0, is |-> Query]  BY <1>2 DEF QueryTnc
  <2> QED  BY <2>1 DEF ToTncWhole
<1>3. ASSUME NEW ctx \in Context, Advance(ctx), At(ctx) = "uart"
      PROVE  ToTncWhole'
  <2> DEFINE frame == pc[ctx].frame
  <2>1. uart'[2] = [for |-> frame, half |-> 1, is |-> scratch[1]]  BY <1>3, Effects
  <2>2. Window(ctx)  BY <1>3, Labels DEF Half1
  <2>3. frame \notin hit => scratch[1] = frame  BY <1>3, <2>2 DEF WindowInv, Half1
  <2> HIDE DEF frame
  <2>4. /\ uart'[2].for = frame /\ uart'[2].half = 1 /\ uart'[2].is = scratch[1]
    BY <2>1
  <2> QED  BY <1>0, <2>3, <2>4 DEF ToTncWhole
<1>4. ASSUME NEW ctx \in Context, Advance(ctx), At(ctx) = "uartTail"
      PROVE  ToTncWhole'
  <2> DEFINE frame == pc[ctx].frame
  <2>1. uart' = <<uart[2], [for |-> frame, half |-> 2, is |-> scratch[2]]>>  BY <1>4, Effects
  <2>2. Window(ctx)  BY <1>4, Labels DEF Half1
  <2>3. frame \notin hit => scratch[2] = frame /\ uart[2] = [for |-> frame, half |-> 1, is |-> frame]
    BY <1>4, <2>2 DEF WindowInv, Half1, Half2
  <2> HIDE DEF frame
  <2>4. /\ uart'[2].for = frame /\ uart'[2].half = 2 /\ uart'[2].is = scratch[2]
        /\ uart'[1] = uart[2]
    BY <2>1
  <2>5. frame \notin hit => uart'[1].for = frame /\ uart'[1].half = 1  BY <2>3, <2>4
  <2> QED  BY <1>0, <2>3, <2>4, <2>5 DEF ToTncWhole
<1>5. \/ uart' = uart \/ QueryTnc
      \/ \E ctx \in Context : Advance(ctx) /\ At(ctx) \in {"uart", "uartTail"}
  <2>1. \A ctx \in Context : Advance(ctx) => uart' = uart \/ At(ctx) \in {"uart", "uartTail"}
    BY Effects
  <2>2. "main" \in Context /\ "stack" \in Context  BY DEF Context
  <2>3. CASE Arrive \/ CheckTnc \/ ConnectionEvent \/ SendToClient \/ SendOurInfo \/ UNCHANGED vars
    BY <2>3 DEF Arrive, FeedHead, FeedTail, CheckTnc, ConnectionEvent, SendToClient, SendOurInfo,
                vars, shared
  <2> QED  BY <2>1, <2>2, <2>3 DEF Next, Main, Stack, Alarm, Advance
<1> QED  BY <1>1, <1>2, <1>3, <1>4, <1>5

LEMMA ToClientsKept ==
  ASSUME TypeOK, QueuedInv, ToClientsWhole, [Next]_vars
  PROVE  ToClientsWhole'
<1>0. hit \subseteq hit'  BY HitGrows
<1>1. CASE sent' = sent
  BY <1>0, <1>1 DEF ToClientsWhole
<1>2. CASE SendToClient
  <2>1. queued # Junk /\ sent' = [for |-> queued, head |-> char_rx_value[1], tail |-> char_rx_value[2]]
    BY <1>2 DEF SendToClient
  <2>2. queued \notin hit => char_rx_value = <<queued, queued>>  BY <2>1 DEF QueuedInv
  <2>3. sent'.for = queued /\ sent'.head = char_rx_value[1] /\ sent'.tail = char_rx_value[2]
    BY <2>1
  <2>4. queued \notin hit => char_rx_value[1] = queued /\ char_rx_value[2] = queued  BY <2>2
  <2> QED  BY <1>0, <2>3, <2>4 DEF ToClientsWhole
<1>3. sent' = sent \/ SendToClient
  <2>1. \A ctx \in Context : Advance(ctx) => sent' = sent  BY Effects
  <2>2. "main" \in Context /\ "stack" \in Context  BY DEF Context
  <2>3. CASE Arrive \/ CheckTnc \/ ConnectionEvent \/ Alarm \/ UNCHANGED vars
    BY <2>3 DEF Arrive, FeedHead, FeedTail, CheckTnc, ConnectionEvent, Alarm, QueryTnc, SendOurInfo,
                vars, shared
  <2> QED  BY <2>1, <2>2, <2>3 DEF Next, Main, Stack, Advance
<1> QED  BY <1>1, <1>2, <1>3

---------------------------------------------------------------------------

LEMMA InitInv == Init => IInv
<1> SUFFICES ASSUME Init PROVE IInv
  OBVIOUS
<1>1. TypeOK  BY InitTypes
<1>2. \A ctx \in Context : pc[ctx] = Idle  BY DEF Init
<1>3. \A ctx \in Context : At(ctx) = "idle" /\ ~Window(ctx) /\ pc[ctx].job = "none" /\ pc[ctx].frame = Junk
  BY <1>1, <1>2, Busy DEF Idle
<1>4. "main" \in Context /\ "stack" \in Context /\ "none" \notin DOMAIN Relays
  BY RelaysIs DEF Context
<1>5. \A p \in Parser : parser[p].fed = 0  BY DEF Init, Empty
<1>6. JobInv  BY <1>3, <1>4, <1>5 DEF JobInv, Held
<1>7. WaitingInv  BY <1>5 DEF WaitingInv, Waiting
<1>8. WindowInv /\ StackInv  BY <1>3, <1>4 DEF WindowInv, StackInv
<1>9. QueuedInv  BY <1>3, <1>4 DEF QueuedInv, Init
<1>10. ToTncWhole  BY DEF ToTncWhole, Init, Nothing
<1>11. ToClientsWhole  BY DEF ToClientsWhole, Init
<1> QED  BY <1>1, <1>6, <1>7, <1>8, <1>9, <1>10, <1>11 DEF IInv

LEMMA NextInv == IInv /\ [Next]_vars => IInv'
BY TypesKept, JobKept, WaitingKept, WindowKept, StackKept, QueuedKept, ToTncKept, ToClientsKept
   DEF IInv

LEMMA Invariance == Spec => []IInv
BY InitInv, NextInv, PTL DEF Spec

\* Whatever the interleaving of the main loop, BTstack's context and the alarms, the
\* shared variables stay within their types: a context is idle or at a step of its
\* job, half a buffer is half of a frame begun, or junk, and there are no more
\* alarms than MaxAlarms.
THEOREM TypeCorrect == Spec => []TypeOK
<1>1. IInv => TypeOK  BY DEF IInv
<1> QED  BY <1>1, Invariance, PTL

\* What ble_write_callback and spp_write_callback write to the UART of a frame that no
\* other context came across from kiss_read on is that frame, its second half right
\* after its first, for any number of frames and alarms.
THEOREM ToTnc == Spec => []ToTncWhole
<1>1. IInv => ToTncWhole  BY DEF IInv
<1> QED  BY <1>1, Invariance, PTL

\* A packet that BTstack takes from char_rx_value is the frame for which handle_tnc_rx_data
\* set the length, unless another context came across that frame.
THEOREM ToClients == Spec => []ToClientsWhole
<1>1. IInv => ToClientsWhole  BY DEF IInv
<1> QED  BY <1>1, Invariance, PTL

---------------------------------------------------------------------------
(* The mutex of the card.                                                  *)

\* The card's mutex is with the context that has locked and not yet unlocked it.
MutexInv == \A ctx \in Context : card = ctx <=> At(ctx) = "unlock"

\* A context that could go on but for the mutex is BTstack's, and the main loop, which it has
\* preempted, has the mutex.
WaitsOnlyForMain ==
  \A ctx \in Context :
    Runs(ctx) /\ At(ctx) = "lock" /\ card # "free" =>
      ctx = "stack" /\ card = "main" /\ At("main") = "unlock"

\* In every job an unlock comes after each lock, and after nothing else.
LEMMA LockPairs ==
  ASSUME NEW job \in Job, NEW at \in 1..Len(Steps[job])
  PROVE  /\ at + 1 <= Len(Steps[job]) => (Steps[job][at] = "lock" <=> Steps[job][at + 1] = "unlock")
         /\ at + 1 > Len(Steps[job]) => Steps[job][at] # "lock"
<1> DEFINE S == Steps[job]
<1>1. CASE job = "tnc"
  <2>1. /\ S[1] = "read" /\ S[2] = "display" /\ S[3] = "lock" /\ S[4] = "unlock"
        /\ S[5] = "text" /\ S[6] = "lock" /\ S[7] = "unlock" /\ S[8] = "encode"
        /\ S[9] = "encodeTail" /\ S[10] = "offer" /\ S[11] = "copy" /\ S[12] = "copyTail"
        /\ S[13] = "copy" /\ S[14] = "copyTail" /\ S[15] = "init"
    BY <1>1, RxTable
  <2>2. \A i \in 1..14 : S[i] = "lock" <=> S[i + 1] = "unlock"
    <3> SUFFICES ASSUME NEW i \in 1..14 PROVE S[i] = "lock" <=> S[i + 1] = "unlock"
      OBVIOUS
    <3> HIDE DEF S
    <3>1. i \in 1..7 \/ i \in 8..14
      OBVIOUS
    <3>2. CASE i \in 1..7
      BY <2>1, <3>2
    <3>3. CASE i \in 8..14
      BY <2>1, <3>3
    <3> QED  BY <3>1, <3>2, <3>3
  <2>3. at \in 1..15 /\ Len(S) = 15  BY <1>1, Lengths
  <2>4. at \in 1..14 \/ at = 15  BY <2>3
  <2> QED  BY <2>1, <2>2, <2>3, <2>4
<1>2. CASE job \in {"ble", "spp"}
  <2>1. /\ S[1] = "read" /\ S[2] = "encode" /\ S[3] = "encodeTail" /\ S[4] = "uart"
        /\ S[5] = "uartTail" /\ S[6] = "display" /\ S[7] = "lock" /\ S[8] = "unlock"
        /\ S[9] = "text" /\ S[10] = "lock" /\ S[11] = "unlock" /\ S[12] = "init"
    BY <1>2, TxTable
  <2>2. \A i \in 1..11 : S[i] = "lock" <=> S[i + 1] = "unlock"
    <3> SUFFICES ASSUME NEW i \in 1..11 PROVE S[i] = "lock" <=> S[i + 1] = "unlock"
      OBVIOUS
    <3> HIDE DEF S
    <3>1. i \in 1..5 \/ i \in 6..11
      OBVIOUS
    <3>2. CASE i \in 1..5
      BY <2>1, <3>2
    <3>3. CASE i \in 6..11
      BY <2>1, <3>3
    <3> QED  BY <3>1, <3>2, <3>3
  <2>3. at \in 1..12 /\ Len(S) = 12  BY <1>2, Lengths
  <2>4. at \in 1..11 \/ at = 12  BY <2>3
  <2> QED  BY <2>1, <2>2, <2>3, <2>4
<1>3. CASE job = "version"
  <2>1. at \in {1, 2, 3, 4} /\ Len(Steps[job]) = 4  BY <1>3, Lengths
  <2> QED  BY <1>3, <2>1, OtherTable
<1>4. CASE job = "connect"
  <2>1. at \in {1, 2, 3} /\ Len(Steps[job]) = 3  BY <1>4, Lengths
  <2> QED  BY <1>4, <2>1, OtherTable
<1>5. CASE job = "disconnect"
  <2>1. at \in {1, 2, 3} /\ Len(Steps[job]) = 3  BY <1>5, Lengths
  <2> QED  BY <1>5, <2>1, OtherTable
<1> QED  BY <1>1, <1>2, <1>3, <1>4, <1>5, Jobs

\* A step leads to an unlock when it is a lock, and only then.
LEMMA UnlockNext ==
  ASSUME TypeOK, NEW ctx \in Context, NEW step, step # "idle", Do(ctx, step)
  PROVE  /\ At(ctx) = step
         /\ At(ctx)' = "unlock" <=> step = "lock"
         /\ \A other \in Context : other # ctx => At(other)' = At(other)
<1> DEFINE job == pc[ctx].job
           at  == pc[ctx].at
<1>1. pc[ctx] # Idle /\ Skip(ctx, 1) /\ At(ctx) = step  BY DoStep
<1>2. /\ job \in Job /\ at \in 1..Len(Steps[job]) /\ At(ctx) = Steps[job][at]
      /\ Len(Steps[job]) \in Nat
  BY <1>1, Busy, Domains
<1>3. /\ \A other \in Context : other # ctx => pc'[other] = pc[other]
      /\ at + 1 > Len(Steps[job]) => pc'[ctx] = Idle
      /\ at + 1 <= Len(Steps[job]) =>
           pc'[ctx] = [job |-> job, at |-> at + 1, frame |-> pc[ctx].frame]
  BY <1>1, SkipField
<1>4. \A other \in Context : other # ctx => At(other)' = At(other)
  BY <1>3, Same
<1>5. CASE at + 1 > Len(Steps[job])
  <2>1. At(ctx)' = "idle"  BY <1>3, <1>5 DEF At
  <2>2. step # "lock"  BY <1>1, <1>2, <1>5, LockPairs
  <2> QED  BY <1>1, <1>4, <2>1, <2>2
<1>6. CASE at + 1 <= Len(Steps[job])
  <2>1. pc'[ctx].job = job /\ pc'[ctx].at = at + 1  BY <1>3, <1>6
  <2>2. pc'[ctx] # Idle
    <3>1. job # "none"  BY <1>2, Jobs
    <3> QED  BY <2>1, <3>1 DEF Idle
  <2>3. At(ctx)' = Steps[job][at + 1]  BY <2>1, <2>2 DEF At
  <2>4. Steps[job][at] = "lock" <=> Steps[job][at + 1] = "unlock"
    BY <1>2, <1>6, LockPairs
  <2> QED  BY <1>1, <1>2, <1>4, <2>3, <2>4
<1> QED  BY <1>2, <1>5, <1>6

\* Who does not touch the card, and is not at an unlock before or after, keeps MutexInv.
LEMMA MutexAside ==
  ASSUME TypeOK, MutexInv, NEW ctx \in Context, card' = card,
         At(ctx) # "unlock", At(ctx)' # "unlock",
         \A other \in Context : other # ctx => At(other)' = At(other)
  PROVE  MutexInv'
BY DEF MutexInv

LEMMA RelayMutex ==
  ASSUME TypeOK, MutexInv, NEW ctx \in Context, Relay(ctx)
  PROVE  MutexInv'
<1>1. card \in {"free"} \cup Context /\ "free" \notin Context  BY DEF TypeOK, Context
<1>2. CASE Lock(ctx)
  <2>1. card = "free" /\ card' = ctx /\ Do(ctx, "lock")  BY <1>2 DEF Lock
  <2>2. /\ At(ctx)' = "unlock"
        /\ \A other \in Context : other # ctx => At(other)' = At(other)
    BY <2>1, UnlockNext
  <2> QED  BY <1>1, <2>1, <2>2 DEF MutexInv
<1>3. CASE Unlock(ctx)
  <2>1. card' = "free" /\ Do(ctx, "unlock")  BY <1>3 DEF Unlock
  <2>2. /\ At(ctx) = "unlock" /\ At(ctx)' # "unlock"
        /\ \A other \in Context : other # ctx => At(other)' = At(other)
    BY <2>1, UnlockNext
  <2>3. card = ctx  BY <2>2 DEF MutexInv
  <2> QED  BY <1>1, <2>1, <2>2, <2>3 DEF MutexInv
<1>4. CASE Relay(ctx) /\ ~Lock(ctx) /\ ~Unlock(ctx)
  <2>1. \E step \in {"read", "encode", "encodeTail", "display", "text", "uart", "uartTail", "init"} :
          Do(ctx, step)
    BY <1>4 DEF Relay, Read, Encode, Display, Text, WriteUart, InitParser
  <2>2. card' = card
    BY <1>4 DEF Relay, Read, Encode, Display, Text, WriteUart, InitParser, shared
  <2>3. PICK step \in {"read", "encode", "encodeTail", "display", "text", "uart", "uartTail", "init"} :
          Do(ctx, step)
    BY <2>1
  <2>4. /\ At(ctx) # "unlock" /\ At(ctx)' # "unlock"
        /\ \A other \in Context : other # ctx => At(other)' = At(other)
    BY <2>3, UnlockNext
  <2> QED  BY <2>2, <2>4, MutexAside
<1> QED  BY <1>2, <1>3, <1>4

\* A context that begins a job does not begin it with an unlock.
LEMMA BeginMutex ==
  ASSUME TypeOK, MutexInv, NEW ctx \in Context, pc[ctx] = Idle, card' = card,
         NEW job \in Job, NEW frame, pc' = [pc EXCEPT ![ctx] = Begin(job, frame)]
  PROVE  MutexInv'
<1>1. pc'[ctx] = Begin(job, frame) /\ \A other \in Context : other # ctx => pc'[other] = pc[other]
  BY Begins
<1>2. pc'[ctx].job \in Job /\ pc'[ctx].at = 1  BY <1>1 DEF Begin
<1>3. At(ctx)' \in {"read", "lock"}  BY <1>2, BeginSteps
<1>4. At(ctx) = "idle"  BY Busy
<1>5. \A other \in Context : other # ctx => At(other)' = At(other)  BY <1>1, Same
<1> QED  BY <1>3, <1>4, <1>5, MutexAside

LEMMA MutexKept ==
  ASSUME TypeOK, MutexInv, [Next]_vars
  PROVE  MutexInv'
<1>1. "main" \in Context /\ "stack" \in Context  BY DEF Context
<1>2. ASSUME pc' = pc, card' = card PROVE MutexInv'
  <2>1. \A ctx \in Context : At(ctx)' = At(ctx)  BY <1>2, Same
  <2> QED  BY <1>2, <2>1 DEF MutexInv
<1>3. CASE UNCHANGED vars
  BY <1>2, <1>3 DEF vars, shared
<1>4. CASE Alarm
  BY <1>2, <1>4 DEF Alarm, QueryTnc, SendOurInfo
<1>5. CASE Arrive
  <2>1. ASSUME NEW p \in Parser, NEW kind \in Kinds[p], FeedHead(p, kind) PROVE MutexInv'
    BY <1>2, <2>1 DEF FeedHead
  <2>2. ASSUME NEW p \in Parser, FeedTail(p) PROVE MutexInv'
    <3>1. card' = card /\ p \in {"tnc", "ble", "spp"} /\ Feeds(p)  BY <2>2 DEF FeedTail, Parser
    <3>2. CASE p = "tnc"
      <4>1. pc' = pc  BY <2>2, <3>2 DEF FeedTail
      <4> QED  BY <1>2, <3>1, <4>1
    <3>3. CASE p = "ble"
      <4>1. pc' = [pc EXCEPT !["main"] = Begin("ble", parser["ble"].frame)] /\ pc["main"] = Idle
        BY <2>2, <3>1, <3>3 DEF FeedTail, Feeds
      <4> QED  BY <1>1, <3>1, <4>1, BeginMutex, Jobs
    <3>4. CASE p = "spp"
      <4>1. pc' = [pc EXCEPT !["stack"] = Begin("spp", parser["spp"].frame)] /\ pc["stack"] = Idle
        BY <2>2, <3>1, <3>4 DEF FeedTail, Feeds
      <4> QED  BY <1>1, <3>1, <4>1, BeginMutex, Jobs
    <3> QED  BY <3>1, <3>2, <3>3, <3>4
  <2> QED  BY <1>5, <2>1, <2>2 DEF Arrive
<1>6. CASE Main
  <2>1. CASE CheckTnc
    <3>1. /\ pc["main"] = Idle /\ card' = card
          /\ \/ pc' = [pc EXCEPT !["main"] = Begin("version", parser["tnc"].frame)]
             \/ pc' = [pc EXCEPT !["main"] = Begin("tnc", parser["tnc"].frame)]
      BY <2>1 DEF CheckTnc, shared
    <3> QED  BY <1>1, <3>1, BeginMutex, Jobs
  <2>2. CASE Relay("main")  BY <1>1, <2>2, RelayMutex
  <2>3. CASE Offer \/ NoClient
    <3>1. /\ At("main") \in {"offer", "copy"} /\ At("main")' \in {"copy", "init"}
          /\ pc'["stack"] = pc["stack"]
      BY <2>3, Leap
    <3>2. card' = card  BY <2>3 DEF Offer, NoClient, shared
    <3>3. \A other \in Context : other # "main" => At(other)' = At(other)
      BY <3>1, Same DEF Context
    <3> QED  BY <1>1, <3>1, <3>2, <3>3, MutexAside
  <2>4. CASE CopyHead \/ CopyTail
    <3>1. PICK step \in {"copy", "copyTail"} : Do("main", step)
      BY <2>4 DEF CopyHead, CopyTail
    <3>2. card' = card  BY <2>4 DEF CopyHead, CopyTail
    <3>3. /\ At("main") # "unlock" /\ At("main")' # "unlock"
          /\ \A other \in Context : other # "main" => At(other)' = At(other)
      BY <1>1, <3>1, UnlockNext
    <3> QED  BY <1>1, <3>2, <3>3, MutexAside
  <2> QED  BY <1>6, <2>1, <2>2, <2>3, <2>4 DEF Main
<1>7. CASE Stack
  <2>1. CASE Relay("stack")  BY <1>1, <2>1, RelayMutex
  <2>2. CASE ConnectionEvent
    <3>1. /\ pc["stack"] = Idle /\ card' = card
          /\ \E job \in {"connect", "disconnect"} : pc' = [pc EXCEPT !["stack"] = Begin(job, Junk)]
      BY <2>2 DEF ConnectionEvent, shared
    <3> QED  BY <1>1, <3>1, BeginMutex, Jobs
  <2>3. CASE Schedule \/ Forget
    <3>1. PICK step \in {"schedule", "forget"} : Do("stack", step)
      BY <2>3 DEF Schedule, Forget
    <3>2. card' = card  BY <2>3 DEF Schedule, Forget, shared
    <3>3. /\ At("stack") # "unlock" /\ At("stack")' # "unlock"
          /\ \A other \in Context : other # "stack" => At(other)' = At(other)
      BY <1>1, <3>1, UnlockNext
    <3> QED  BY <1>1, <3>2, <3>3, MutexAside
  <2>4. CASE SendToClient
    BY <1>2, <2>4 DEF SendToClient
  <2> QED  BY <1>7, <2>1, <2>2, <2>3, <2>4 DEF Stack
<1> QED  BY <1>3, <1>4, <1>5, <1>6, <1>7 DEF Next

LEMMA MutexInvariance == Spec => []MutexInv
<1>1. Init => MutexInv
  <2> SUFFICES ASSUME Init PROVE MutexInv
    OBVIOUS
  <2>1. \A ctx \in Context : At(ctx) = "idle"  BY DEF Init, At
  <2>2. card = "free" /\ "free" \notin Context  BY DEF Init, Context
  <2> QED  BY <2>1, <2>2 DEF MutexInv
<1>2. TypeOK /\ MutexInv /\ [Next]_vars => MutexInv'  BY MutexKept
<1> QED  BY <1>1, <1>2, TypeCorrect, PTL DEF Spec

\* A context that waits for the card (f_sync, logger.c) is a callback of BTstack that came into
\* the main loop's own f_sync, which is one of the two ways to hang in FrameIsFinished: the
\* main loop never finds the mutex taken, and no context waits for itself.
THEOREM Hangs == Spec => []WaitsOnlyForMain
<1>1. TypeOK /\ MutexInv => WaitsOnlyForMain
  <2> SUFFICES ASSUME TypeOK, MutexInv, NEW ctx \in Context, Runs(ctx), At(ctx) = "lock", card # "free"
               PROVE  ctx = "stack" /\ card = "main" /\ At("main") = "unlock"
    BY DEF WaitsOnlyForMain
  <2>1. Context = {"main", "stack"} /\ card \in {"free"} \cup Context  BY DEF TypeOK, Context
  <2>2. card # ctx /\ card \in Context /\ At(card) = "unlock"  BY <2>1 DEF MutexInv
  <2>3. ctx # "main"
    <3>1. ASSUME ctx = "main" PROVE FALSE
      <4>1. card = "stack" /\ pc["stack"] = Idle  BY <2>1, <2>2, <3>1 DEF Runs
      <4>2. At("stack") = "idle"  BY <4>1 DEF At
      <4> QED  BY <2>2, <4>1, <4>2
    <3> QED  BY <3>1
  <2> QED  BY <2>1, <2>2, <2>3
<1> QED  BY <1>1, MutexInvariance, TypeCorrect, PTL
==========================================================================
