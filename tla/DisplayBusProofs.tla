--------------------------- MODULE DisplayBusProofs ---------------------------
(***************************************************************************)
(* Proofs about the display bus, for any panel of the SH1106 kind, any     *)
(* transfer size and any number of restarts, wherever they come.           *)
(***************************************************************************)
EXTENDS DisplayBus, TLAPS

-----------------------------------------------------------------------------
(* The inductive invariant.                                                *)

\* Where the host is in the initialisation, the tile rows and their transfers.
Control ==
    /\ pc \in {"init", "wake", "cmds", "data", "idle"}
    /\ k \in 1 .. IF pc = "init" THEN 21 ELSE IF pc = "cmds" THEN 4 ELSE 1
    /\ row \in Rows /\ off \in Nat
    /\ IF pc = "data" THEN off < Width ELSE off = 0
    /\ pc \notin {"cmds", "data"} => row = 0

\* Positions of InitSeq that hold the argument of the command before them.
ArgPos == {4, 6, 8, 11, 13, 15, 18, 21}

\* A command waits for its argument only inside the initialisation, and the
\* panel is dark then.  The first byte of a life may be taken for the argument
\* that the last life did not send.
Waiting ==
    /\ on \in BOOLEAN /\ need \in {None} \cup Double
    /\ need # None => ~on
    /\ pc = "init" /\ k > 1 =>
           ~on /\ need = IF k \in ArgPos THEN InitSeq[k - 1] ELSE None
    /\ pc # "init" => need = None

\* The registers that have got their value in this life.
Set == IF pc = "init" THEN 1 .. k - 1 ELSE 1 .. 21
Registers ==
    /\ regs \in [Double \cup Single -> Int]
    /\ \A i \in Set : i \in ArgPos => regs[InitSeq[i - 1]] = InitSeq[i]

\* The panel's address, as far as the commands of a row have set it.
Address ==
    /\ col \in Nat
    /\ pc = "cmds" /\ k > 2 => col \div 16 = XOffset \div 16
    /\ pc = "cmds" /\ k > 3 => col = XOffset
    /\ pc = "data" => col = XOffset + off /\ page = row

\* What the panel shows of the picture so far.
Shows(r, n) == \A c \in 0 .. n - 1 : ram[r][XOffset + c] = Byte(pic, r, c)
Shown ==
    /\ pc \in {"cmds", "data"} =>
           Shows(row, off) /\ \A r \in 0 .. row - 1 : Shows(r, Width)
    /\ pc = "idle" => \A r \in Rows : Shows(r, Width)

BusInv == Control /\ Waiting /\ Registers /\ Address /\ NothingOutside /\ Shown
-----------------------------------------------------------------------------
(* The commands of the initialisation and which of them take an argument.  *)
LEMMA InitBytes ==
    /\ Len(InitSeq) = 21 /\ \A i \in 1 .. 21 : InitSeq[i] \in Nat
    /\ InitSeq[1] = DisplayOff /\ 1 \notin ArgPos /\ 2 \notin ArgPos
    /\ InitSeq[1] \notin Double
    /\ \A i \in 1 .. 20 : i + 1 \in ArgPos <=>
           i \notin ArgPos /\ InitSeq[i] \in Double
    /\ \A i \in 1 .. 21 \ ArgPos : InitSeq[i] # DisplayOn
    /\ \A i \in ArgPos : /\ i \in 2 .. 21 /\ i - 1 \notin ArgPos
                         /\ InitSeq[i - 1] \in Double
                         /\ InitSeq[i] \notin Double
    /\ \A i, j \in ArgPos : i # j => InitSeq[i - 1] # InitSeq[j - 1]
    /\ 21 \in ArgPos
BY DEF InitSeq, DisplayOff, DisplayOn, Double, ArgPos

(* Commands with an argument are told from all others.                     *)
LEMMA Opcodes ==
    /\ None \notin Double /\ DisplayOn \notin Double /\ DisplayOff \notin Double
    /\ DisplayOn # DisplayOff
    /\ Double \cap Single = {}
    /\ \A b \in Nat : b \in 0 .. 31 \/ b = 64 \/ b \in 176 .. 191 =>
          b \notin Double /\ b # DisplayOn /\ b # DisplayOff
BY DEF None, Double, Single, DisplayOn, DisplayOff

(* The address commands of a tile row.                                     *)
LEMMA RowBytesAll ==
    /\ RowBytes = Width /\ Width \in Nat /\ Width > 0
    /\ XOffset \in Nat /\ XOffset + Width <= Columns /\ TileHeight \in 1 .. 16
BY BusAssumption, WidthAssumption DEF RowBytes, Width

(* They name the column and the page of the row.                           *)
LEMMA RowCmdBytes ==
    ASSUME NEW r \in Rows
    PROVE  /\ RowCmds(r)[1] = 64
           /\ RowCmds(r)[2] = 16 + XOffset \div 16 /\ XOffset \div 16 \in 0 .. 15
           /\ RowCmds(r)[3] = XOffset % 16 /\ XOffset % 16 \in 0 .. 15
           /\ RowCmds(r)[4] = 176 + r /\ r \in 0 .. 15
           /\ XOffset = 16 * (XOffset \div 16) + (XOffset % 16)
<1>1. XOffset % 256 = XOffset /\ XOffset \in 0 .. 255
  BY BusAssumption, WidthAssumption
<1>2. r \in 0 .. 15
  BY BusAssumption DEF Rows
<1>3. /\ XOffset \div 16 \in 0 .. 15 /\ XOffset % 16 \in 0 .. 15
      /\ XOffset = 16 * (XOffset \div 16) + (XOffset % 16)
  BY <1>1
<1>. QED  BY <1>1, <1>2, <1>3 DEF RowCmds

(* What the panel makes of a command byte.                                 *)
LEMMA CommandStep ==
    ASSUME NEW b \in Nat, Command(b), Waiting, Registers, Address
    PROVE  /\ ram' = ram /\ regs' \in [Double \cup Single -> Int]
           /\ \A d \in Double : regs'[d] = IF need = d THEN b ELSE regs[d]
           /\ need' \in {None} \cup Double /\ on' \in BOOLEAN /\ col' \in Nat
           /\ need # None => need' = None /\ UNCHANGED <<on, page, col>>
           /\ need = None =>
                /\ need' = IF b \in Double THEN b ELSE None
                /\ on' = IF b = DisplayOn THEN TRUE
                         ELSE IF b = DisplayOff THEN FALSE ELSE on
                /\ page' = IF b \in 176 .. 191 THEN b - 176 ELSE page
                /\ col' = IF b \in 0 .. 15 THEN 16 * (col \div 16) + b
                          ELSE IF b \in 16 .. 31 THEN 16 * (b - 16) + (col % 16)
                          ELSE col
<1>0. /\ regs \in [Double \cup Single -> Int] /\ need \in {None} \cup Double
      /\ on \in BOOLEAN /\ col \in Nat
  BY DEF Waiting, Registers, Address
<1>1. CASE need # None
  <2>1. /\ regs' = [regs EXCEPT ![need] = b] /\ need' = None
        /\ UNCHANGED <<on, page, col, ram>>
    BY <1>1 DEF Command
  <2>2. /\ regs' \in [Double \cup Single -> Int]
        /\ \A d \in Double : regs'[d] = IF need = d THEN b ELSE regs[d]
    BY <1>0, <1>1, <2>1
  <2>. QED  BY <1>0, <1>1, <2>1, <2>2
<1>2. CASE need = None
  <2>1. /\ need' = IF b \in Double THEN b ELSE None
        /\ on' = IF b = DisplayOn THEN TRUE
                 ELSE IF b = DisplayOff THEN FALSE ELSE on
        /\ page' = IF b \in 176 .. 191 THEN b - 176 ELSE page
        /\ col' = IF b \in 0 .. 15 THEN 16 * (col \div 16) + b
                  ELSE IF b \in 16 .. 31 THEN 16 * (b - 16) + (col % 16)
                  ELSE col
        /\ regs' = IF b \in Single THEN [regs EXCEPT ![b] = b] ELSE regs
        /\ ram' = ram
    BY <1>2 DEF Command
  <2>2. regs' \in [Double \cup Single -> Int]
    BY <1>0, <2>1
  <2>3. \A d \in Double : regs'[d] = IF need = d THEN b ELSE regs[d]
    BY <1>0, <1>2, <2>1, Opcodes
  <2>4. col' \in Nat
    <3>1. col \div 16 \in Nat /\ col % 16 \in Nat
      BY <1>0
    <3>. QED  BY <1>0, <2>1, <3>1
  <2>5. on' \in BOOLEAN
    BY <1>0, <2>1
  <2>. QED  BY <1>2, <2>1, <2>2, <2>3, <2>4, <2>5
<1>. QED  BY <1>1, <1>2

(* The byte that is sent next, by the host's position.                     *)
LEMMA CmdByte ==
    ASSUME Control, pc \in {"init", "wake", "cmds"}
    PROVE  /\ Cmd \in Nat
           /\ pc = "init" => Cmd = InitSeq[k] /\ k \in 1 .. 21
           /\ pc = "wake" => Cmd = DisplayOn
           /\ pc = "cmds" => Cmd = RowCmds(row)[k] /\ k \in 1 .. 4
                             /\ row \in Rows
           /\ pc # "init" => Cmd \notin Double
<1>1. CASE pc = "init"
  <2>1. Cmd = InitSeq[k] /\ k \in 1 .. 21
    BY <1>1 DEF Cmd, Control
  <2>. QED  BY <1>1, <2>1, InitBytes
<1>2. CASE pc = "wake"
  <2>1. Cmd = DisplayOn /\ DisplayOn \in Nat
    BY <1>2 DEF Cmd, DisplayOn
  <2>. QED  BY <1>2, <2>1, Opcodes
<1>3. CASE pc = "cmds"
  <2>1. Cmd = RowCmds(row)[k] /\ k \in 1 .. 4 /\ row \in Rows
    BY <1>3 DEF Cmd, Control
  <2>2. Cmd \in Nat /\ (Cmd \in 0 .. 31 \/ Cmd = 64 \/ Cmd \in 176 .. 191)
    <3>1. k = 1 \/ k = 2 \/ k = 3 \/ k = 4
      BY <2>1
    <3>. QED  BY <2>1, <3>1, RowCmdBytes
  <2>. QED  BY <1>3, <2>1, <2>2, Opcodes
<1>. QED  BY <1>1, <1>2, <1>3

(* A transfer that fails restarts the program; the panel stays where it    *)
(* was, perhaps waiting for an argument.                                   *)
LEMMA RestartInv ==
    ASSUME Restarted, regs' \in [Double \cup Single -> Int],
           need' \in {None} \cup Double, on' \in BOOLEAN, need' # None => ~on',
           col' \in Nat, NothingOutside'
    PROVE  BusInv'
<1>1. pc' = "init" /\ k' = 1 /\ row' = 0 /\ off' = 0
  BY DEF Restarted
<1>2. Control'
  <2>1. 0 \in Rows
    BY BusAssumption DEF Rows
  <2>. QED  BY <1>1, <2>1 DEF Control
<1>3. Waiting'
  BY <1>1 DEF Waiting
<1>4. Registers'
  BY <1>1 DEF Registers, Set
<1>5. Address' /\ Shown'
  BY <1>1 DEF Address, Shown
<1>. QED  BY <1>2, <1>3, <1>4, <1>5 DEF BusInv

(* A failed command keeps the invariant.                                   *)
LEMMA FailCmdInv == ASSUME BusInv, FailCmd PROVE BusInv'
<1> USE DEF BusInv
<1>0. pc \in {"init", "wake", "cmds"} /\ Restarted
  BY DEF FailCmd
<1>1. CASE Command(Cmd)
  <2>1. Cmd \in Nat
    BY <1>0, CmdByte
  <2>2. NothingOutside'
    BY <1>1, <2>1, CommandStep DEF NothingOutside
  <2>3. need' # None => ~on'
    <3> SUFFICES ASSUME need' # None PROVE ~on'
      OBVIOUS
    <3>1. need = None /\ Cmd \in Double
      BY <1>1, <2>1, CommandStep
    <3>2. pc = "init" /\ Cmd = InitSeq[k] /\ k \in 1 .. 21
      BY <1>0, <3>1, CmdByte
    <3>3. k # 1
      BY <3>1, <3>2, InitBytes
    <3>4. ~on
      BY <3>2, <3>3 DEF Waiting
    <3>. QED  BY <1>1, <2>1, <3>1, <3>4, CommandStep, Opcodes
  <2>. QED  BY <1>0, <1>1, <2>1, <2>2, <2>3, CommandStep, RestartInv
<1>2. CASE Ignored
  <2>1. UNCHANGED <<on, page, col, need, regs, ram>>
    BY <1>2 DEF Ignored, panel
  <2>2. NothingOutside' /\ regs' \in [Double \cup Single -> Int]
    BY <2>1 DEF NothingOutside, Registers
  <2>3. /\ need' \in {None} \cup Double /\ on' \in BOOLEAN /\ col' \in Nat
        /\ need' # None => ~on'
    BY <2>1 DEF Waiting, Address
  <2>. QED  BY <1>0, <2>2, <2>3, RestartInv
<1>. QED  BY <1>1, <1>2 DEF FailCmd

(* A command that arrives keeps the invariant.                             *)
LEMMA SendCmdInv == ASSUME BusInv, SendCmd PROVE BusInv'
<1> USE DEF BusInv
<1>0. /\ Advance /\ Command(Cmd) /\ UNCHANGED <<row, off, pic>>
      /\ pc \in {"init", "wake", "cmds"}
  BY DEF SendCmd, Advance
<1>1. Cmd \in Nat
  BY <1>0, CmdByte
<1>2. /\ ram' = ram /\ regs' \in [Double \cup Single -> Int]
      /\ \A d \in Double : regs'[d] = IF need = d THEN Cmd ELSE regs[d]
      /\ need' \in {None} \cup Double /\ on' \in BOOLEAN /\ col' \in Nat
  BY <1>0, <1>1, CommandStep
<1>3. NothingOutside'
  BY <1>2 DEF NothingOutside
<1>4. CASE pc = "init"
  <2>0. Cmd = InitSeq[k] /\ k \in 1 .. 21 /\ Len(InitSeq) = 21
    BY <1>0, <1>4, CmdByte, InitBytes
  <2>1. IF k < 21 THEN pc' = "init" /\ k' = k + 1 ELSE pc' = "wake" /\ k' = 1
    BY <1>0, <1>4, <2>0 DEF Advance
  <2>2. Control'
    BY <1>0, <1>4, <2>0, <2>1 DEF Control
  <2>3. ~on' /\ need' = IF k + 1 \in ArgPos THEN InitSeq[k] ELSE None
    <3>1. CASE k = 1
      <4>1. Cmd = DisplayOff /\ Cmd \notin Double /\ k + 1 \notin ArgPos
        BY <2>0, <3>1, InitBytes
      <4>2. CASE need = None
        BY <1>0, <1>1, <4>1, <4>2, CommandStep, Opcodes
      <4>3. CASE need # None
        <5>1. ~on
          BY <4>3 DEF Waiting
        <5>. QED  BY <1>0, <1>1, <4>1, <4>3, <5>1, CommandStep
      <4>. QED  BY <4>2, <4>3
    <3>2. CASE k # 1
      <4>1. k > 1 /\ k - 1 \in 1 .. 21 /\ k \in 2 .. 21
        BY <2>0, <3>2
      <4>2. ~on /\ need = IF k \in ArgPos THEN InitSeq[k - 1] ELSE None
        BY <1>4, <4>1 DEF Waiting
      <4>3. CASE k \in ArgPos
        <5>1. need # None /\ k + 1 \notin ArgPos
          BY <3>2, <4>2, <4>3, InitBytes, Opcodes DEF ArgPos
        <5>. QED  BY <1>0, <1>1, <4>2, <5>1, CommandStep
      <4>4. CASE k \notin ArgPos
        <5>1. k + 1 \in ArgPos <=> InitSeq[k] \in Double
          <6>1. CASE k < 21
            <7>1. k \in 1 .. 20
              BY <2>0, <6>1
            <7>. QED  BY <4>4, <7>1, InitBytes
          <6>2. CASE k = 21
            BY <4>4, <6>2, InitBytes
          <6>. QED  BY <2>0, <6>1, <6>2
        <5>2. Cmd # DisplayOn /\ need = None
          BY <2>0, <4>2, <4>4, InitBytes
        <5>3. need' = IF Cmd \in Double THEN Cmd ELSE None
          BY <1>0, <1>1, <5>2, CommandStep
        <5>4. on' = IF Cmd = DisplayOn THEN TRUE
                    ELSE IF Cmd = DisplayOff THEN FALSE ELSE on
          BY <1>0, <1>1, <5>2, CommandStep
        <5>5. ~on'
          BY <4>2, <5>2, <5>4
        <5>. QED  BY <2>0, <5>1, <5>3, <5>5
      <4>. QED  BY <4>3, <4>4
    <3>. QED  BY <3>1, <3>2
  <2>4. Waiting'
    <3>1. CASE k < 21
      <4>1. k' - 1 = k /\ pc' = "init" /\ k' = k + 1
        BY <2>0, <2>1, <3>1
      <4>. QED  BY <1>2, <2>3, <4>1 DEF Waiting
    <3>2. CASE k = 21
      <4>1. pc' = "wake" /\ k + 1 \notin ArgPos
        BY <2>1, <3>2 DEF ArgPos
      <4>. QED  BY <1>2, <2>3, <4>1 DEF Waiting
    <3>. QED  BY <2>0, <3>1, <3>2
  <2>5. Registers'
    <3>1. Set' = 1 .. k
      <4>1. CASE k < 21
        <5>1. pc' = "init" /\ k' - 1 = k
          BY <2>0, <2>1, <4>1
        <5>. QED  BY <5>1 DEF Set
      <4>2. CASE k = 21
        <5>1. pc' = "wake"
          BY <2>1, <4>2
        <5>. QED  BY <4>2, <5>1 DEF Set
      <4>. QED  BY <2>0, <4>1, <4>2
    <3>2. ASSUME NEW i \in 1 .. k, i \in ArgPos
          PROVE  regs'[InitSeq[i - 1]] = InitSeq[i]
      <4>0. InitSeq[i - 1] \in Double
        BY <3>2, InitBytes
      <4>1. CASE i = k
        <5>1. need = InitSeq[i - 1]
          <6>1. k > 1
            BY <2>0, <3>2, <4>1, InitBytes
          <6>. QED  BY <1>4, <3>2, <4>1, <6>1 DEF Waiting
        <5>. QED  BY <1>2, <2>0, <4>0, <4>1, <5>1
      <4>2. CASE i # k
        <5>1. i \in Set
          BY <1>4, <2>0, <4>2 DEF Set
        <5>2. regs[InitSeq[i - 1]] = InitSeq[i]
          BY <3>2, <5>1 DEF Registers
        <5>3. need # InitSeq[i - 1]
          <6>1. k > 1
            BY <2>0, <4>2
          <6>2. CASE k \in ArgPos
            <7>1. need = InitSeq[k - 1]
              BY <1>4, <6>1, <6>2 DEF Waiting
            <7>. QED  BY <3>2, <4>2, <6>2, <7>1, InitBytes
          <6>3. CASE k \notin ArgPos
            <7>1. need = None
              BY <1>4, <6>1, <6>3 DEF Waiting
            <7>. QED  BY <4>0, <7>1, Opcodes
          <6>. QED  BY <6>2, <6>3
        <5>. QED  BY <1>2, <4>0, <5>2, <5>3
      <4>. QED  BY <4>1, <4>2
    <3>. QED  BY <1>2, <3>1, <3>2 DEF Registers
  <2>6. pc' \in {"init", "wake"}
    BY <2>1
  <2>7. Address' /\ Shown'
    BY <1>2, <2>6 DEF Address, Shown
  <2>. QED  BY <1>3, <2>2, <2>4, <2>5, <2>7
<1>5. CASE pc \in {"wake", "cmds"}
  <2>0. need = None /\ Cmd \notin Double
    BY <1>0, <1>5, CmdByte DEF Waiting
  <2>1. pc' \in {"cmds", "data"}
    BY <1>0, <1>5 DEF Advance
  <2>2. need' = None
    BY <1>0, <1>1, <2>0, CommandStep
  <2>3. Waiting'
    BY <1>2, <2>1, <2>2 DEF Waiting
  <2>4. Registers'
    <3>1. Set = 1 .. 21 /\ Set' = 1 .. 21
      BY <1>5, <2>1 DEF Set
    <3>2. \A d \in Double : regs'[d] = regs[d]
      BY <1>2, <2>0, Opcodes
    <3>3. \A i \in ArgPos : InitSeq[i - 1] \in Double
      BY InitBytes
    <3>. QED  BY <1>2, <3>1, <3>2, <3>3 DEF Registers
  <2>5. Control' /\ Address' /\ Shown'
    <3>1. CASE pc = "wake"
      <4>1. pc' = "cmds" /\ k' = 1 /\ row' = 0 /\ off' = 0
        BY <1>0, <3>1 DEF Advance, Control
      <4>2. Control'
        BY <1>0, <4>1 DEF Control
      <4>3. Address' /\ Shown'
        BY <1>2, <4>1 DEF Address, Shown, Shows
      <4>. QED  BY <4>2, <4>3
    <3>2. CASE pc = "cmds"
      <4>0. /\ k \in 1 .. 4 /\ row \in Rows /\ off = 0 /\ off' = 0 /\ row' = row
            /\ Cmd = RowCmds(row)[k]
        BY <1>0, <3>2, CmdByte DEF Control
      <4>1. IF k < 4 THEN pc' = "cmds" /\ k' = k + 1 ELSE pc' = "data" /\ k' = 1
        BY <1>0, <3>2, <4>0 DEF Advance
      <4>2. Control'
        BY <1>0, <3>2, <4>0, <4>1, RowBytesAll DEF Control
      <4>3. Shown'
        <5>1. Shows(row, off) /\ \A r \in 0 .. row - 1 : Shows(r, Width)
          BY <3>2 DEF Shown
        <5>. QED  BY <1>0, <1>2, <2>1, <4>0, <5>1 DEF Shown, Shows
      <4>4. /\ col' = IF Cmd \in 0 .. 15 THEN 16 * (col \div 16) + Cmd
                      ELSE IF Cmd \in 16 .. 31 THEN 16 * (Cmd - 16) + (col % 16)
                      ELSE col
            /\ page' = IF Cmd \in 176 .. 191 THEN Cmd - 176 ELSE page
        BY <1>0, <1>1, <2>0, CommandStep
      <4>5. CASE k = 1
        BY <1>2, <4>1, <4>2, <4>3, <4>5 DEF Address
      <4>6. CASE k = 2
        <5>1. col' = 16 * (XOffset \div 16) + (col % 16) /\ col \in Nat
              /\ XOffset \div 16 \in 0 .. 15
          BY <4>0, <4>4, <4>6, RowCmdBytes DEF Address
        <5>2. col' \div 16 = XOffset \div 16
          BY <5>1
        <5>. QED  BY <1>2, <4>1, <4>2, <4>3, <4>6, <5>2 DEF Address
      <4>7. CASE k = 3
        <5>1. col' = 16 * (col \div 16) + (XOffset % 16)
          BY <4>0, <4>4, <4>7, RowCmdBytes
        <5>2. col \div 16 = XOffset \div 16
          BY <3>2, <4>7 DEF Address
        <5>3. col' = XOffset
          BY <4>0, <5>1, <5>2, RowCmdBytes
        <5>4. col' \div 16 = XOffset \div 16
          BY <5>3
        <5>. QED  BY <1>2, <4>1, <4>2, <4>3, <4>7, <5>3, <5>4 DEF Address
      <4>8. CASE k = 4
        <5>1. Cmd = 176 + row /\ row \in 0 .. 15
          BY <4>0, <4>8, RowCmdBytes
        <5>2. page' = row /\ col' = col
          BY <4>4, <5>1
        <5>3. col = XOffset /\ XOffset \in Nat
          BY <3>2, <4>8, RowBytesAll DEF Address
        <5>. QED  BY <1>2, <4>0, <4>1, <4>2, <4>3, <4>8, <5>2, <5>3 DEF Address
      <4>. QED  BY <4>0, <4>2, <4>3, <4>5, <4>6, <4>7, <4>8
    <3>. QED  BY <1>5, <3>1, <3>2
  <2>. QED  BY <1>3, <2>3, <2>4, <2>5
<1>. QED  BY <1>0, <1>4, <1>5

(* Bytes of a data transfer arrive: they go to the window, behind those    *)
(* that have arrived before.                                               *)
LEMMA DataStep ==
    ASSUME BusInv, pc = "data", NEW n \in 0 .. ChunkLen(off), Data(n)
    PROVE  /\ off \in Nat /\ n \in Nat /\ off + n <= Width
           /\ ChunkLen(off) \in Nat /\ ChunkLen(off) > 0
           /\ off + ChunkLen(off) <= Width
           /\ \A r \in Rows, c \in 0 .. Width - 1 : ram'[r][XOffset + c] =
                 IF r = row /\ off <= c /\ c < off + n
                 THEN Byte(pic, row, c) ELSE ram[r][XOffset + c]
           /\ NothingOutside' /\ col' = XOffset + off + n
           /\ UNCHANGED <<on, page, need, regs>>
<1>0. /\ off \in Nat /\ off < Width /\ row \in Rows /\ col = XOffset + off
      /\ page = row
  BY DEF BusInv, Control, Address
<1>1. ChunkLen(off) \in Nat /\ ChunkLen(off) > 0 /\ off + ChunkLen(off) <= Width
  BY <1>0, RowBytesAll, BusAssumption DEF ChunkLen
<1>2. n \in Nat /\ off + n <= Width
  BY <1>0, <1>1, RowBytesAll
<1>3. ASSUME NEW r \in Rows, NEW c \in Cols
      PROVE  ram'[r][c] = IF r = row /\ c \in XOffset + off .. XOffset + off + n - 1
                          THEN Byte(pic, row, off + (c - (XOffset + off)))
                          ELSE ram[r][c]
  BY <1>0 DEF Data, TransferByte
<1>4. Columns \in Int
  BY BusAssumption
<1>5. ASSUME NEW r \in Rows, NEW c \in 0 .. Width - 1
      PROVE  ram'[r][XOffset + c] = IF r = row /\ off <= c /\ c < off + n
                                    THEN Byte(pic, row, c) ELSE ram[r][XOffset + c]
  <2>1. /\ XOffset + c \in Cols
        /\ XOffset + c \in XOffset + off .. XOffset + off + n - 1
               <=> off <= c /\ c < off + n
        /\ off + ((XOffset + c) - (XOffset + off)) = c
    BY <1>0, <1>2, <1>4, RowBytesAll DEF Cols
  <2>2. ram'[r][XOffset + c] =
          IF r = row /\ XOffset + c \in XOffset + off .. XOffset + off + n - 1
          THEN Byte(pic, row, off + ((XOffset + c) - (XOffset + off)))
          ELSE ram[r][XOffset + c]
    BY <1>3, <2>1
  <2>. QED  BY <2>1, <2>2
<1>6. NothingOutside'
  <2> SUFFICES ASSUME NEW r \in Rows,
                      NEW c \in Cols \ (XOffset .. XOffset + Width - 1)
               PROVE  ram'[r][c] = Noise
    BY DEF NothingOutside
  <2>1. c \notin XOffset + off .. XOffset + off + n - 1
    BY <1>0, <1>2, <1>4, RowBytesAll DEF Cols
  <2>2. ram[r][c] = Noise
    BY DEF BusInv, NothingOutside
  <2>. QED  BY <1>3, <2>1, <2>2
<1>7. col' = XOffset + off + n /\ UNCHANGED <<on, page, need, regs>>
  BY <1>0 DEF Data
<1>. QED  BY <1>0, <1>1, <1>2, <1>5, <1>6, <1>7

(* A failed data transfer keeps the invariant.                             *)
LEMMA FailDataInv == ASSUME BusInv, FailData PROVE BusInv'
<1>1. PICK n \in 0 .. ChunkLen(off) : Data(n)
  BY DEF FailData
<1>2. pc = "data" /\ Restarted
  BY DEF FailData
<1>3. NothingOutside' /\ col' = XOffset + off + n /\ off \in Nat /\ n \in Nat
      /\ UNCHANGED <<on, page, need, regs>>
  BY <1>1, <1>2, DataStep
<1>4. col' \in Nat
  BY <1>3, RowBytesAll
<1>5. /\ regs' \in [Double \cup Single -> Int] /\ need' \in {None} \cup Double
      /\ on' \in BOOLEAN
      /\ need' # None => ~on'
  BY <1>3 DEF BusInv, Registers, Waiting
<1>. QED  BY <1>2, <1>3, <1>4, <1>5, RestartInv

(* A data transfer that succeeds keeps the invariant.                      *)
LEMMA SendDataInv == ASSUME BusInv, SendData PROVE BusInv'
<1> DEFINE n == ChunkLen(off)
<1>0. /\ pc = "data" /\ Data(n) /\ pic' = pic /\ k' = k
      /\ IF off + n < RowBytes
         THEN off' = off + n /\ UNCHANGED <<pc, row>> ELSE NextRow
  BY DEF SendData
<1>1. n \in 0 .. n
  <2>1. off \in Nat /\ off < Width
    BY <1>0 DEF BusInv, Control
  <2>2. n \in Nat
    BY <2>1, RowBytesAll, BusAssumption DEF ChunkLen
  <2>. QED  BY <2>2
<1>2. /\ off \in Nat /\ n \in Nat /\ n > 0 /\ off + n <= Width
      /\ \A r \in Rows, c \in 0 .. Width - 1 : ram'[r][XOffset + c] =
            IF r = row /\ off <= c /\ c < off + n
            THEN Byte(pic, row, c) ELSE ram[r][XOffset + c]
      /\ NothingOutside' /\ col' = XOffset + off + n
      /\ UNCHANGED <<on, page, need, regs>>
  BY <1>0, <1>1, DataStep
<1> HIDE DEF n
<1>3. /\ row \in Rows /\ row \in Nat /\ k = 1 /\ page = row
      /\ TileHeight \in Nat /\ row < TileHeight /\ Width \in Nat
      /\ RowBytes = Width /\ XOffset \in Nat
  BY <1>0, RowBytesAll DEF BusInv, Control, Address, Rows
<1>4. Waiting' /\ Registers'
  <2>1. pc' # "init" /\ pc # "init"
    BY <1>0 DEF NextRow
  <2>2. Waiting'
    BY <1>2, <2>1 DEF BusInv, Waiting
  <2>3. Registers'
    BY <1>2, <2>1 DEF BusInv, Registers, Set
  <2>. QED  BY <2>2, <2>3
<1>5. \A c \in 0 .. off + n - 1 : ram'[row][XOffset + c] = Byte(pic, row, c)
  <2>1. \A c \in 0 .. off - 1 : ram[row][XOffset + c] = Byte(pic, row, c)
    BY <1>0 DEF BusInv, Shown, Shows
  <2> TAKE c \in 0 .. off + n - 1
  <2>2. c \in 0 .. Width - 1 /\ (c \in 0 .. off - 1 \/ off <= c)
        /\ c < off + n
    BY <1>2, <1>3
  <2>. QED  BY <1>2, <1>3, <2>1, <2>2
<1>6. \A r \in 0 .. row - 1 : \A c \in 0 .. Width - 1 :
        ram'[r][XOffset + c] = Byte(pic, r, c)
  <2> TAKE r \in 0 .. row - 1
  <2> TAKE c \in 0 .. Width - 1
  <2>1. ram[r][XOffset + c] = Byte(pic, r, c)
    BY <1>0 DEF BusInv, Shown, Shows
  <2>2. r \in Rows /\ r # row
    BY <1>3 DEF Rows
  <2>. QED  BY <1>2, <2>1, <2>2
<1>7. pic' = pic
  BY <1>0
<1>8. CASE off + n < Width
  <2>1. off' = off + n /\ pc' = "data" /\ row' = row
    BY <1>0, <1>3, <1>8
  <2>2. Control'
    BY <1>0, <1>2, <1>3, <1>8, <2>1 DEF Control
  <2>3. Address'
    BY <1>2, <1>3, <2>1 DEF Address
  <2>4. Shown'
    <3>1. /\ \A c \in 0 .. off' - 1 : ram'[row'][XOffset + c] = Byte(pic', row', c)
          /\ \A r \in 0 .. row' - 1 : \A c \in 0 .. Width - 1 :
               ram'[r][XOffset + c] = Byte(pic', r, c)
      <4>1. 0 .. off' - 1 = 0 .. off + n - 1 /\ 0 .. row' - 1 = 0 .. row - 1
        BY <1>2, <1>3, <2>1
      <4>. QED  BY <1>5, <1>6, <1>7, <2>1, <4>1
    <3>. QED  BY <2>1, <3>1 DEF Shown, Shows
  <2>. QED  BY <1>2, <1>4, <2>2, <2>3, <2>4 DEF BusInv
<1>9. CASE off + n = Width
  <2>1. NextRow
    BY <1>0, <1>2, <1>3, <1>9
  <2>2. \A c \in 0 .. Width - 1 : ram'[row][XOffset + c] = Byte(pic, row, c)
    <3>1. 0 .. off + n - 1 = 0 .. Width - 1
      BY <1>2, <1>3, <1>9
    <3>. QED  BY <1>5, <3>1
  <2>3. \A r \in 0 .. row : \A c \in 0 .. Width - 1 :
          ram'[r][XOffset + c] = Byte(pic, r, c)
    <3> TAKE r \in 0 .. row
    <3>1. r = row \/ r \in 0 .. row - 1
      BY <1>3
    <3>. QED  BY <1>6, <2>2, <3>1
  <2>4. col' \in Nat
    BY <1>2, <1>3
  <2>5. CASE row + 1 < TileHeight
    <3>1. pc' = "cmds" /\ row' = row + 1 /\ off' = 0 /\ k' = 1
      BY <1>0, <1>3, <2>1, <2>5 DEF NextRow
    <3>2. Control'
      <4>1. row + 1 \in Rows
        BY <1>3, <2>5 DEF Rows
      <4>. QED  BY <3>1, <4>1 DEF Control
    <3>3. Address'
      BY <2>4, <3>1 DEF Address
    <3>4. Shown'
      <4>1. 0 .. row' - 1 = 0 .. row /\ 0 .. off' - 1 = {}
        BY <1>3, <3>1
      <4>2. \A r \in 0 .. row' - 1 : \A c \in 0 .. Width - 1 :
              ram'[r][XOffset + c] = Byte(pic', r, c)
        BY <1>7, <2>3, <4>1
      <4>. QED  BY <3>1, <4>1, <4>2 DEF Shown, Shows
    <3>. QED  BY <1>2, <1>4, <3>2, <3>3, <3>4 DEF BusInv
  <2>6. CASE ~(row + 1 < TileHeight)
    <3>1. pc' = "idle" /\ row' = 0 /\ off' = 0 /\ k' = 1
      BY <1>0, <1>3, <2>1, <2>6 DEF NextRow
    <3>2. Control'
      <4>1. 0 \in Rows
        BY <1>3 DEF Rows
      <4>. QED  BY <3>1, <4>1 DEF Control
    <3>3. Address'
      BY <2>4, <3>1 DEF Address
    <3>4. Shown'
      <4>1. \A r \in Rows : r \in 0 .. row
        BY <1>3, <2>6 DEF Rows
      <4>2. \A r \in Rows : \A c \in 0 .. Width - 1 :
              ram'[r][XOffset + c] = Byte(pic', r, c)
        BY <1>7, <2>3, <4>1
      <4>. QED  BY <3>1, <4>2 DEF Shown, Shows
    <3>. QED  BY <1>2, <1>4, <3>2, <3>3, <3>4 DEF BusInv
  <2>. QED  BY <2>5, <2>6
<1>. QED  BY <1>2, <1>3, <1>8, <1>9

(* A new picture is begun with the first row.                              *)
LEMMA DrawInv == ASSUME BusInv, Draw PROVE BusInv'
<1> USE DEF BusInv
<1>1. /\ pc = "idle" /\ pc' = "cmds" /\ k' = k /\ row' = row /\ off' = off
      /\ UNCHANGED <<on, page, col, need, regs, ram>>
  BY DEF Draw, panel
<1>2. k = 1 /\ row = 0 /\ off = 0 /\ row \in Rows
  BY <1>1 DEF Control
<1>3. Control'
  BY <1>1, <1>2 DEF Control
<1>4. Waiting' /\ Registers' /\ NothingOutside'
  BY <1>1 DEF Waiting, Registers, Set, NothingOutside
<1>5. Address'
  BY <1>1, <1>2 DEF Address
<1>6. Shown'
  BY <1>1, <1>2 DEF Shown, Shows
<1>. QED  BY <1>3, <1>4, <1>5, <1>6

(* At power-up.                                                            *)
LEMMA BusInit == Init => BusInv
<1> SUFFICES ASSUME Init PROVE BusInv
  OBVIOUS
<1> USE DEF Init
<1>1. Control
  <2>1. 0 \in Rows
    BY BusAssumption DEF Rows
  <2>. QED  BY <2>1 DEF Control
<1>2. Waiting /\ Address
  <2>1. on = FALSE /\ need = None /\ pc = "init" /\ k = 1 /\ col = 0
    OBVIOUS
  <2>2. ~(k > 1)
    BY <2>1
  <2>3. Waiting
    BY <2>1, <2>2, Zenon DEF Waiting
  <2>. QED  BY <2>1, <2>3 DEF Address
<1>4. Registers
  <2>1. regs \in [Double \cup Single -> Int] /\ Set = 1 .. 0
    BY DEF Set
  <2>. QED  BY <2>1 DEF Registers
<1>3. NothingOutside /\ Shown
  BY DEF NothingOutside, Shown
<1>. QED  BY <1>1, <1>2, <1>3, <1>4 DEF BusInv

(* Every step keeps the invariant.                                         *)
LEMMA BusStep == ASSUME BusInv, [Next]_vars PROVE BusInv'
<1>1. CASE UNCHANGED vars
  BY <1>1 DEF vars, host, panel, BusInv, Control, Waiting, Registers, Set,
              Address, NothingOutside, Shown, Shows
<1>. QED  BY <1>1, SendCmdInv, SendDataInv, DrawInv, FailCmdInv, FailDataInv
          DEF Next, Host

(* The invariant of the display bus.                                       *)
THEOREM BusInductive == Spec => []BusInv
<1>1. BusInv /\ [Next]_vars => BusInv'
  BY BusStep
<1>. QED  BY BusInit, <1>1, PTL DEF Spec

(* Data never goes to a column outside the window.                         *)
THEOREM NothingOutsideHolds == Spec => []NothingOutside
<1>1. BusInv => NothingOutside
  BY DEF BusInv
<1>. QED  BY <1>1, BusInductive, PTL

(* The panel is dark until its registers hold the values of the sequence.  *)
THEOREM ConfiguredHolds == Spec => []Configured
<1>1. BusInv => Configured
  <2> SUFFICES ASSUME BusInv PROVE Configured
    OBVIOUS
  <2>1. pc = "init" /\ k > 1 => ~on
    BY DEF BusInv, Waiting
  <2>2. ASSUME pc # "init" PROVE need = None
    BY <2>2 DEF BusInv, Waiting
  <2>3. ASSUME pc # "init", NEW i \in 1 .. Len(InitSeq) - 1,
               InitSeq[i] \in Double, i = 1 \/ InitSeq[i - 1] \notin Double
        PROVE  regs[InitSeq[i]] = InitSeq[i + 1]
    <3>1. i \in 1 .. 20
      BY InitBytes
    <3>2. i \notin ArgPos
      BY <2>3, InitBytes
    <3>3. i + 1 \in ArgPos /\ i + 1 - 1 = i /\ i + 1 \in 1 .. 21
      BY <2>3, <3>1, <3>2, InitBytes
    <3>4. regs[InitSeq[i + 1 - 1]] = InitSeq[i + 1]
      BY <2>3, <3>3 DEF BusInv, Registers, Set
    <3>. QED  BY <3>3, <3>4
  <2>. QED  BY <2>1, <2>2, <2>3 DEF Configured
<1>. QED  BY <1>1, BusInductive, PTL

-----------------------------------------------------------------------------
(* The bus implements PanelPicture: cells are numbered row by row.         *)

(* The cells before a place in a row are those of earlier rows and the     *)
(* earlier ones of this row.                                               *)
LEMMA RowMajor ==
    ASSUME NEW r \in Nat, NEW q \in Nat, NEW c \in 0 .. Width - 1,
           NEW n \in 0 .. Width
    PROVE  (r * Width) + c < (q * Width) + n <=> r < q \/ (r = q /\ c < n)
<1>0. Width \in Nat /\ Width > 0
  BY RowBytesAll
<1> DEFINE a == r * Width
           b == q * Width
<1>1. a \in Nat /\ b \in Nat
  BY <1>0
<1>2. CASE r < q
  <2>1. a + Width <= b
    <3>1. PICK d \in Nat : q = r + 1 + d
      <4>1. q - r - 1 \in Nat /\ q = r + 1 + (q - r - 1)
        BY <1>2
      <4>. QED  BY <4>1
    <3>2. b = a + Width + (d * Width) /\ d * Width \in Nat
      BY <1>0, <3>1
    <3> HIDE DEF a, b
    <3>. QED  BY <1>0, <1>1, <3>2
  <2> HIDE DEF a, b
  <2>. QED  BY <1>0, <1>1, <1>2, <2>1 DEF a, b
<1>3. CASE r = q
  <2>1. a = b
    BY <1>3
  <2> HIDE DEF a, b
  <2>2. a + c < b + n <=> c < n
    BY <1>0, <1>1, <2>1
  <2>. QED  BY <1>3, <2>2 DEF a, b
<1>4. CASE r > q
  <2>1. b + Width <= a
    <3>1. PICK d \in Nat : r = q + 1 + d
      <4>1. r - q - 1 \in Nat /\ r = q + 1 + (r - q - 1)
        BY <1>4
      <4>. QED  BY <4>1
    <3>2. a = b + Width + (d * Width) /\ d * Width \in Nat
      BY <1>0, <3>1
    <3> HIDE DEF a, b
    <3>. QED  BY <1>0, <1>1, <3>2
  <2> HIDE DEF a, b
  <2>2. ~(a + c < b + n)
    BY <1>0, <1>1, <2>1
  <2>. QED  BY <1>4, <2>2 DEF a, b
<1>. QED  BY <1>2, <1>3, <1>4

(* Row and column of a cell.                                               *)
LEMMA CellPosition ==
    ASSUME NEW i \in 0 .. (Width * TileHeight) - 1
    PROVE  /\ i \div Width \in Rows /\ i % Width \in 0 .. Width - 1
           /\ i = ((i \div Width) * Width) + (i % Width)
<1>0. Width \in Nat /\ Width > 0 /\ TileHeight \in Nat /\ i \in Nat
      /\ Width * TileHeight \in Nat /\ i < Width * TileHeight
  <2>1. Width \in Nat /\ Width > 0 /\ TileHeight \in Nat
    BY RowBytesAll
  <2>2. Width * TileHeight \in Nat
    BY <2>1
  <2>. QED  BY <2>1, <2>2
<1> DEFINE r == i \div Width
           c == i % Width
<1>1. r \in Nat /\ c \in 0 .. Width - 1 /\ i = (r * Width) + c
  BY <1>0
<1> HIDE DEF r, c
<1>2. 0 \in 0 .. Width /\ (TileHeight * Width) + 0 = Width * TileHeight
  BY <1>0
<1>3. (r * Width) + c < (TileHeight * Width) + 0
  BY <1>0, <1>1, <1>2
<1>4. r < TileHeight \/ (r = TileHeight /\ c < 0)
  BY <1>0, <1>1, <1>2, <1>3, RowMajor
<1>5. r \in Rows
  BY <1>0, <1>1, <1>4 DEF Rows
<1>. QED  BY <1>1, <1>5 DEF r, c

(* How far the picture is, in cells.                                       *)
LEMMA WrittenCells ==
    ASSUME BusInv
    PROVE  /\ Written \in Nat /\ Written <= Width * TileHeight
           /\ Width * TileHeight \in Nat
           /\ pc \in {"cmds", "data"} =>
                \A n \in 0 .. Width - off :
                   Written + n = (row * Width) + (off + n)
                   /\ Written + n <= Width * TileHeight
<1>0. Width \in Nat /\ Width > 0 /\ TileHeight \in Nat
  BY RowBytesAll
<1>1. Width * TileHeight \in Nat /\ TileHeight * Width = Width * TileHeight
  BY <1>0
<1>2. CASE pc \in {"cmds", "data"}
  <2>1. /\ row \in Nat /\ row + 1 <= TileHeight /\ off \in Nat /\ off <= Width
        /\ Written = (row * Width) + off
    BY <1>0, <1>2 DEF BusInv, Control, Rows, Written
  <2>2. row * Width \in Nat /\ (row * Width) + Width <= TileHeight * Width
    <3>1. PICK d \in Nat : TileHeight = row + 1 + d
      <4>1. TileHeight - row - 1 \in Nat
            /\ TileHeight = row + 1 + (TileHeight - row - 1)
        BY <1>0, <2>1
      <4>. QED  BY <4>1
    <3> DEFINE a == row * Width
               e == d * Width
               h == TileHeight * Width
    <3>2. h = a + Width + e /\ a \in Nat /\ e \in Nat
      BY <1>0, <2>1, <3>1
    <3> HIDE DEF a, e, h
    <3>3. a + Width <= h
      BY <1>0, <3>2
    <3>. QED  BY <3>2, <3>3 DEF a, h
  <2> DEFINE a == row * Width
             h == Width * TileHeight
  <2>3. a \in Nat /\ a + Width <= h /\ Written = a + off
    BY <1>1, <2>1, <2>2
  <2> HIDE DEF a, h
  <2>4. h \in Nat
    BY <1>1 DEF h
  <2>5. Written \in Nat /\ Written <= h
    BY <1>0, <2>1, <2>3, <2>4
  <2>6. \A n \in 0 .. Width - off : Written + n = a + (off + n) /\ Written + n <= h
    BY <1>0, <2>1, <2>3, <2>4
  <2>. QED  BY <1>1, <2>5, <2>6 DEF a, h
<1>3. CASE pc \notin {"cmds", "data"}
  <2>1. Written = 0 \/ Written = Width * TileHeight
    BY <1>3 DEF Written
  <2> DEFINE h == Width * TileHeight
  <2>2. h \in Nat /\ (Written = 0 \/ Written = h)
    BY <1>1, <2>1
  <2> HIDE DEF h
  <2>3. Written \in Nat /\ Written <= h
    BY <2>2
  <2>. QED  BY <1>1, <1>3, <2>3 DEF h
<1>. QED  BY <1>2, <1>3

(* The cells written so far hold their bytes of the picture.               *)
LEMMA OverlaySame == ASSUME BusInv PROVE Visible = Picture!Overlay(Written)
<1> SUFFICES ASSUME NEW i \in 0 .. (Width * TileHeight) - 1, i < Written
             PROVE  ram[i \div Width][XOffset + (i % Width)] = ByteAt(pic, i)
  BY DEF Visible, Picture!Overlay, Picture!Cells
<1> DEFINE r == i \div Width
           c == i % Width
<1>1. r \in Rows /\ c \in 0 .. Width - 1 /\ i = (r * Width) + c
  BY CellPosition
<1>2. ByteAt(pic, i) = Byte(pic, r, c)
  BY DEF ByteAt
<1> HIDE DEF r, c
<1>3. ram[r][XOffset + c] = Byte(pic, r, c)
  <2>1. CASE pc \in {"cmds", "data"}
    <3>1. row \in Nat /\ off \in 0 .. Width /\ 0 \in 0 .. Width - off
          /\ r \in Nat
      BY <1>1, <2>1, RowBytesAll DEF BusInv, Control, Rows
    <3>2. Written = (row * Width) + off
      BY <2>1 DEF Written
    <3>3. (r * Width) + c < (row * Width) + off
      BY <1>1, <3>2
    <3>4. r < row \/ (r = row /\ c < off)
      BY <1>1, <3>1, <3>3, RowMajor
    <3>5. r \in 0 .. row - 1 \/ (r = row /\ c \in 0 .. off - 1)
      BY <1>1, <3>1, <3>4, RowBytesAll
    <3>. QED  BY <1>1, <2>1, <3>5 DEF BusInv, Shown, Shows
  <2>2. CASE pc = "idle"
    BY <1>1, <2>2 DEF BusInv, Shown, Shows
  <2>3. CASE pc \notin {"cmds", "data", "idle"}
    <3>1. Written = 0
      BY <2>3 DEF Written
    <3>2. i \in Nat
      BY WrittenCells
    <3>. QED  BY <3>1, <3>2
  <2>. QED  BY <2>1, <2>2, <2>3
<1>. QED  BY <1>2, <1>3 DEF r, c

(* The bytes of a transfer are the next cells of the picture.              *)
LEMMA OverlayData ==
    ASSUME BusInv, pc = "data", NEW n \in 0 .. ChunkLen(off), Data(n)
    PROVE  Visible' = Picture!Overlay(Written + n)
<1>0. /\ off \in Nat /\ n \in Nat /\ off + n <= Width
      /\ \A r \in Rows, c \in 0 .. Width - 1 : ram'[r][XOffset + c] =
            IF r = row /\ off <= c /\ c < off + n
            THEN Byte(pic, row, c) ELSE ram[r][XOffset + c]
  BY DataStep
<1>1. row \in Nat /\ Width \in Nat /\ row \in Rows
  BY RowBytesAll DEF BusInv, Control, Rows
<1>2. Written + n = (row * Width) + (off + n) /\ Written = (row * Width) + off
      /\ Written \in Nat
  <2>1. n \in 0 .. Width - off
    BY <1>0, <1>1
  <2>. QED  BY <2>1, WrittenCells DEF Written
<1> SUFFICES ASSUME NEW i \in 0 .. (Width * TileHeight) - 1
             PROVE  ram'[i \div Width][XOffset + (i % Width)]
                      = IF i < Written + n THEN ByteAt(pic, i)
                        ELSE ram[i \div Width][XOffset + (i % Width)]
  BY DEF Visible, Picture!Overlay, Picture!Cells
<1> DEFINE r == i \div Width
           c == i % Width
<1>3. r \in Rows /\ c \in 0 .. Width - 1 /\ i = (r * Width) + c /\ r \in Nat
  <2>1. r \in Rows /\ c \in 0 .. Width - 1 /\ i = (r * Width) + c
    BY CellPosition
  <2>. QED  BY <2>1, RowBytesAll DEF Rows
<1>4. ByteAt(pic, i) = Byte(pic, r, c)
  BY DEF ByteAt
<1>5. i < Written => ram[r][XOffset + c] = Byte(pic, r, c)
  <2>1. Visible = Picture!Overlay(Written)
    BY OverlaySame
  <2>2. Visible[i] = ram[r][XOffset + c]
    BY DEF Visible
  <2>3. Picture!Overlay(Written)[i] = IF i < Written THEN ByteAt(pic, i)
                                      ELSE Visible[i]
    BY DEF Picture!Overlay, Picture!Cells
  <2>. QED  BY <1>4, <2>1, <2>2, <2>3
<1> HIDE DEF r, c
<1>6. i < Written + n <=> r < row \/ (r = row /\ c < off + n)
  <2>1. off + n \in 0 .. Width
    BY <1>0, <1>1
  <2>. QED  BY <1>1, <1>2, <1>3, <2>1, RowMajor
<1>7. i < Written <=> r < row \/ (r = row /\ c < off)
  <2>1. off \in 0 .. Width
    BY <1>0, <1>1
  <2>. QED  BY <1>1, <1>2, <1>3, <2>1, RowMajor
<1>8. ram'[r][XOffset + c] = IF i < Written + n THEN Byte(pic, r, c)
                             ELSE ram[r][XOffset + c]
  <2>1. ram'[r][XOffset + c] = IF r = row /\ off <= c /\ c < off + n
                               THEN Byte(pic, row, c) ELSE ram[r][XOffset + c]
    BY <1>0, <1>3
  <2>2. CASE i < Written
    <3>1. ~(r = row /\ off <= c) /\ i < Written + n
      BY <1>0, <1>1, <1>3, <1>6, <1>7, <2>2
    <3>. QED  BY <1>5, <2>1, <2>2, <3>1
  <2>3. CASE ~(i < Written) /\ i < Written + n
    <3>1. r = row /\ off <= c /\ c < off + n
      BY <1>0, <1>1, <1>3, <1>6, <1>7, <2>3
    <3>. QED  BY <2>1, <2>3, <3>1
  <2>4. CASE ~(i < Written + n)
    <3>1. ~(r = row /\ c < off + n)
      BY <1>6, <2>4
    <3>. QED  BY <2>1, <2>4, <3>1
  <2>. QED  BY <2>2, <2>3, <2>4
<1>. QED  BY <1>4, <1>8 DEF r, c

(* A command byte writes no cell of the picture.                           *)
LEMMA CommandStutters ==
    ASSUME BusInv, SendCmd
    PROVE  Visible' = Visible /\ pic' = pic /\ Written' = Written
<1>0. /\ Advance /\ Command(Cmd) /\ UNCHANGED <<row, off, pic>>
      /\ pc \in {"init", "wake", "cmds"}
  BY DEF SendCmd, Advance
<1>1. Cmd \in Nat /\ ram' = ram
  <2>1. Cmd \in Nat
    BY <1>0, CmdByte DEF BusInv
  <2>. QED  BY <1>0, <2>1, CommandStep DEF BusInv
<1>2. Visible' = Visible
  BY <1>1 DEF Visible
<1>3. Written' = Written
  <2>1. CASE pc = "init"
    <3>1. pc' \in {"init", "wake"}
      BY <1>0, <2>1 DEF Advance
    <3>. QED  BY <2>1, <3>1 DEF Written
  <2>2. CASE pc = "wake"
    <3>1. pc' = "cmds" /\ row' = 0 /\ off' = 0
      BY <1>0, <2>2 DEF Advance, BusInv, Control
    <3>2. 0 * Width + 0 = 0
      BY RowBytesAll
    <3>. QED  BY <2>2, <3>1, <3>2 DEF Written, Width
  <2>3. CASE pc = "cmds"
    <3>1. pc' \in {"cmds", "data"}
      BY <1>0, <2>3 DEF Advance
    <3>. QED  BY <1>0, <2>3, <3>1 DEF Written, Width
  <2>. QED  BY <1>0, <2>1, <2>2, <2>3
<1>. QED  BY <1>0, <1>2, <1>3

(* A data transfer writes the next cells, and a row ends where the next    *)
(* one begins.                                                             *)
LEMMA TransferWrites == ASSUME BusInv, SendData PROVE Picture!Write
<1> DEFINE n == ChunkLen(off)
<1>0. /\ pc = "data" /\ Data(n) /\ pic' = pic
      /\ IF off + n < RowBytes
         THEN off' = off + n /\ UNCHANGED <<pc, row>> ELSE NextRow
  BY DEF SendData
<1>1. n \in 0 .. n /\ n \in Nat /\ n > 0 /\ off \in Nat /\ off + n <= Width
  <2>1. n \in Nat
    BY <1>0, RowBytesAll, BusAssumption DEF BusInv, Control, ChunkLen
  <2>2. n \in 0 .. n
    BY <2>1
  <2>. QED  BY <1>0, <2>2, DataStep
<1>2. Visible' = Picture!Overlay(Written + n)
  BY <1>0, <1>1, OverlayData
<1> HIDE DEF n
<1>3. Width \in Nat /\ Width > 0 /\ RowBytes = Width /\ TileHeight \in Nat
  BY RowBytesAll
<1>4. /\ Written + n = (row * Width) + (off + n) /\ Written \in Nat
      /\ Written + n <= Width * TileHeight /\ Width * TileHeight \in Nat
  <2>1. n \in 0 .. Width - off
    BY <1>1, <1>3
  <2>. QED  BY <1>0, <2>1, WrittenCells
<1>5. row \in Nat /\ row + 1 <= TileHeight
  BY <1>3 DEF BusInv, Control, Rows
<1>6. Written' = Written + n
  <2>1. CASE off + n < Width
    <3>1. off' = off + n /\ row' = row /\ pc' = "data"
      BY <1>0, <1>3, <2>1
    <3>. QED  BY <1>4, <3>1 DEF Written, Width
  <2>2. CASE ~(off + n < Width)
    <3>1. off + n = Width /\ NextRow
      BY <1>0, <1>1, <1>3, <2>2
    <3>2. (row * Width) + Width = (row + 1) * Width
      BY <1>3, <1>5
    <3>3. CASE row + 1 < TileHeight
      <4>1. pc' = "cmds" /\ row' = row + 1 /\ off' = 0
        BY <3>1, <3>3 DEF NextRow
      <4>2. Written' = ((row + 1) * Width) + 0
        BY <4>1 DEF Written, Width
      <4>3. ((row + 1) * Width) + 0 = (row + 1) * Width
        BY <1>3, <1>5
      <4>. QED  BY <1>4, <3>1, <3>2, <4>2, <4>3
    <3>4. CASE ~(row + 1 < TileHeight)
      <4>1. pc' = "idle" /\ row + 1 = TileHeight
        BY <1>3, <1>5, <3>1, <3>4 DEF NextRow
      <4>2. Written' = Width * TileHeight
        BY <4>1 DEF Written, Width
      <4>3. TileHeight * Width = Width * TileHeight
        BY <1>3
      <4>. QED  BY <1>4, <3>1, <3>2, <4>1, <4>2, <4>3
    <3>. QED  BY <3>3, <3>4
  <2>. QED  BY <2>1, <2>2
<1>7. Written + n \in Written + 1 .. Width * TileHeight
  <2> DEFINE h == Width * TileHeight
  <2>1. Written + n <= h /\ h \in Nat
    BY <1>4
  <2> HIDE DEF h
  <2>2. Written + n \in Written + 1 .. h
    BY <1>1, <1>4, <2>1
  <2>. QED  BY <2>2 DEF h
<1>. QED  BY <1>0, <1>2, <1>6, <1>7 DEF Picture!Write

(* A transfer that fails restarts, having written some cells or none.      *)
LEMMA FailureRestarts ==
    ASSUME BusInv, FailCmd \/ FailData PROVE Picture!Restart
<1>0. Restarted /\ pc' = "init" /\ pic' = Blank
  BY DEF FailCmd, FailData, Restarted
<1>1. Written' = 0
  BY <1>0 DEF Written
<1>2. \E n \in Written .. Width * TileHeight : Visible' = Picture!Overlay(n)
  <2>1. CASE FailCmd
    <3>1. ram' = ram
      <4>1. CASE Command(Cmd)
        <5>1. Cmd \in Nat
          BY <2>1, CmdByte DEF BusInv, FailCmd
        <5>. QED  BY <4>1, <5>1, CommandStep DEF BusInv
      <4>2. CASE Ignored
        BY <4>2 DEF Ignored, panel
      <4>. QED  BY <2>1, <4>1, <4>2 DEF FailCmd
    <3>2. Visible' = Visible
      BY <3>1 DEF Visible
    <3>3. Visible' = Picture!Overlay(Written)
      BY <3>2, OverlaySame
    <3>4. Written \in Written .. Width * TileHeight
      <4> DEFINE h == Width * TileHeight
      <4>1. Written \in Nat /\ h \in Nat /\ Written <= h
        BY WrittenCells
      <4> HIDE DEF h
      <4>2. Written \in Written .. h
        BY <4>1
      <4>. QED  BY <4>2 DEF h
    <3>. QED  BY <3>3, <3>4
  <2>2. CASE FailData
    <3>1. pc = "data"
      BY <2>2 DEF FailData
    <3>2. PICK n \in 0 .. ChunkLen(off) : Data(n)
      BY <2>2 DEF FailData
    <3>3. Visible' = Picture!Overlay(Written + n)
      BY <3>1, <3>2, OverlayData
    <3>4. n \in 0 .. Width - off /\ n \in Nat
      <4>1. off \in Nat /\ n \in Nat /\ off + n <= Width
        BY <3>1, <3>2, DataStep
      <4>. QED  BY <4>1, RowBytesAll
    <3>5. Written + n \in Written .. Width * TileHeight
      <4> DEFINE h == Width * TileHeight
      <4>1. Written \in Nat /\ h \in Nat /\ Written + n <= h
        BY <3>1, <3>4, WrittenCells
      <4> HIDE DEF h
      <4>2. Written + n \in Written .. h
        BY <3>4, <4>1
      <4>. QED  BY <4>2 DEF h
    <3>. QED  BY <3>3, <3>5
  <2>. QED  BY <2>1, <2>2
<1>. QED  BY <1>0, <1>1, <1>2 DEF Picture!Restart

(* A picture is drawn only when the last one is complete.                  *)
LEMMA DrawBegins == ASSUME BusInv, Draw PROVE Picture!NewPicture
<1>1. /\ pc = "idle" /\ pc' = "cmds" /\ pic' \in Pictures /\ row' = 0
      /\ off' = 0 /\ ram' = ram
  BY DEF Draw, BusInv, Control, panel
<1>2. Written = Width * TileHeight
  BY <1>1 DEF Written
<1>3. Written' = 0
  <2>1. (0 * Width) + 0 = 0
    BY RowBytesAll
  <2>. QED  BY <1>1, <2>1 DEF Written, Width
<1>4. Visible' = Visible
  BY <1>1 DEF Visible
<1>. QED  BY <1>1, <1>2, <1>3, <1>4 DEF Picture!NewPicture

(* Every step of the bus is a step of the picture, or none.                *)
LEMMA PictureStep ==
    ASSUME BusInv, [Next]_vars
    PROVE  [Picture!Next]_(Picture!vars)
<1>1. CASE SendCmd
  BY <1>1, CommandStutters DEF Picture!vars
<1>2. CASE SendData
  BY <1>2, TransferWrites DEF Picture!Next
<1>3. CASE Draw
  BY <1>3, DrawBegins DEF Picture!Next
<1>4. CASE FailCmd \/ FailData
  BY <1>4, FailureRestarts DEF Picture!Next
<1>5. CASE UNCHANGED vars
  <2>1. Visible' = Visible /\ pic' = pic /\ Written' = Written
    BY <1>5 DEF vars, host, panel, Visible, Written, Width
  <2>. QED  BY <2>1 DEF Picture!vars
<1>. QED  BY <1>1, <1>2, <1>3, <1>4, <1>5 DEF Next, Host

(* The display bus implements PanelPicture: pictures are written cell by   *)
(* cell, each completed before the next is begun, whatever earlier lives   *)
(* left in the panel's memory and address registers.                       *)
THEOREM UpdatePromiseHolds == Spec => UpdatePromise
<1>1. Init => Picture!Init
  <2> SUFFICES ASSUME Init PROVE Picture!Init
    OBVIOUS
  <2>1. pc = "init" /\ pic = Blank
    BY DEF Init
  <2>2. Written = 0
    BY <2>1 DEF Written
  <2>3. DOMAIN Visible = Picture!Cells
    BY DEF Visible, Picture!Cells
  <2>. QED  BY <2>1, <2>2, <2>3 DEF Picture!Init
<1>2. BusInv /\ [Next]_vars => [Picture!Next]_(Picture!vars)
  BY PictureStep
<1>. QED  BY <1>1, <1>2, BusInductive, PTL DEF Spec, UpdatePromise, Picture!Spec

=============================================================================
