------------------------------ MODULE DisplayBus ------------------------------
(***************************************************************************)
(* The way of a picture from the frame buffer to the memory of the panel:  *)
(* u8g2_UpdateDisplay, u8x8_d_ssd1306_sh1106_generic and                   *)
(* u8x8_cad_ssd13xx_i2c of libs/u8g2/csrc, which turn it into I2C          *)
(* transfers of a command byte or some data bytes, and the start of        *)
(* task_lcd (src/hw/hw_display.c).  A transfer keeps the promise of        *)
(* I2cTransfer; one that fails may have reached the panel in part, and     *)
(* ESP_ERROR_CHECK restarts the chip.  The panel (an SH1106, external) has *)
(* no reset line on this board, so it goes on where it was.                *)
(***************************************************************************)
EXTENDS Integers, Sequences

CONSTANTS
    TileWidth, TileHeight,  \* of the panel, in tiles of 8 by 8 pixels
    XOffset,                \* default_x_offset of the display info
    Columns,                \* of the panel's memory
    Chunk,                  \* bytes of one data transfer, 24 in the code
    Pictures,               \* pictures that may be drawn
    MaxResets               \* bound: transfers that fail

Blank == 0

ASSUME BusAssumption ==
    /\ TileWidth \in Nat \ {0} /\ TileHeight \in 1 .. 16 /\ XOffset \in Nat
    /\ Chunk \in Nat \ {0} /\ Blank \notin Pictures
    /\ Columns \in Nat /\ XOffset + 8 * TileWidth <= Columns
    /\ MaxResets \in Nat
\* default_x_offset is a uint8_t, and "SendData can not handle more than 255
\* bytes" (u8x8_d_ssd1306_128x64_noname.c).
ASSUME WidthAssumption == XOffset < 256 /\ 8 * TileWidth < 256

VARIABLES
    pc,             \* "init", "wake", "cmds", "data" or "idle"
    k, row, off,    \* next command; tile row; data bytes of it sent
    pic,            \* the picture in the frame buffer
    on, page, col,  \* the panel: display on, where the next data byte goes
    need,           \* the command whose argument it waits for, or None
    regs, ram,
    resets

host == <<pc, k, row, off, pic>>
panel == <<on, page, col, need, regs, ram>>
vars == <<host, panel, resets>>

Width == 8 * TileWidth
Rows == 0 .. TileHeight - 1
Cols == 0 .. Columns - 1

\* The byte of the frame buffer for column c of tile row r.
Byte(p, r, c) == IF p = Blank THEN <<0, 0, 0>> ELSE <<p, r, c>>
Noise == <<-1, 0, 0>>

-----------------------------------------------------------------------------
(* Byte sequences.  Commands and arguments travel alike.                   *)
DisplayOff == \hAE
DisplayOn == \hAF
Double == {\hD5, \hA8, \hD3, \hAD, \hD9, \hDB, \h81, \hDA}
Single == {\hA4, \h40, \h32, \hA6}
None == 0

\* Mutant: the sequence does not begin with single commands.
InitSeq_noOff == <<\hD5, \h50, \hA8, \h3F, \hD3, \h00, \h40, \hAD, \h8B,
                   \hD9, \h22, \hDB, \h35, \h32, \h81, \hFF, \hA6, \hDA,
                   \h12>>

\* u8x8_d_sh1106_128x64_winstar_init_seq
InitSeq == <<DisplayOff, \hA4, \hD5, \h50, \hA8, \h3F, \hD3, \h00, \h40,
             \hAD, \h8B, \hD9, \h22, \hDB, \h35, \h32, \h81, \hFF, \hA6,
             \hDA, \h12>>

\* U8X8_MSG_DISPLAY_DRAW_TILE for a whole row: x_pos is 0.
RowCmds(r) ==
    LET x == XOffset % 256
    IN  <<\h40, \h10 + x \div 16, x % 16, \hB0 + r>>

\* c*8 in the uint8_t arg_int of u8x8_cad_SendData.
RowBytes == Width % 256

\* Mutant: the last transfer of a row is as long as the others.
ChunkLen_fixed(sent) == Chunk

ChunkLen(sent) == IF RowBytes - sent > Chunk THEN Chunk ELSE RowBytes - sent

\* Mutant: every transfer begins with the first byte of the row.
TransferByte_first(i) == Byte(pic, row, i)

\* Byte i of a data transfer: p advances by the bytes that were sent.
TransferByte(i) == Byte(pic, row, off + i)

-----------------------------------------------------------------------------
(* The panel, external.  A command it does not know, or an argument, is    *)
(* stored; data goes to the current page and advances the column.          *)
Command(b) ==
    IF need # None
    THEN /\ regs' = [regs EXCEPT ![need] = b] /\ need' = None
         /\ UNCHANGED <<on, page, col, ram>>
    ELSE /\ need' = IF b \in Double THEN b ELSE None
         /\ on' = IF b = DisplayOn THEN TRUE
                  ELSE IF b = DisplayOff THEN FALSE ELSE on
         /\ page' = IF b \in \hB0 .. \hBF THEN b - \hB0 ELSE page
         /\ col' = IF b \in 0 .. 15 THEN 16 * (col \div 16) + b
                   ELSE IF b \in 16 .. 31 THEN 16 * (b - 16) + (col % 16)
                   ELSE col
         /\ regs' = IF b \in Single THEN [regs EXCEPT ![b] = b] ELSE regs
         /\ UNCHANGED ram

\* The first n bytes of the transfer arrive.
Data(n) ==
    /\ ram' = [r \in Rows |-> [c \in Cols |->
                 IF r = page /\ c \in col .. col + n - 1
                 THEN TransferByte(c - col) ELSE ram[r][c]]]
    /\ col' = col + n
    /\ UNCHANGED <<on, page, need, regs>>

Ignored == UNCHANGED panel

-----------------------------------------------------------------------------
Restarted ==
    /\ pc' = "init" /\ k' = 1 /\ row' = 0 /\ off' = 0 /\ pic' = Blank
    /\ resets < MaxResets /\ resets' = resets + 1

Init ==
    /\ pc = "init" /\ k = 1 /\ row = 0 /\ off = 0 /\ pic = Blank /\ resets = 0
    /\ on = FALSE /\ page = 0 /\ col = 0 /\ need = None
    /\ regs = [b \in Double \cup Single |-> -1]
    /\ ram = [r \in Rows |-> [c \in Cols |-> Noise]]

\* The byte that u8x8_cad_SendSequence or the tile row sends next.
Cmd == IF pc = "init" THEN InitSeq[k]
       ELSE IF pc = "wake" THEN DisplayOn ELSE RowCmds(row)[k]

\* u8g2_InitDisplay, byte by byte, then u8g2_SetPowerSave(0), then the rows.
Advance ==
    \/ /\ pc = "init" /\ k < Len(InitSeq)
       /\ k' = k + 1 /\ UNCHANGED pc
    \/ /\ pc = "init" /\ k = Len(InitSeq)
       /\ pc' = "wake" /\ k' = 1
    \/ pc = "wake" /\ pc' = "cmds" /\ k' = 1
    \/ pc = "cmds" /\ k < 4 /\ k' = k + 1 /\ UNCHANGED pc
    \/ pc = "cmds" /\ k = 4 /\ pc' = "data" /\ k' = 1

SendCmd ==
    /\ Advance
    /\ Command(Cmd)
    /\ UNCHANGED <<row, off, pic, resets>>

\* The command or its argument may have got to the panel.
FailCmd ==
    /\ pc \in {"init", "wake", "cmds"}
    /\ Command(Cmd) \/ Ignored
    /\ Restarted

\* Mutant: no end.
NextRow_noEnd == pc' = "cmds" /\ row' = (row + 1) % TileHeight /\ off' = 0

\* u8g2_send_buffer goes on to the next row, or returns.
NextRow ==
    IF row + 1 < TileHeight
    THEN pc' = "cmds" /\ row' = row + 1 /\ off' = 0
    ELSE pc' = "idle" /\ row' = 0 /\ off' = 0

SendData ==
    /\ pc = "data"
    /\ Data(ChunkLen(off))
    /\ IF off + ChunkLen(off) < RowBytes
       THEN off' = off + ChunkLen(off) /\ UNCHANGED <<pc, row>>
       ELSE NextRow
    /\ UNCHANGED <<k, pic, resets>>

FailData ==
    /\ pc = "data"
    /\ \E n \in 0 .. ChunkLen(off) : Data(n)
    /\ Restarted

\* task_lcd clears the buffer, draws and calls u8g2_UpdateDisplay.
Draw ==
    /\ pc = "idle" /\ pc' = "cmds"
    /\ pic' \in Pictures
    /\ UNCHANGED <<k, row, off, panel, resets>>

Host == SendCmd \/ SendData \/ Draw

Next == Host \/ FailCmd \/ FailData

\* A transfer returns or the program restarts: I2cMaster!Returns.
Spec == Init /\ [][Next]_vars /\ WF_vars(Host)

-----------------------------------------------------------------------------
Visible == [i \in 0 .. Width * TileHeight - 1 |->
              ram[i \div Width][XOffset + (i % Width)]]

(* Data never goes to a column outside the window, not even after a        *)
(* restart in the middle of a row.                                         *)
NothingOutside ==
    \A r \in Rows : \A c \in Cols \ (XOffset .. XOffset + Width - 1) :
        ram[r][c] = Noise

(* After u8g2_InitDisplay every register holds its value of the sequence,  *)
(* even if an earlier life ended between a command and its argument, so    *)
(* that the panel took the first byte of this one for the argument.  Until *)
(* then it is dark, although that byte is the one to switch it off.        *)
Configured ==
    /\ pc = "init" /\ k > 1 => ~on
    /\ pc # "init" =>
           /\ need = None
           /\ \A i \in 1 .. Len(InitSeq) - 1 :
                InitSeq[i] \in Double /\ (i = 1 \/ InitSeq[i - 1] \notin Double) =>
                    regs[InitSeq[i]] = InitSeq[i + 1]

(* However often transfers have failed, pictures go on to be completed.    *)
KeepsDrawing == []<>(pc = "idle")

-----------------------------------------------------------------------------
ByteAt(p, i) == Byte(p, i \div Width, i % Width)
Written == IF pc \in {"cmds", "data"} THEN row * Width + off
           ELSE IF pc = "idle" THEN Width * TileHeight ELSE 0

Picture == INSTANCE PanelPicture WITH
    M <- Width * TileHeight, Content <- ByteAt, screen <- Visible,
    done <- Written
(* Rows and transfers add up to what PanelPicture promises: when           *)
(* u8g2_UpdateDisplay has returned the panel shows the whole frame buffer, *)
(* each byte in its place, whatever earlier lives left in the panel's      *)
(* memory and address registers.                                           *)
UpdatePromise == Picture!Spec
=============================================================================
