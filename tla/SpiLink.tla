------------------------------ MODULE SpiLink ------------------------------
(***************************************************************************)
(* The high performance SPI examples: a master and a slave joined by SPI   *)
(* and a handshake line.  The slave raises the line to ask for the next    *)
(* transaction; the rising edge interrupts the master, whose handler       *)
(* carries the whole protocol: a status word with the length, then blocks  *)
(* of 64 bytes.  The unit of the model is one block: every write of the    *)
(* examples is a multiple of it.  Data are numbered, so a lost, repeated   *)
(* or reordered block shows.                                               *)
(*   "down"  ESP_HSPI_MASTER_SEND with ESP_SPI_SLAVE_RECV                  *)
(*   "up"    both macros removed                                           *)
(***************************************************************************)
EXTENDS Naturals, Sequences

CONSTANTS
    Directions,  \* the builds to look at, a subset of {"down", "up"}
    Capacity,    \* blocks a stream buffer holds (4096 bytes)
    WriteLen,    \* blocks of one xStreamBufferSend() (2048 bytes)
    ReadLen,     \* most blocks of one xStreamBufferReceive() (1024 bytes)
    MaxBlocks,   \* bound: blocks sent in all
    WordMod      \* stands for 2^32, at which total_send_len wraps

ASSUME SpiAssumption ==
    /\ Capacity \in Nat \ {0} /\ WordMod \in Nat \ {0}
    /\ WriteLen \in Nat /\ ReadLen \in Nat

VARIABLES
    dir,      \* the build
    master,   \* send, recv ring buffers, intr_trans_mode, transmit_len, wait_recv_data
    slave,    \* tx, rx ring buffers, total_recv_len, total_send_len, flags
    spi,      \* slave registers: status for each way, data for each way
    line,     \* level of the handshake line
    mirq,     \* the master's GPIO interrupt is pending
    sirq,     \* transactions done that the slave's interrupt has yet to see
    writer,   \* the sending task: [pc, n] with n blocks sent so far
    reader,   \* the reading task: [pc, n] with n blocks read so far
    races     \* history: which of the three races below was lost

spiVars == <<dir, master, slave, spi, line, mirq, sirq, writer, reader, races>>

NoBlock == 0

SpiInit ==
    /\ dir \in Directions
    /\ master = [send |-> <<>>, recv |-> <<>>, mode |-> "NULL",
                 transmit_len |-> 0, wait_recv_data |-> FALSE]
    /\ slave = [tx |-> <<>>, rx |-> <<>>, total_recv_len |-> 0,
                total_send_len |-> 0, sending_flag |-> FALSE,
                wait_recv_data |-> FALSE]
    /\ spi = [toSlave |-> 0, toMaster |-> 0, mosi |-> NoBlock, miso |-> NoBlock]
    /\ line = 0
    /\ mirq = FALSE
    /\ sirq = {}
    /\ writer = [pc |-> "send", n |-> 0]
    /\ reader = [pc |-> "receive", n |-> 0]
    /\ races = {}

\* FreeRTOS stream buffers, in blocks (external).
Space(b) == Capacity - Len(b)
Numbered(from, n) == [i \in 1 .. n |-> from + i]
\* xStreamBufferSendFromISR(): what does not fit is not stored.
SendFromISR(b, x) == IF Space(b) > 0 THEN Append(b, x) ELSE b

----------------------------------------------------------------------------
(* The master.                                                             *)

\* A transaction ends: the slave is interrupted.
spi_trans(flag) == sirq' = sirq \cup {flag}

spi_master_send_length(len) ==
    /\ spi' = [spi EXCEPT !.toSlave = len]
    /\ spi_trans("WR_STA")

spi_master_get_length == spi_trans("RD_STA") /\ UNCHANGED spi

\* gpio_isr_handler, mode SPI_NULL: something to send goes first; otherwise
\* ask the slave for its length.
IsrIdle ==
    /\ master.mode = "NULL"
    /\ mirq' = FALSE
    /\ IF master.send # <<>>
       THEN /\ spi_master_send_length(Len(master.send))
            /\ master' = [master EXCEPT !.mode = "WRITE", 
                            !.transmit_len = Len(master.send)]
       ELSE /\ spi_master_get_length
            /\ master' = [master EXCEPT !.transmit_len = spi.toMaster,
                            !.mode = IF spi.toMaster > 0 THEN "READ" ELSE "NULL"]

\* Mutant: the block is fetched even if the stream buffer is full.
IsrRead_noRoomCheck ==
    /\ master.mode = "READ"
    /\ UNCHANGED spi
    /\ /\ spi_trans("RD_BUF")
       /\ LET left == master.transmit_len - 1
          IN  /\ master' = [master EXCEPT !.recv = SendFromISR(@, spi.miso),
                              !.transmit_len = left,
                              !.mode = IF left = 0 THEN "NULL" ELSE "READ"]
              /\ mirq' = (left = 0 /\ master.send # <<>>)

\* Mode SPI_READ: one block into the ring buffer, or wait for room.
IsrRead ==
    /\ master.mode = "READ"
    /\ UNCHANGED spi
    /\ IF Space(master.recv) >= 1
       THEN /\ spi_trans("RD_BUF")
            /\ LET left == master.transmit_len - 1
               IN  /\ master' = [master EXCEPT !.recv = Append(@, spi.miso),
                                   !.transmit_len = left,
                                   !.mode = IF left = 0 THEN "NULL" ELSE "READ"]
                   /\ mirq' = (left = 0 /\ master.send # <<>>)
       ELSE /\ master' = [master EXCEPT !.wait_recv_data = TRUE]
            /\ mirq' = FALSE
            /\ UNCHANGED sirq

\* Mode SPI_WRITE: one block, or the end of the transfer: length 0 tells the
\* slave, unless more data has come meanwhile.
IsrWrite ==
    /\ master.mode = "WRITE"
    /\ IF master.transmit_len > 0
       THEN /\ spi' = [spi EXCEPT !.mosi = Head(master.send)]
            /\ spi_trans("WR_BUF")
            /\ master' = [master EXCEPT !.send = Tail(@), !.transmit_len = @ - 1]
            /\ mirq' = FALSE
       ELSE /\ master' = [master EXCEPT !.mode = "NULL"]
            /\ mirq' = (master.send # <<>>)
            /\ IF master.send # <<>> THEN UNCHANGED <<spi, sirq>>
               ELSE spi_master_send_length(0)

\* The interrupt is acknowledged before the handler runs, so that an edge
\* during the handler is seen afterwards.
gpio_isr_handler ==
    /\ mirq
    /\ IsrIdle \/ IsrRead \/ IsrWrite
    /\ UNCHANGED <<dir, slave, line, writer, reader, races>>

\* spi_master_write_slave_task: blocks until all of it fits...
MasterWriteSend ==
    /\ dir = "down" /\ writer.pc = "send" /\ writer.n + WriteLen <= MaxBlocks
    /\ Space(master.send) >= WriteLen
    /\ master' = [master EXCEPT !.send = @ \o Numbered(writer.n, WriteLen)]
    /\ writer' = [pc |-> "kick", n |-> writer.n + WriteLen]
    /\ UNCHANGED <<dir, slave, spi, line, mirq, sirq, reader, races>>

\* ... then, in a critical section, starts the handler if it is idle.
MasterWriteKick ==
    /\ dir = "down" /\ writer.pc = "kick"
    /\ mirq' = (mirq \/ master.mode = "NULL")
    /\ writer' = [writer EXCEPT !.pc = "send"]
    /\ UNCHANGED <<dir, master, slave, spi, line, sirq, reader, races>>

\* spi_master_read_slave_task: what is there, at most ReadLen.
MasterReadReceive ==
    /\ dir = "up" /\ reader.pc = "receive" /\ master.recv # <<>>
    /\ LET n == IF Len(master.recv) < ReadLen THEN Len(master.recv) ELSE ReadLen
       IN  /\ reader' = [pc |-> "check", n |-> reader.n + n]
           /\ master' = [master EXCEPT !.recv = SubSeq(@, n + 1, Len(@))]
    /\ UNCHANGED <<dir, slave, spi, line, mirq, sirq, writer, races>>

\* Mutant: the waiting handler is forgotten.
MasterReadCheck_none ==
    /\ dir = "up" /\ reader.pc = "check"
    /\ reader' = [reader EXCEPT !.pc = "receive"]
    /\ UNCHANGED <<dir, master, slave, spi, line, mirq, sirq, writer, races>>

\* Wake the handler that waits for room.  The test is on the bytes there,
\* not on the space.
MasterReadCheck ==
    /\ dir = "up" /\ reader.pc = "check"
    /\ reader' = [reader EXCEPT !.pc = "receive"]
    /\ IF master.wait_recv_data /\ Len(master.recv) > 1
       THEN /\ master' = [master EXCEPT !.wait_recv_data = FALSE]
            /\ mirq' = TRUE
       ELSE UNCHANGED <<master, mirq>>
    /\ UNCHANGED <<dir, slave, spi, line, sirq, writer, races>>

----------------------------------------------------------------------------
(* The slave.                                                              *)

\* gpio_set_level(): a rising edge interrupts the master.
SetLine(level, before) ==
    /\ line' = level
    /\ mirq' = (mirq \/ (level = 1 /\ before = 0))

\* A state of the callback: slave variables, registers, trigger_flag.
\* Load the next block of the tx buffer into the data register.
LoadBlock(x) ==
    IF x.s.tx = <<>> THEN x
    ELSE [s |-> [x.s EXCEPT !.tx = Tail(@),
                   !.total_send_len = IF @ = 0 THEN WordMod - 1 ELSE @ - 1],
          r |-> [x.r EXCEPT !.miso = Head(x.s.tx)],
          trigger |-> TRUE]

\* SPI_SLV_RD_BUF_DONE: the master took a block; next one, or next length.
ReadBufDone(x) ==
    IF x.s.total_send_len # 0 THEN LoadBlock(x)
    ELSE LET n == Len(x.s.tx)
         IN  [s |-> [x.s EXCEPT !.sending_flag = n > 0, !.total_send_len = n],
              r |-> IF n > 0 THEN [x.r EXCEPT !.toMaster = n] ELSE x.r,
              trigger |-> x.trigger \/ n > 0]

\* SPI_SLV_WR_BUF_DONE: store a block that was announced; ask for the next
\* one if there is room for it.
WriteBufDone(x) ==
    LET got == x.s.total_recv_len > 0
        rx  == IF got THEN SendFromISR(x.s.rx, x.r.mosi) ELSE x.s.rx
        ok  == Space(rx) >= 1
    IN  [x EXCEPT !.s = [x.s EXCEPT !.rx = rx,
                           !.total_recv_len = IF got THEN @ - 1 ELSE @,
                           !.wait_recv_data = @ \/ ~ok],
                  !.trigger = @ \/ ok]

\* SPI_SLV_WR_STA_DONE: a length from the master; 0 ends the transfer.
WriteStatusDone(x) ==
    LET n  == x.r.toSlave
        tx == Len(x.s.tx)
    IN  [s |-> [x.s EXCEPT !.total_recv_len = n],
         r |-> IF n = 0 /\ tx > 0 /\ ~x.s.sending_flag
               THEN [x.r EXCEPT !.toMaster = tx] ELSE x.r,
         trigger |-> x.trigger \/ n > 0 \/ tx > 0]

When(flag, op(_), x) == IF flag \in sirq THEN op(x) ELSE x

\* spi_event_callback: line down; every transaction that is done, in this
\* order (SPI_SLV_RD_STA_DONE loads the first block); line up if wanted.
spi_event_callback ==
    LET x0 == [s |-> slave, r |-> spi, trigger |-> FALSE]
        x1 == When("RD_BUF", ReadBufDone, x0)
        x2 == When("WR_BUF", WriteBufDone, x1)
        x3 == When("WR_STA", WriteStatusDone, x2)
        x4 == When("RD_STA", LoadBlock, x3)
    IN  /\ sirq # {}
        /\ sirq' = {}
        /\ slave' = x4.s
        /\ spi' = x4.r
        /\ SetLine(IF x4.trigger THEN 1 ELSE 0, 0)
        /\ races' = IF reader.pc = "clear" /\ "WR_BUF" \in sirq /\ Space(x4.s.rx) = 0
                    THEN races \cup {"late"} ELSE races
        /\ UNCHANGED <<dir, master, writer, reader>>

\* spi_slave_read_master_task: what is there, at most ReadLen.
SlaveReadReceive ==
    /\ dir = "down" /\ reader.pc = "receive" /\ slave.rx # <<>>
    /\ LET n == IF Len(slave.rx) < ReadLen THEN Len(slave.rx) ELSE ReadLen
       IN  /\ reader' = [pc |-> "check", n |-> reader.n + n]
           /\ slave' = [slave EXCEPT !.rx = SubSeq(@, n + 1, Len(@))]
    /\ UNCHANGED <<dir, master, spi, line, mirq, sirq, writer, races>>

\* Raise the line for the block the callback had no room for.  The test is on
\* the bytes there, not on the space: when the callback has filled the buffer
\* since the task received, the line goes up although there is no room.
SlaveReadCheck ==
    /\ dir = "down" /\ reader.pc = "check"
    /\ IF slave.wait_recv_data /\ Len(slave.rx) > 1
       THEN /\ reader' = [reader EXCEPT !.pc = "clear"]
            /\ SetLine(1, line)
            /\ races' = IF Space(slave.rx) = 0 THEN races \cup {"full"} ELSE races
       ELSE /\ reader' = [reader EXCEPT !.pc = "receive"]
            /\ UNCHANGED <<line, mirq, races>>
    /\ UNCHANGED <<dir, master, slave, spi, sirq, writer>>

\* The flag is cleared after the line went up: the callback may have found the
\* buffer full again in between.
SlaveReadClear ==
    /\ dir = "down" /\ reader.pc = "clear"
    /\ reader' = [reader EXCEPT !.pc = "receive"]
    /\ slave' = [slave EXCEPT !.wait_recv_data = FALSE]
    /\ UNCHANGED <<dir, master, spi, line, mirq, sirq, writer, races>>

\* spi_slave_write_master_task: blocks until all of it fits...
SlaveWriteSend ==
    /\ dir = "up" /\ writer.pc = "send" /\ writer.n + WriteLen <= MaxBlocks
    /\ Space(slave.tx) >= WriteLen
    /\ slave' = [slave EXCEPT !.tx = @ \o Numbered(writer.n, WriteLen)]
    /\ writer' = [pc |-> "kick", n |-> writer.n + WriteLen]
    /\ UNCHANGED <<dir, master, spi, line, mirq, sirq, reader, races>>

\* ... then, in a critical section, announces it if nothing is being sent.  A
\* callback in between may have sent all of it: then a length of 0 goes out
\* and sending_flag stays set.
SlaveWriteKick ==
    /\ dir = "up" /\ writer.pc = "kick"
    /\ writer' = [writer EXCEPT !.pc = "send"]
    /\ IF ~slave.sending_flag
       THEN /\ slave' = [slave EXCEPT !.total_send_len = Len(slave.tx),
                                      !.sending_flag = TRUE]
            /\ spi' = [spi EXCEPT !.toMaster = Len(slave.tx)]
            /\ SetLine(1, line)
            /\ races' = IF slave.tx = <<>> THEN races \cup {"empty"} ELSE races
       ELSE UNCHANGED <<slave, spi, line, mirq, races>>
    /\ UNCHANGED <<dir, master, sirq, reader>>

SpiWriter == MasterWriteSend \/ MasterWriteKick \/ SlaveWriteSend \/ SlaveWriteKick
SpiReader == MasterReadReceive \/ MasterReadCheck
                \/ SlaveReadReceive \/ SlaveReadCheck \/ SlaveReadClear

SpiNext == gpio_isr_handler \/ spi_event_callback \/ SpiWriter \/ SpiReader

SpiSpec == SpiInit /\ [][SpiNext]_spiVars

\* What runs again and again: the interrupt handlers and the tasks.
SpiTask(k) ==
    \/ k = 1 /\ gpio_isr_handler
    \/ k = 2 /\ spi_event_callback
    \/ k = 3 /\ SpiWriter
    \/ k = 4 /\ SpiReader

----------------------------------------------------------------------------
(* Properties.                                                             *)

\* Blocks from..to in a row, between what is read and what is written.
InARow(from, b) == \A i \in DOMAIN b : b[i] = from + i

\* From slave to master nothing is lost, repeated or reordered: what the
\* master has not read yet continues what it has read, and what is in the
\* data register and the slave's buffer continues that.
UpInOrder ==
    dir = "up" /\ races = {} =>
      /\ InARow(reader.n, master.recv)
      /\ InARow(writer.n - Len(slave.tx), slave.tx)
      /\ writer.n - Len(slave.tx) - (reader.n + Len(master.recv)) \in {0, 1}

\* From master to slave: every block that left the master's buffer is stored
\* by the slave, unless its task raised the line with the buffer full.
DownInOrder ==
    dir = "down" /\ races = {} =>
      /\ InARow(reader.n, slave.rx)
      /\ sirq = {} => reader.n + Len(slave.rx) = writer.n - Len(master.send)

BlocksInOrder == UpInOrder /\ DownInOrder

\* All is sent and read, or one of the three races was lost.
TransferDone ==
    races # {} \/ (writer.n + WriteLen > MaxBlocks /\ reader.n = writer.n)
============================================================================
