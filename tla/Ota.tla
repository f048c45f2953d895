-------------------------------- MODULE Ota --------------------------------
(***************************************************************************)
(* The native OTA examples (ota_example_main.c): one task downloads an     *)
(* image over HTTP, writes the part of the body that belongs to the        *)
(* partition it updates, verifies it, makes it the boot partition and      *)
(* restarts.  Three layouts of the served file, one program each:          *)
(*   "split"  all images concatenated, one per OTA partition;              *)
(*   "whole"  the file is the image;                                       *)
(*   "skip"   the image follows the old SDK's part of the file.            *)
(*                                                                         *)
(* The HTTP stream is counted in units: a header line is two units, the    *)
(* line that ends the header too, the body follows.  A unit of the body is *)
(* [v, i], byte i of the file of version v.                                *)
(***************************************************************************)
EXTENDS Station, SequencesExt

CONSTANTS
    OtaSize,      \* units of one image
    SkipSize,     \* units of the old SDK's part
    HeaderLines,  \* header lines before the empty one
    TextBuffSize, \* TEXT_BUFFSIZE: the most one recv() returns
    MaxVersion,   \* bound: versions the server publishes
    MaxResets     \* bound: power losses

\* Content-Length is the second line of the header, and an image is longer
\* than the buffer of one recv().
ASSUME OtaAssumption ==
    /\ OtaSize \in Nat \ {0} /\ SkipSize \in Nat
    /\ HeaderLines \in Nat \ {0, 1}
    /\ TextBuffSize \in 1 .. OtaSize
    /\ MaxVersion \in Nat \ {0}

VARIABLES
    layout,   \* which of the three programs runs
    published,  \* the version the server offers now
    flash,    \* per OTA partition, the units written since its erasure
    boot,     \* the partition otadata names
    running,  \* the partition the code runs from
    pc,       \* where ota_example_task stands
    stream,   \* the connection: version served, units received, sender open
    firm,     \* esp_ota_firm_t
    resets    \* how often power was lost

otaVars == <<layout, published, flash, boot, running, pc, stream, firm, resets>>
otaAllVars == <<otaVars, stationVars>>

Partitions == {0, 1}
get_ota_partition_count == 2
UpdatePartition == (running + 1) % get_ota_partition_count

HeaderLen == 2 * (HeaderLines + 1)
ContentLen ==
    CASE layout = "split" -> OtaSize * get_ota_partition_count
      [] layout = "whole" -> OtaSize
      [] layout = "skip"  -> SkipSize + OtaSize
StreamLen == HeaderLen + ContentLen

\* The image of version v for partition p, by where the file keeps it.
ImageStart(p) ==
    CASE layout = "split" -> p * OtaSize
      [] layout = "whole" -> 0
      [] layout = "skip"  -> SkipSize
Image(v, p) == [i \in 1 .. OtaSize |-> [v |-> v, i |-> ImageStart(p) + i - 1]]

\* External: esp_image_load(ESP_IMAGE_VERIFY): header, segments, checksum.
\* What follows the image in the partition is not looked at.
Verifies(p) == \E v \in 1 .. MaxVersion : IsPrefix(Image(v, p), flash[p])

firmInit ==
    [state |-> "INIT", content_len |-> 0, read_bytes |-> 0, write_bytes |-> 0,
     ota_size |-> 0, ota_offset |-> 0, buf |-> 0, bytes |-> 0]

OtaInit ==
    /\ layout \in {"split", "whole", "skip"}
    /\ published = 1
    /\ flash = [p \in Partitions |-> IF p = 0 THEN Image(1, 0) ELSE <<>>]
    /\ boot = 0
    /\ running = 0
    /\ pc = "start"
    /\ stream = [v |-> 1, got |-> 0, open |-> FALSE]
    /\ firm = firmInit
    /\ resets = 0
    /\ StationInit

----------------------------------------------------------------------------
(* The parser.  A message is the stream from unit a up to, not with, b.    *)

\* The Content-Length line is the second line of the header: units 2 and 3.
LengthInside(a, b) == a <= 2 /\ 4 <= b
LengthCut(a, b) == a <= 2 /\ b = 3

\* A line of the header, or the empty line, has one unit on each side of b.
LineCut(b) == b < HeaderLen /\ b % 2 = 1

\* How the three programs place the image in the file once they know
\* Content-Length.
split_lengths(f, len) ==
    LET size == len \div get_ota_partition_count
    IN  [f EXCEPT !.content_len = len, !.ota_size = size,
                  !.ota_offset = size * UpdatePartition]
whole_lengths(f, len) ==
    [f EXCEPT !.content_len = len, !.ota_size = len, !.ota_offset = 0]
skip_lengths(f, len) ==
    [f EXCEPT !.content_len = len, !.ota_size = len - SkipSize,
              !.ota_offset = SkipSize]

Lengths(f) ==
    CASE layout = "split" -> split_lengths(f, ContentLen)
      [] layout = "whole" -> whole_lengths(f, ContentLen)
      [] layout = "skip"  -> skip_lengths(f, ContentLen)

\* _esp_ota_firm_parse_http(): Content-Length once its line is in the text;
\* the search runs before the lines are looked at.
_esp_ota_firm_parse_http(f, a, b) ==
    IF f.content_len = 0 /\ LengthInside(a, b) THEN Lengths(f) ELSE f

\* Mutant: the bytes of the first message are not counted as written.
Prepare_uncounted(f, a, b) ==
    LET read == f.read_bytes + (b - a)
        over == read - f.ota_offset
    IN  IF read >= f.ota_offset
        THEN [f EXCEPT !.read_bytes = read, !.state = "START",
                       !.buf = b - over, !.bytes = over]
        ELSE [f EXCEPT !.read_bytes = read]

\* ESP_OTA_PREPARE: skip the body before ota_offset, keep what is beyond.
Prepare(f, a, b) ==
    LET read == f.read_bytes + (b - a)
        over == read - f.ota_offset
    IN  IF read >= f.ota_offset
        THEN [f EXCEPT !.read_bytes = read, !.state = "START",
                       !.buf = b - over, !.bytes = over,
                       !.write_bytes = f.write_bytes + over]
        ELSE [f EXCEPT !.read_bytes = read]

\* ESP_OTA_START: up to ota_size bytes; reaching it exactly is not the end.
Start(f, a, b) ==
    LET full  == f.write_bytes + (b - a) > f.ota_size
        bytes == IF full THEN f.ota_size - f.write_bytes ELSE b - a
    IN  [f EXCEPT !.bytes = bytes, !.buf = a,
                  !.state = IF full THEN "RECVED" ELSE "START",
                  !.write_bytes = f.write_bytes + bytes]

\* esp_ota_firm_parse_msg(): do_parse_msg until the message is consumed.  The
\* header is followed, in the same message, by the first part of the body.
parse_msg(f, a, b) ==
    CASE f.state = "INIT" ->
           LET g == _esp_ota_firm_parse_http(f, a, b)
           IN  IF b < HeaderLen THEN g
               ELSE LET h == [g EXCEPT !.state = "PREPARE"]
                    IN  IF b = HeaderLen THEN h ELSE Prepare(h, HeaderLen, b)
      [] f.state = "PREPARE" -> Prepare(f, a, b)
      [] f.state = "START"   -> Start(f, a, b)

\* In these states do_parse_msg consumes nothing: the loop never ends.
Spins(f) == f.state \in {"RECVED", "FINISH"}

\* ota_size - write_bytes wraps around: the memcpy() that follows is not
\* survivable.  write_bytes may only have passed ota_size in PREPARE.
Wraps(f) == f.state = "START" /\ f.write_bytes > f.ota_size

is_finished(f) == f.state \in {"FINISH", "RECVED"}
can_write(f) == f.state \in {"START", "RECVED"}

\* The body units of a message that the parser hands to esp_ota_write().
Written(f) == [k \in 1 .. f.bytes |->
                 [v |-> stream.v, i |-> f.buf + k - 1 - HeaderLen]]

----------------------------------------------------------------------------
(* ota_example_task and what surrounds it.                                 *)

\* app_main(): example_connect() starts the station...
app_main ==
    /\ pc = "start"
    /\ start
    /\ pc' = "wait"
    /\ UNCHANGED <<layout, published, flash, boot, running, stream, firm, resets>>

\* ... and blocks; then the task is created.
Connected ==
    /\ pc = "wait"
    /\ example_connect_returns
    /\ pc' = "socket"
    /\ UNCHANGED <<layout, published, flash, boot, running, stream, firm, resets>>

\* task_fatal_error(): the socket is closed and the task deletes itself.
task_fatal_error ==
    /\ pc' = "deleted"
    /\ stream' = [stream EXCEPT !.open = FALSE]

connect_to_http_server ==
    /\ pc = "socket"
    /\ \/ /\ wifi = "up"
          /\ pc' = "request"
          /\ stream' = [v |-> published, got |-> 0, open |-> TRUE]
       \/ task_fatal_error
    /\ UNCHANGED <<layout, published, flash, boot, running, firm, resets,
                   stationVars>>

SendRequest ==
    /\ pc = "request"
    /\ \/ pc' = "begin" /\ UNCHANGED stream
       \/ task_fatal_error
    /\ UNCHANGED <<layout, published, flash, boot, running, firm, resets,
                   stationVars>>

\* esp_ota_begin() erases the partition; esp_ota_firm_init().
Begin ==
    /\ pc = "begin"
    /\ \/ /\ flash' = [flash EXCEPT ![UpdatePartition] = <<>>]
          /\ firm' = firmInit
          /\ pc' = "recv"
          /\ UNCHANGED stream
       \/ task_fatal_error /\ UNCHANGED <<flash, firm>>
    /\ UNCHANGED <<layout, published, boot, running, resets, stationVars>>

\* recv() returned n units: parse them and write what belongs to the image.
Receive(n) ==
    LET a == stream.got
        b == stream.got + n
        f == parse_msg(firm, a, b)
        newPc ==
          CASE Spins(firm) -> "spin"
            [] ~Spins(firm) /\ firm.state = "INIT" /\ firm.content_len = 0
                 /\ LengthCut(a, b) -> "crashed"
            [] ~Spins(firm) /\ firm.state = "INIT" /\ ~LengthCut(a, b)
                 /\ LineCut(b) -> "deleted"
            [] Wraps(firm) -> "crashed"
            [] OTHER -> IF can_write(f) /\ is_finished(f) THEN "end" ELSE "recv"
    IN  /\ pc = "recv" /\ stream.open /\ wifi = "up"
        /\ b <= StreamLen
        /\ pc' = newPc
        /\ stream' = [stream EXCEPT !.got = b, !.open = newPc # "deleted"]
        /\ IF newPc \in {"recv", "end"}
           THEN /\ firm' = f
                /\ flash' = IF can_write(f)
                            THEN [flash EXCEPT ![UpdatePartition] = @ \o Written(f)]
                            ELSE flash
           ELSE UNCHANGED <<firm, flash>>
        /\ UNCHANGED <<layout, published, boot, running, resets, stationVars>>

\* recv() returned 0: the server closed, early or after the last unit.
Closed ==
    /\ pc = "recv" /\ stream.open
    /\ pc' = "end"
    /\ stream' = [stream EXCEPT !.open = FALSE]
    /\ UNCHANGED <<layout, published, flash, boot, running, firm, resets, stationVars>>

\* recv() or esp_ota_write() failed.
ReceiveFails ==
    /\ pc = "recv"
    /\ task_fatal_error
    /\ UNCHANGED <<layout, published, flash, boot, running, firm, resets, stationVars>>

\* Mutant: the result of esp_ota_end() is ignored.
End_unchecked ==
    /\ pc = "end"
    /\ pc' = "set_boot"
    /\ UNCHANGED <<layout, published, flash, boot, running, stream, firm, resets,
                   stationVars>>

\* esp_ota_end() verifies what was written.
End ==
    /\ pc = "end"
    /\ \/ Verifies(UpdatePartition) /\ pc' = "set_boot" /\ UNCHANGED stream
       \/ ~Verifies(UpdatePartition) /\ task_fatal_error
    /\ UNCHANGED <<layout, published, flash, boot, running, firm, resets, stationVars>>

SetBoot ==
    /\ pc = "set_boot"
    /\ \/ boot' = UpdatePartition /\ pc' = "restart" /\ UNCHANGED stream
       \/ task_fatal_error /\ UNCHANGED boot
    /\ UNCHANGED <<layout, published, flash, running, firm, resets, stationVars>>

\* The bootloader starts the partition otadata names.
Boot ==
    /\ running' = boot
    /\ pc' = "start"
    /\ stream' = [v |-> 1, got |-> 0, open |-> FALSE]
    /\ firm' = firmInit
    /\ StationReset
    /\ UNCHANGED <<layout, published, flash, boot>>

Restart == pc = "restart" /\ Boot /\ UNCHANGED resets

\* Power is lost, or the code crashed and the device resets itself.
PowerLoss ==
    /\ resets < MaxResets
    /\ Boot
    /\ resets' = resets + 1

\* A new version is published; a connection that is open keeps its file.
Publish ==
    /\ published < MaxVersion
    /\ published' = published + 1
    /\ UNCHANGED <<layout, flash, boot, running, pc, stream, firm, resets,
                   stationVars>>

OtaNext ==
    \/ app_main \/ Connected \/ connect_to_http_server \/ SendRequest \/ Begin
    \/ \E n \in 1 .. TextBuffSize : Receive(n)
    \/ Closed \/ ReceiveFails \/ End \/ SetBoot \/ Restart \/ PowerLoss \/ Publish
    \/ StationNext /\ UNCHANGED otaVars

OtaSpec == OtaInit /\ [][OtaNext]_otaAllVars

\* What runs again and again: the station, whose network stops failing in the
\* end, and the task that waits for it.
OtaTask(k) ==
    \/ k = 1 /\ StationNext /\ UNCHANGED otaVars /\ drops' = drops
    \/ k = 2 /\ (app_main \/ Connected)

----------------------------------------------------------------------------
(* Properties.                                                             *)

\* Refinement: the partition that boots is the installed version.  When it
\* does not hold a complete image the value is 0, no version at all.
Installed ==
    LET whole == {v \in 1 .. MaxVersion : IsPrefix(Image(v, boot), flash[boot])}
    IN  IF whole = {} THEN 0 ELSE CHOOSE v \in whole : TRUE

Update == INSTANCE AtomicUpdate WITH installed <- Installed

\* ota_example_task implements AtomicUpdate: through power loss, early close
\* and failed calls in any order the device always boots a complete image, and
\* moves only to a newer complete one.
UpdateIsAtomic == Update!Spec

\* The parser keeps exactly the image of the partition it updates: a prefix
\* of it while the download runs, all of it once the parser says RECVED or
\* the whole file has come, wherever the messages are cut.  The parser never
\* loops for ever, and only a Content-Length cut in two can crash it.
WrittenIsImage ==
    /\ pc # "spin" /\ (pc = "crashed" => firm.state = "INIT")
    /\ pc \in {"recv", "end", "set_boot", "restart"} =>
      LET image == Image(stream.v, UpdatePartition)
          data  == flash[UpdatePartition]
      IN  /\ IsPrefix(data, image)
          /\ is_finished(firm) \/ stream.got = StreamLen => data = image

\* The task is in example_connect().
Connecting == pc = "wait"
============================================================================
