-------------------------------- MODULE Link --------------------------------
(***************************************************************************)
(* The serial line between the bridge (serial_bridge.py, r2_protocol.py)   *)
(* and the MCU (remote_control.c): frames                                  *)
(*                                                                         *)
(*        SYNC1 SYNC2 CMD LEN_LO LEN_HI PAYLOAD... CHK                     *)
(*                                                                         *)
(* packed and sent by one side, and taken apart again by the parser of the *)
(* other: rc_feed_byte, byte by byte in the receive interrupt of the MCU,  *)
(* or _parse_rx over what each read returns.  The line may change or lose  *)
(* a byte.                                                                 *)
(*                                                                         *)
(* Bytes are 0 .. W - 1, and the size of a coordinate is scaled to a byte; *)
(* the order of the sizes is the code's: rc_path_t and rc_kfs_t have room  *)
(* for more items than a frame of RC_FRAME_MAX_PAYLOAD, rc_zone_i_path_t   *)
(* for fewer.                                                              *)
(***************************************************************************)
EXTENDS Integers, Sequences

CONSTANTS Scenarios,   \* bounds of a behaviour: [side, messages, frames, flips, losses]
          W,           \* 256
          XorOf(_, _),   \* of two bytes
          SYNC1, SYNC2,
          RC_FRAME_MAX_PAYLOAD,
          OdomSize, PointSize, KfsSize,   \* bytes of an odometry, a point, a detection
          DebugSize,                      \* bytes of the data for a plot
          PathMax, KfsMax, ZoneMax,       \* room in rc_path_t, rc_kfs_t, rc_zone_i_path_t
          InfoMax,                        \* blocks that the MCU tells of at once
          States                          \* LowerState

Byte == 0 .. W - 1
Uninit == -1     \* read from a variable on the stack that nothing was written to

\* The commands are bytes.
ASSUME BytesAssumption == W \in Nat /\ W > 7 /\ {SYNC1, SYNC2} \cup States \subseteq Byte
ASSUME XorAssumption ==
  \A x, y \in Byte : /\ XorOf(x, y) \in Byte
                     /\ \A z \in Byte : /\ XorOf(x, y) = XorOf(x, z) => y = z
                                        /\ XorOf(x, z) = XorOf(y, z) => x = y
ASSUME SyncAssumption == SYNC1 # SYNC2
ASSUME SizesAssumption ==
  {RC_FRAME_MAX_PAYLOAD, OdomSize, PointSize, KfsSize, DebugSize,
   PathMax, KfsMax, ZoneMax, InfoMax} \subseteq Nat \ {0}

VARIABLES
  scenario,
  line,        \* bytes on the way: [b, f, p], byte p of frame f
  rx_sync,     \* the MCU's parser: 0, 1 or 2
  buffer,      \* rx_buf of the MCU, or rx_buffer of the bridge
  pc,          \* the bridge's receive thread: "read", "parse" or "dead"
  sent,        \* history: the messages sent
  got,         \* history: [m, f], message m understood at the end of frame f
  hit,         \* history: frames with a changed command, payload or checksum
  broken,      \* history: a frame whose boundaries were damaged, or 0
  flips, losses

linkVars == <<scenario, line, rx_sync, buffer, pc, sent, got, hit, broken, flips, losses>>

Up == scenario.side = "up"

-----------------------------------------------------------------------------
(* Packing: the bridge and the MCU each have their own numbers of the commands *)
(* and their own checksum.                                                     *)

UplinkCMD == [ODOM |-> 1, PATH |-> 2, KFS |-> 3, CMD_RSP |-> 4, ZONE_I_PATH |-> 5]

\* The MCU neither sends nor names the two debug frames and REQ.
DownlinkCMD == [ACK |-> 0, REQ |-> 1, STATUS |-> 2, ZONE_I_INFO |-> 3, DOCK_OK |-> 4,
                GO_ZONE_I |-> 5, DEBUG_HEADING_HOLD |-> 6, DEBUG_NAV_GOTO |-> 7]

rc_cmd_t == [ODOM |-> 1, PATH |-> 2, KFS |-> 3, CMD_RSP |-> 4, ZONE_I_PATH |-> 5,
             ACK |-> 0, STATUS |-> 2, ZONE_I_INFO |-> 3, DOCK_OK |-> 4, GO_ZONE_I |-> 5]

XorFrom(chk, bytes) ==
  LET upTo[k \in 0 .. Len(bytes)] == IF k = 0 THEN chk ELSE XorOf(upTo[k - 1], bytes[k])
  IN  upTo[Len(bytes)]

\* Fault: the command is left out.
calc_checksum_NoCommand(cmd, payload) ==
  XorFrom(XorOf(Len(payload) % W, Len(payload) \div W), payload)

calc_checksum(cmd, payload) ==
  XorFrom(XorOf(XorOf(cmd, Len(payload) % W), Len(payload) \div W), payload)

pack_frame(cmd, payload) ==
  <<SYNC1, SYNC2, cmd, Len(payload) % W, Len(payload) \div W>>
    \o payload \o <<calc_checksum(cmd, payload)>>

\* calc_chk of the MCU
calc_chk(cmd, data) == XorFrom(XorOf(XorOf(cmd, Len(data) % W), Len(data) \div W), data)

send_frame(cmd, data) ==
  <<SYNC1, SYNC2, cmd, Len(data) % W, Len(data) \div W>> \o data \o <<calc_chk(cmd, data)>>

\* A message is a command, its leading bytes and its items, of equal size.
ItemSize == [ODOM |-> OdomSize, PATH |-> PointSize, KFS |-> KfsSize, ZONE_I_PATH |-> 1,
             CMD_RSP |-> 1, ZONE_I_INFO |-> 2]

\* The items one behind the other
Bytes(items, size) ==
  [j \in 1 .. size * Len(items) |-> items[(j - 1) \div size + 1][1 + ((j - 1) % size)]]

AtMost(n, max) == IF n > max THEN max ELSE n
Cut(items, max) == SubSeq(items, 1, AtMost(Len(items), max))

\* pack_odom, pack_path, pack_kfs, pack_zone_i_path, pack_cmd_rsp of the bridge
payload_up(m) ==
  m.lead \o (IF m.cmd \in {"ODOM", "CMD_RSP"} THEN << >> ELSE <<Len(m.items)>>)
         \o Bytes(m.items, ItemSize[m.cmd])

pack_up(m) == pack_frame(UplinkCMD[m.cmd], payload_up(m))

\* rc_send_ack, rc_send_status, rc_send_zone_i_info, rc_send_dock_ok and
\* rc_send_go_zone_i of the MCU
pld(m) ==
  IF m.cmd = "ZONE_I_INFO"
    THEN <<AtMost(Len(m.items), InfoMax)>> \o Bytes(Cut(m.items, InfoMax), ItemSize[m.cmd])
    ELSE m.lead

send_down(m) == send_frame(rc_cmd_t[m.cmd], pld(m))

\* What the two sides have to say: struct.pack takes counts of a byte and
\* lengths of two.
UpMessage(m) ==
  /\ m \in [cmd : DOMAIN UplinkCMD, lead : Seq(Byte), items : Seq(Seq(Byte))]
  /\ \A k \in DOMAIN m.items : Len(m.items[k]) = ItemSize[m.cmd]
  /\ Len(m.lead) = IF m.cmd \in {"ZONE_I_PATH", "CMD_RSP"} THEN 2 ELSE 0
  /\ m.cmd = "ODOM" => Len(m.items) = 1
  /\ m.cmd = "CMD_RSP" => m.items = << >>
  /\ Len(m.items) < W /\ Len(payload_up(m)) < W * W

DownMessage(m) ==
  /\ m \in [cmd : {"ACK", "STATUS", "ZONE_I_INFO", "DOCK_OK", "GO_ZONE_I"},
            lead : Seq(Byte), items : Seq(Seq(Byte))]
  /\ m.cmd = "ACK" => Len(m.lead) = 2
  /\ m.cmd = "STATUS" => Len(m.lead) = 1 /\ m.lead[1] \in States
  /\ m.cmd \notin {"ACK", "STATUS"} => m.lead = << >>
  /\ IF m.cmd = "ZONE_I_INFO"
       THEN Len(m.items) < W /\ \A k \in DOMAIN m.items : Len(m.items[k]) = ItemSize[m.cmd]
       ELSE m.items = << >>

ASSUME ScenariosAssumption ==
  \A s \in Scenarios :
    /\ s.side \in {"up", "down"} /\ {s.frames, s.flips, s.losses} \subseteq Nat
    /\ \A m \in s.messages : IF s.side = "up" THEN UpMessage(m) ELSE DownMessage(m)

Pack(m) == IF Up THEN pack_up(m) ELSE send_down(m)

\* Messages that do not fit in a frame of the MCU
Oversize(m) == Up /\ Len(Pack(m)) > 6 + RC_FRAME_MAX_PAYLOAD

-----------------------------------------------------------------------------
(* What the receivers make of a frame: a message, or none *)

\* n items of a size that begin after the first bytes of the payload; the
\* callback also gets those that the payload is too short for.
Items(payload, first, size, n) ==
  [k \in 1 .. n |->
     LET at == first + (k - 1) * size
     IN  IF at + size <= Len(payload) THEN SubSeq(payload, at + 1, at + size)
         ELSE [j \in 1 .. size |-> Uninit]]

\* dispatch_frame and its handlers
handle_odom(payload) ==
  IF Len(payload) < OdomSize THEN << >>
  ELSE <<[cmd |-> "ODOM", lead |-> << >>, items |-> <<SubSeq(payload, 1, OdomSize)>>]>>

handle_path(payload) ==
  IF Len(payload) < 1 THEN << >>
  ELSE <<[cmd |-> "PATH", lead |-> << >>,
          items |-> Items(payload, 1, PointSize, AtMost(payload[1], PathMax))]>>

handle_kfs(payload) ==
  IF Len(payload) < 1 THEN << >>
  ELSE <<[cmd |-> "KFS", lead |-> << >>,
          items |-> Items(payload, 1, KfsSize, AtMost(payload[1], KfsMax))]>>

handle_zone_i_path(payload) ==
  IF Len(payload) < 3 THEN << >>
  ELSE <<[cmd |-> "ZONE_I_PATH", lead |-> SubSeq(payload, 1, 2),
          items |-> Items(payload, 3, 1, AtMost(payload[3], ZoneMax))]>>

dispatch_frame(cmd, payload) ==
  CASE cmd = rc_cmd_t.ODOM        -> handle_odom(payload)
    [] cmd = rc_cmd_t.PATH        -> handle_path(payload)
    [] cmd = rc_cmd_t.KFS         -> handle_kfs(payload)
    [] cmd = rc_cmd_t.ZONE_I_PATH -> handle_zone_i_path(payload)
    [] OTHER                   -> << >>

\* _handle_downlink; it raises an exception, which nothing catches, when the
\* payload is too short or the state unknown.
Raises(cmd, payload) ==
  \/ cmd = DownlinkCMD.ACK /\ Len(payload) < 2
  \/ cmd = DownlinkCMD.REQ /\ Len(payload) < 1
  \/ cmd \in {DownlinkCMD.DEBUG_HEADING_HOLD, DownlinkCMD.DEBUG_NAV_GOTO} /\ Len(payload) < DebugSize
  \/ cmd = DownlinkCMD.STATUS /\ (Len(payload) < 1 \/ payload[1] \notin States)
  \/ cmd = DownlinkCMD.ZONE_I_INFO /\ (Len(payload) < 1 \/ 1 + 2 * payload[1] > Len(payload))

\* unpack_heading_hold_debug and unpack_nav_goto_debug
unpack_debug(payload) == SubSeq(payload, 1, DebugSize)

handle_downlink(cmd, payload) ==
  LET Is(name, lead, items) == <<[cmd |-> name, lead |-> lead, items |-> items]>>
  IN  CASE cmd = DownlinkCMD.ACK         -> Is("ACK", SubSeq(payload, 1, 2), << >>)
        [] cmd = DownlinkCMD.REQ         -> Is("REQ", SubSeq(payload, 1, 1), << >>)
        [] cmd = DownlinkCMD.STATUS      -> Is("STATUS", SubSeq(payload, 1, 1), << >>)
        [] cmd = DownlinkCMD.ZONE_I_INFO -> Is("ZONE_I_INFO", << >>, Items(payload, 1, 2, payload[1]))
        [] cmd = DownlinkCMD.DOCK_OK     -> Is("DOCK_OK", << >>, << >>)
        [] cmd = DownlinkCMD.GO_ZONE_I   -> Is("GO_ZONE_I", << >>, << >>)
        [] cmd = DownlinkCMD.DEBUG_HEADING_HOLD ->
             Is("DEBUG_HEADING_HOLD", unpack_debug(payload), << >>)
        [] cmd = DownlinkCMD.DEBUG_NAV_GOTO ->
             Is("DEBUG_NAV_GOTO", unpack_debug(payload), << >>)
        [] OTHER                     -> << >>

-----------------------------------------------------------------------------
LinkInit ==
  /\ scenario \in Scenarios
  /\ line = << >>
  /\ rx_sync = 0 /\ buffer = << >> /\ pc = "read"
  /\ sent = << >> /\ got = << >>
  /\ hit = {} /\ broken = 0
  /\ flips = 0 /\ losses = 0

\* _write_serial, or send_frame: bounded by the frames of the scenario, and
\* one on the way behind the one being received.
Send(m) ==
  /\ Len(sent) < scenario.frames
  /\ \A k \in DOMAIN line : line[k].f >= Len(sent)
  /\ sent' = Append(sent, m)
  /\ line' = line \o LET bytes == Pack(m) IN
               [p \in 1 .. Len(bytes) |-> [b |-> bytes[p], f |-> Len(sent) + 1, p |-> p]]
  /\ UNCHANGED <<scenario, rx_sync, buffer, pc, got, hit, broken, flips, losses>>

\* Noise hits the next byte.  It does not matter to the boundaries of the frames
\* if it changes the command, the payload or the checksum of one that fits.
Boundary(byte) == byte.p \in {1, 2, 4, 5} \/ Oversize(sent[byte.f])

Flip(v) ==
  /\ line # << >>
  /\ flips < scenario.flips
  /\ v # line[1].b
  /\ flips' = flips + 1
  /\ line' = [line EXCEPT ![1].b = v]
  /\ hit' = hit \cup {line[1].f}
  /\ broken' = IF broken = 0 /\ Boundary(line[1]) THEN line[1].f ELSE broken
  /\ UNCHANGED <<scenario, rx_sync, buffer, pc, sent, got, losses>>

Lose ==
  /\ line # << >>
  /\ losses < scenario.losses
  /\ losses' = losses + 1
  /\ line' = Tail(line)
  /\ hit' = hit \cup {line[1].f}
  /\ broken' = IF broken = 0 THEN line[1].f ELSE broken
  /\ UNCHANGED <<scenario, rx_sync, buffer, pc, sent, got, flips>>

-----------------------------------------------------------------------------
(* The MCU: rc_feed_byte *)

taken(k) == buffer[k].b
Payload(len) == [k \in 1 .. len |-> buffer[5 + k].b]
Understood(messages, f) == [k \in 1 .. Len(messages) |-> [m |-> messages[k], f |-> f]]

\* Looking for the two synchronisation bytes
FeedSync ==
  /\ Up /\ line # << >> /\ rx_sync < 2
  /\ LET byte == line[1] IN
       CASE byte.b = SYNC1 -> rx_sync' = 1 /\ buffer' = <<byte>>
         [] byte.b = SYNC2 /\ rx_sync = 1 -> rx_sync' = 2 /\ buffer' = Append(buffer, byte)
         [] OTHER -> rx_sync' = 0 /\ buffer' = << >>
  /\ line' = Tail(line)
  /\ UNCHANGED <<scenario, pc, sent, got, hit, broken, flips, losses>>

\* Fault: a frame of any length is collected.
FrameState_AnyLength(buf) ==
  LET len == buf[4].b + W * buf[5].b
  IN  IF Len(buf) < 5 THEN "more"
      ELSE IF Len(buf) < 6 + len THEN "more" ELSE "whole"

\* What the bytes collected after the synchronisation are
FrameState(buf) ==
  LET len == buf[4].b + W * buf[5].b
  IN  IF Len(buf) < 5 THEN "more"
      ELSE IF len > RC_FRAME_MAX_PAYLOAD THEN "refused"
      ELSE IF Len(buf) < 6 + len THEN "more" ELSE "whole"

\* Collecting a frame; it is dispatched if its checksum is right.
FeedFrame ==
  /\ Up /\ line # << >> /\ rx_sync = 2
  /\ line' = Tail(line)
  /\ LET buf     == Append(buffer, line[1])
         state   == FrameState(buf)
         len     == buf[4].b + W * buf[5].b
         payload == [k \in 1 .. len |-> buf[5 + k].b]
         cmd     == buf[3].b
     IN  /\ rx_sync' = IF state = "more" THEN 2 ELSE 0
         /\ buffer' = IF state = "more" THEN buf ELSE << >>
         /\ got' = IF state = "whole" /\ calc_chk(cmd, payload) = line[1].b
                     THEN got \o Understood(dispatch_frame(cmd, payload), line[1].f)
                     ELSE got
  /\ UNCHANGED <<scenario, pc, sent, hit, broken, flips, losses>>

-----------------------------------------------------------------------------
(* The bridge: _rx_loop and _parse_rx *)

\* A read returns what there is.
Read(n) ==
  /\ ~Up /\ pc = "read"
  /\ buffer' = buffer \o SubSeq(line, 1, n)
  /\ line' = SubSeq(line, n + 1, Len(line))
  /\ pc' = "parse"
  /\ UNCHANGED <<scenario, rx_sync, sent, got, hit, broken, flips, losses>>

Synchronised == taken(1) = SYNC1 /\ taken(2) = SYNC2
pay_len == taken(4) + W * taken(5)

ParseSkip ==
  /\ pc = "parse" /\ Len(buffer) >= 5
  /\ ~Synchronised
  /\ buffer' = Tail(buffer)
  /\ UNCHANGED <<scenario, line, rx_sync, pc, sent, got, hit, broken, flips, losses>>

Rest(buf, len) == SubSeq(buf, 5 + len + 2, Len(buf))

\* A whole frame leaves the buffer, whether its checksum is right or not.
ParseFrame ==
  /\ pc = "parse" /\ Len(buffer) >= 5
  /\ Synchronised /\ Len(buffer) >= 6 + pay_len
  /\ buffer' = Rest(buffer, pay_len)
  /\ LET payload == Payload(pay_len)
         right   == taken(6 + pay_len) = calc_checksum(taken(3), payload)
     IN  IF right /\ Raises(taken(3), payload)
           THEN pc' = "dead" /\ UNCHANGED got
           ELSE /\ got' = IF right THEN got \o Understood(handle_downlink(taken(3), payload),
                                                         buffer[6 + pay_len].f)
                          ELSE got
                /\ UNCHANGED pc
  /\ UNCHANGED <<scenario, line, rx_sync, sent, hit, broken, flips, losses>>

ParseWait ==
  /\ pc = "parse"
  /\ \/ Len(buffer) < 5
     \/ /\ Len(buffer) >= 5 /\ Synchronised
        /\ Len(buffer) < 6 + pay_len
  /\ pc' = "read"
  /\ UNCHANGED <<scenario, line, rx_sync, buffer, sent, got, hit, broken, flips, losses>>

LinkNext ==
  \/ \E m \in scenario.messages : Send(m)
  \/ (\E v \in Byte : Flip(v)) \/ Lose
  \/ FeedSync \/ FeedFrame
  \/ (\E n \in 1 .. Len(line) : Read(n)) \/ ParseSkip \/ ParseFrame \/ ParseWait

LinkSpec == LinkInit /\ [][LinkNext]_linkVars

-----------------------------------------------------------------------------
(* Properties *)

\* Everything sent has been looked at.
Drained == line = << >> /\ pc = "read"

\* A refused message, in the rest of which a frame seems to begin
FalseStart(m) ==
  Oversize(m) /\ \E j \in 6 .. Len(Pack(m)) - 1 : Pack(m)[j] = SYNC1 /\ Pack(m)[j + 1] = SYNC2

\* The messages that the receiver can understand, and what it keeps of them
Receivable == {f \in DOMAIN sent : f \notin hit /\ ~Oversize(sent[f]) /\ sent[f].cmd # "CMD_RSP"}

Room == [PATH |-> PathMax, KFS |-> KfsMax, ZONE_I_PATH |-> ZoneMax, ZONE_I_INFO |-> InfoMax]
Heard(m) == IF m.cmd \in DOMAIN Room THEN [m EXCEPT !.items = Cut(m.items, Room[m.cmd])]
            ELSE m

\* While no noise has damaged the boundaries of a frame, the receiver
\* understands the messages that were sent, in their order and whole up to its
\* room for their items, and misses only the one with a changed byte, those that
\* do not fit in a frame of the MCU and the responses (CMD_RSP) that it has no
\* handler for.  The payloads may hold the synchronisation bytes, except that of
\* a message that does not fit: the MCU looks for the next frame in it.
FramesInOrder ==
  broken = 0 /\ flips <= 1 /\ (\A k \in DOMAIN sent : ~FalseStart(sent[k])) =>
    /\ pc # "dead"
    /\ \A k \in DOMAIN got : got[k].f \in Receivable /\ got[k].m = Heard(sent[got[k].f])
    /\ \A j, k \in DOMAIN got : j < k => got[j].f < got[k].f
    /\ \A f \in Receivable : Drained \/ (\E k \in DOMAIN got : got[k].f > f)
                      => \E k \in DOMAIN got : got[k].f = f

\* The longest frame a parser waits for, and how many frames of a length that
\* may be in it after the one where it went wrong
LongestFrame == 6 + (IF Up THEN RC_FRAME_MAX_PAYLOAD ELSE W * W - 1)
Swallowed(size) == (LongestFrame - 1 + size - 1) \div size

\* However one changed or lost byte damages the boundaries of a frame, the parser
\* is in step again after as many whole frames as fit in the longest one it may
\* wait for, and understands the last message sent if it has a handler for it;
\* provided that the messages do not look like synchronisation themselves and
\* the receive thread lives.
Resynchronises ==
  LET plain == \A k \in DOMAIN sent : ~Oversize(sent[k]) /\
                 \A j \in 3 .. Len(Pack(sent[k])) - 1 : Pack(sent[k])[j] # SYNC1
      sizes == {Len(Pack(sent[k])) : k \in DOMAIN sent}
  IN  Drained /\ broken # 0 /\ flips + losses = 1 /\ plain
        /\ sent[Len(sent)].cmd # "CMD_RSP" =>
        \A size \in sizes :
          /\ \A other \in sizes : size <= other
          /\ Len(sent) > broken + Swallowed(size)
          => /\ got # << >>
             /\ got[Len(got)] = [m |-> Heard(sent[Len(sent)]), f |-> Len(sent)]
=============================================================================
