-------------------------------- MODULE MCLink --------------------------------
(* An instance of Link with three-bit bytes.  Payloads with synchronisation    *)
(* bytes and every command on a line that changes a byte, and long series of a *)
(* harmless message on a line that changes or loses one anywhere.              *)
EXTENDS Link, Bitwise

XorOfBytes(x, y) == x ^^ y

M(cmd, lead, items) == [cmd |-> cmd, lead |-> lead, items |-> items]

UpMessages ==
  {M("ODOM", << >>, <<i>>) : i \in {<<0, 0, 0>>, <<7, 6, 1>>, <<6, 7, 7>>}}
    \cup {M("PATH", << >>, i) : i \in {<< >>, << <<7, 6>> >>, << <<1, 7>>, <<0, 1>>, <<7, 7>> >>,
                                       << <<1, 7>>, <<6, 1>>, <<0, 1>> >>}}
    \cup {M("KFS", << >>, << <<7, 6, 0>> >>)}
    \cup {M("ZONE_I_PATH", <<7, 6>>, << <<5>>, <<6>> >>), M("ZONE_I_PATH", <<0, 1>>, << >>),
          M("CMD_RSP", <<7, 6>>, << >>)}
DownMessages ==
  {M("ACK", <<7, 6>>, << >>), M("ACK", <<1, 0>>, << >>), M("STATUS", <<5>>, << >>)}
    \cup {M("ZONE_I_INFO", << >>, i) : i \in {<< >>, << <<7, 6>>, <<0, 7>>, <<1, 1>> >>}}
    \cup {M("DOCK_OK", << >>, << >>), M("GO_ZONE_I", << >>, << >>)}

S(side, messages, frames, flipped, lost) ==
  [side |-> side, messages |-> messages, frames |-> frames, flips |-> flipped, losses |-> lost]

SomeScenarios ==
  {S("up", UpMessages, 3, 1, 0), S("down", DownMessages, 3, 1, 0)}
    \cup {S("up", {m}, 5, d, 1 - d) :
            m \in {M("ODOM", << >>, << <<0, 6, 1>> >>), M("PATH", << >>, << >>)}, d \in 0 .. 1}
    \cup {S("down", {m}, 14, d, 1 - d) :
            m \in {M("STATUS", <<5>>, << >>), M("DOCK_OK", << >>, << >>)}, d \in 0 .. 1}
=============================================================================
