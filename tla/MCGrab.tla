------------------------------- MODULE MCGrab -------------------------------
(***************************************************************************)
(* Grab with two rows, each empty or one of a few configurations: torrent  *)
(* clients that compete, one disabled, one broken by a PUT, and SABnzbd.   *)
(***************************************************************************)
EXTENDS Grab

CONSTANTS here, there

Torrent == [name |-> 1, implementation |-> "QBittorrent", protocol |-> "torrent",
            priority |-> 1, enable |-> "true", server |-> here]
Usenet == [name |-> 2, implementation |-> "Sabnzbd", protocol |-> "usenet",
           priority |-> 1, enable |-> "absent", server |-> there]

\* The second torrent client leaves protocol and priority out.
Plain == {Torrent, Usenet,
          [Torrent EXCEPT !.protocol = "", !.priority = 0, !.server = there],
          [Torrent EXCEPT !.enable = "false"],
          [Torrent EXCEPT !.name = 0, !.implementation = "", !.enable = "absent"]}

\* SABnzbd posted without its protocol.
Incomplete == {Torrent, [Usenet EXCEPT !.protocol = ""]}

Magnet == [title |-> 1, magnetUrl |-> TRUE, downloadUrl |-> FALSE, protocol |-> ""]
Nzb == [title |-> 2, magnetUrl |-> FALSE, downloadUrl |-> TRUE, protocol |-> "usenet"]

Both == {Magnet, Nzb}
TorrentFile == {[title |-> 3, magnetUrl |-> FALSE, downloadUrl |-> TRUE, protocol |-> "torrent"]}
=============================================================================
