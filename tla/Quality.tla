------------------------------- MODULE Quality -------------------------------
(***************************************************************************)
(* internal/quality: the weight that ranks releases by what was parsed     *)
(* from their names, and the resolutions and sources the parser finds.     *)
(***************************************************************************)
EXTENDS Integers

Resolution == {"2160p", "1080p", "720p", "576p", "480p", ""}
Source == {"Remux", "BluRay", "WEB-DL", "WEBRip", "HDTV", "DVDRip", "DVD",
           "CAM", "TS", ""}

resolutionRank(res) ==
  CASE res = "2160p" -> 4
    [] res = "1080p" -> 3
    [] res = "720p" -> 2
    [] res \in {"576p", "480p"} -> 1
    [] OTHER -> 0

sourceRank(source) ==
  CASE source = "Remux" -> 6
    [] source = "BluRay" -> 5
    [] source = "WEB-DL" -> 4
    [] source = "WEBRip" -> 3
    [] source = "HDTV" -> 2
    [] source \in {"DVDRip", "DVD"} -> 1
    [] OTHER -> 0

Weight(source, res) == resolutionRank(res) * 100 + sourceRank(source) * 10
=============================================================================
