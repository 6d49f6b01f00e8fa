-------------------------------- MODULE Naming --------------------------------
(***************************************************************************)
(* Names as the program reads and writes them: internal/parser takes a     *)
(* release name apart, quality.Name and importer.FileName make the name of *)
(* a library file, which is parsed again when that file is imported.       *)
(*                                                                         *)
(* A name is a sequence of lexemes: words (maximal runs of letters and     *)
(* digits, in lower case) and single characters between them.  A regular   *)
(* expression \b(a|b-?c)\b is the set of lexeme sequences that it matches. *)
(***************************************************************************)
EXTENDS Quality, Sequences, SequencesExt

CONSTANT
  YearWord   \* the words that read 19xx or 20xx

Space == " "
Marks == {Space, "-", ".", "_", "[", "]", "(", ")", "{", "}", ":", "/", "?"}
IsWord(x) == x \notin Marks

Words(S) == {<<x>> : x \in S}

\* One of the patterns matches, given the parts (SubSeqs) of a name.
Occurs(patterns, parts) == patterns \cap parts # {}

\* The label of the first rule that applies.
FirstMatch(rules, parts) ==
  LET i == SelectInSeq(rules, LAMBDA rule : Occurs(rule[2], parts))
  IN  IF i = 0 THEN "" ELSE rules[i][1]

-----------------------------------------------------------------------------
\* internal/parser

\* strings.TrimSpace.
Trim(s) ==
  LET first == SelectInSeq(s, LAMBDA x : x # Space)
      last == SelectLastInSeq(s, LAMBDA x : x # Space)
  IN  IF first = 0 THEN <<>> ELSE SubSeq(s, first, last)

StrippedExts == {"mkv", "mp4", "avi", "m2ts", "mov", "wmv"}
StripExt(s) ==
  IF Len(s) > 1 /\ s[Len(s) - 1] = "." /\ Last(s) \in StrippedExts
  THEN SubSeq(s, 1, Len(s) - 2) ELSE s

\* Where a [...] with something in it begins and ends, one after the other.
Brackets(s) ==
  LET opens == {i \in DOMAIN s : s[i] = "["}
      shuts == {i \in DOMAIN s : s[i] = "]"}
      open(i, j) == /\ i + 1 < j
                    /\ \A k \in i..(j - 1) : k \notin shuts
  IN  {b \in opens \X shuts : /\ open(b[1], b[2])
                              /\ \A i \in opens : i < b[1] => ~open(i, b[2])}
Inside(s, b) == SubSeq(s, b[1] + 1, b[2] - 1)
Cut(s, b) == SubSeq(s, 1, b[1] - 1) \o SubSeq(s, b[2] + 1, Len(s))

isYts(tag) == tag = <<"yify">> \/ \E k \in DOMAIN tag : tag[k] = "yts"
\* Mutant: no word is refused as a group.
AnyTail(tok) == FALSE
isNonGroupTail(tok) == tok \in {"dl", "hd", "ma", "ex", "es", "hdma"}

\* Words of one letter are not among the names.
extractGroup(s) ==
  LET lead == {b \in Brackets(s) : b[1] = 1}
      tags == {b \in Brackets(s) : \A c \in Brackets(s) : c[1] <= b[1]}
      yts == {b \in tags : isYts(Inside(s, b))}
      group(b) == [group |-> Inside(s, b), rest |-> Cut(s, b)]
  IN  CASE lead # {} -> group(CHOOSE b \in lead : TRUE)
        [] lead = {} /\ yts # {} -> group(CHOOSE b \in yts : TRUE)
        [] OTHER ->
             IF /\ Len(s) > 1 /\ s[Len(s) - 1] = "-"
                /\ IsWord(Last(s)) /\ ~isNonGroupTail(Last(s))
             THEN [group |-> <<Last(s)>>, rest |-> SubSeq(s, 1, Len(s) - 2)]
             ELSE [group |-> <<>>, rest |-> s]

\* strings.Fields: the tokens between spaces.
Fields(s) ==
  LET fields[k \in 0..Len(s)] ==
        IF k = 0 THEN <<>>
        ELSE IF s[k] = Space THEN fields[k - 1]
        ELSE IF k = 1 \/ s[k - 1] = Space THEN Append(fields[k - 1], <<s[k]>>)
        ELSE [fields[k - 1] EXCEPT ![Len(fields[k - 1])] = Append(@, s[k])]
  IN  fields[Len(s)]
JoinFields(tokens) ==
  FlattenSeq([i \in DOMAIN tokens |-> IF i = 1 THEN tokens[i] ELSE <<Space>> \o tokens[i]])

\* A dash before or after a year becomes a space.  A year that one match has
\* consumed is not there for the next.
Split(s, dashes) ==
  LET free[k \in DOMAIN s] == ~(k - 2 \in dashes /\ free[k - 2])
  IN  [k \in DOMAIN s |-> IF k \in dashes /\ free[k] THEN Space ELSE s[k]]
Dashes(s) == {k \in 2..(Len(s) - 1) : s[k] = "-"}
SplitBefore(s) == Split(s, {k \in Dashes(s) : s[k - 1] # Space /\ s[k + 1] \in YearWord})
SplitAfter(s) == Split(s, {k \in Dashes(s) : s[k - 1] \in YearWord /\ s[k + 1] # Space})
normalize(s) ==
  LET spaced == [k \in DOMAIN s |->
                   IF s[k] \in {".", "_", "[", "]", "(", ")", "{", "}"} THEN Space ELSE s[k]]
  IN  Fields(SplitAfter(SplitBefore(spaced)))

detectResolution(n, parts) ==
  LET i == SelectInSeq(n, LAMBDA x : x \in Resolution \ {""})
  IN  IF i # 0 THEN n[i] ELSE IF Occurs(Words({"4k", "uhd"}), parts) THEN "2160p" ELSE ""

SourceRules == <<
  <<"Remux", Words({"remux"})>>,
  <<"WEB-DL", {<<"webdl">>, <<"web", "-", "dl">>, <<"web", Space, "dl">>}>>,
  <<"BluRay", Words({"bluray", "bdrip", "brrip", "bd25", "bd50", "bdremux"})
                \cup {<<"blu", "-", "ray">>}>>,
  <<"WEBRip", Words({"webrip", "web"})>>,
  <<"HDTV", Words({"hdtv"})>>,
  <<"DVDRip", Words({"dvdrip"}) \cup {<<"dvd", "-", "rip">>}>>,
  <<"CAM", Words({"hdcam", "cam"})>>,
  <<"TS", Words({"telesync", "ts", "hdts"})>>,
  <<"DVD", Words({"dvd", "pal", "ntsc"})>> >>
detectSource(parts) == FirstMatch(SourceRules, parts)

detectCodec(parts) == FirstMatch(<<
  <<"x265", Words({"x265", "h265", "hevc"}) \cup {<<"h", Space, "265">>}>>,
  <<"x264", Words({"x264", "h264", "avc"}) \cup {<<"h", Space, "264">>}>>,
  <<"AV1", Words({"av1"})>>,
  <<"XviD", Words({"xvid", "divx"})>>,
  <<"VC1", Words({"vc1"}) \cup {<<"vc", "-", "1">>}>> >>, parts)

\* The tokens that end the title, and those dropped from its end.
QualityToken ==
  Words({"2160p", "1080p", "720p", "576p", "480p", "4k", "uhd",
         "bluray", "bdrip", "brrip", "bd25", "bd50", "bdremux", "remux", "webdl",
         "webrip", "hdtv", "dvdrip", "dvd", "hdcam", "cam", "telesync", "ts", "hdts", "sdtv",
         "x264", "x265", "h264", "h265", "hevc", "avc", "xvid", "divx", "av1", "vc1",
         "proper", "repack", "hdr10", "hdr", "dolby", "dovi", "dv", "10bit", "8bit",
         "dts", "dtshd", "truehd", "atmos", "ac3", "eac3", "dd", "ddp", "dd5", "ddp5",
         "aac", "flac"})
  \cup {<<"blu", "-", "ray">>, <<"web", "-", "dl">>, <<"vc", "-", "1">>, <<"dts", "-", "hd">>}
TitleStripTok ==
  Words({"extended", "unrated", "imax", "remastered", "theatrical", "edition", "limited",
         "uncut", "german", "multi", "dual", "ita", "italian", "french", "truefrench",
         "vostfr", "vff", "korean", "japanese", "spanish", "dl"})

\* Mutant: the first year is taken.
titleAndFirstYear(tokens) ==
  LET quality == SelectInSeq(tokens, LAMBDA token : token \in QualityToken)
      anchor == IF quality = 0 THEN Len(tokens) + 1 ELSE quality
      year == SelectInSubSeq(tokens, 1, anchor - 1, LAMBDA token : token \in Words(YearWord))
      end == IF year = 0 THEN anchor - 1 ELSE year - 1
      last == SelectLastInSubSeq(tokens, 1, end, LAMBDA token : token \notin TitleStripTok)
  IN  [title |-> SubSeq(tokens, 1, last), year |-> IF year = 0 THEN "" ELSE tokens[year][1]]

titleAndYear(tokens) ==
  LET quality == SelectInSeq(tokens, LAMBDA token : token \in QualityToken)
      anchor == IF quality = 0 THEN Len(tokens) + 1 ELSE quality
      year == SelectLastInSubSeq(tokens, 1, anchor - 1, LAMBDA token : token \in Words(YearWord))
      end == IF year = 0 THEN anchor - 1 ELSE year - 1
      last == SelectLastInSubSeq(tokens, 1, end, LAMBDA token : token \notin TitleStripTok)
  IN  [title |-> SubSeq(tokens, 1, last), year |-> IF year = 0 THEN "" ELSE tokens[year][1]]

\* Audio, HDR, edition and languages, the fields of best effort, are left out.
Parse(name) ==
  LET split == extractGroup(StripExt(Trim(name)))
      tokens == normalize(split.rest)
      n == JoinFields(tokens)
      parts == SubSeqs(n)
      named == titleAndYear(tokens)
  IN  [group |-> split.group,
       title |-> named.title,
       year |-> named.year,
       proper |-> Occurs(Words({"proper"}), parts),
       repack |-> Occurs(Words({"repack"}), parts),
       resolution |-> detectResolution(n, parts),
       source |-> detectSource(parts),
       codec |-> detectCodec(parts)]

-----------------------------------------------------------------------------
\* quality.Name and internal/importer

sourcePrefix(source) ==
  CASE source = "Remux" -> "remux"
    [] source = "BluRay" -> "bluray"
    [] source = "WEB-DL" -> "webdl"
    [] source = "WEBRip" -> "webrip"
    [] source = "HDTV" -> "hdtv"
    [] source \in {"DVDRip", "DVD"} -> "dvd"
    [] source = "CAM" -> "cam"
    [] source = "TS" -> "telesync"
    [] OTHER -> ""

Unknown == <<"unknown">>
QualityName(source, res) ==
  LET prefix == sourcePrefix(source)
  IN  CASE prefix = "" /\ res = "" -> Unknown
        [] prefix = "" /\ res # "" -> <<res>>
        [] prefix # "" /\ res = "" -> <<prefix>>
        [] OTHER -> <<prefix, "-", res>>

Sanitize(title) ==
  Trim(FlattenSeq([k \in DOMAIN title |->
    CASE title[k] = ":" -> <<Space, "-">>
      [] title[k] \in {"/", "?"} -> <<>>
      [] OTHER -> <<title[k]>>]))

FolderName(title, year) ==
  Sanitize(title) \o (IF year = "" THEN <<>> ELSE <<Space, "(", year, ")">>)

\* Mutant: the label follows the name without brackets.
FileNameUnbracketed(title, year, label, ext) ==
  FolderName(title, year) \o <<"-">> \o label \o <<".", ext>>

FileName(title, year, label, ext) ==
  FolderName(title, year)
    \o (IF label = Unknown THEN <<>> ELSE <<Space, "[">> \o label \o <<"]">>)
    \o <<".", ext>>
=============================================================================
