---------------------------- MODULE MCReleaseLife ----------------------------
(***************************************************************************)
(* ReleaseLife on names rendered in the styles of uploaders, and on items  *)
(* with their attributes in every order.  A release record says what the   *)
(* uploader names; each style is a way to write it down.                   *)
(***************************************************************************)
EXTENDS ReleaseLife

CONSTANTS garbage, page, nzb, magnet

MCYearWord == {"2009", "2012", "2017", "2018", "2049"}

Film(title, year) == [movie |-> title, year |-> year]
Films == {Film(<<"valkyrie">>, "2009"), Film(<<"2012">>, "2009"),
          Film(<<"blade", " ", "runner", " ", "2049">>, "2017"),
          Film(<<"mission", ":", " ", "impossible">>, "2018"),
          Film(<<"spider", "-", "man">>, "2012")}
Valkyrie == Film(<<"valkyrie">>, "2009")

\* What is written, and what it means.
As(s, meaning) == [as |-> s, is |-> meaning]
Sources == {As(<<"bluray", ".", "remux">>, "Remux"), As(<<"bluray">>, "BluRay"),
            As(<<"blu", "-", "ray">>, "BluRay"), As(<<"bdrip">>, "BluRay"),
            As(<<"web", "-", "dl">>, "WEB-DL"), As(<<"webdl">>, "WEB-DL"),
            As(<<"web", ".", "dl">>, "WEB-DL"), As(<<"web">>, "WEBRip"),
            As(<<"hdtv">>, "HDTV"), As(<<"dvd", "-", "rip">>, "DVDRip"),
            As(<<"hdcam">>, "CAM"), As(<<"hdts">>, "TS"), As(<<"pal", ".", "dvd">>, "DVD"),
            As(<<>>, "")}
FewSources == {s \in Sources : s.is \in {"WEB-DL", "DVDRip", ""}}
Resolutions == {As(<<"2160p">>, "2160p"), As(<<"uhd">>, "2160p"), As(<<>>, "")}
Codecs == {As(<<"h", ".", "264">>, "x264"), As(<<"xvid">>, "XviD"), As(<<>>, "")}
Marks2 == {<<>>, <<"proper">>, <<"repack">>}

Named(film, source, res, codec, mark) ==
  [movie |-> film.movie, year |-> film.year, source |-> source, res |-> res,
   codec |-> codec, mark |-> mark]
Releases ==
  {Named(f, s, As(<<"1080p">>, "1080p"), As(<<"x264">>, "x264"), <<>>) : f \in Films, s \in Sources}
  \cup {Named(Valkyrie, s, r, c, m) :
          s \in FewSources, r \in Resolutions, c \in Codecs, m \in Marks2}

\* Parts with a separator between them, empty ones left out.
Glue(parts, sep) ==
  LET put(acc, part) == IF acc = <<>> THEN part
                        ELSE IF part = <<>> THEN acc ELSE acc \o <<sep>> \o part
  IN  FoldLeft(put, <<>>, parts)
Dotted(s) == [k \in DOMAIN s |-> IF s[k] = " " THEN "." ELSE s[k]]
Title(r) == SelectSeq(r.movie, LAMBDA x : x # ":")
Quality2(r) == <<r.mark, r.res.as, r.source.as, r.codec.as>>

Scene(r) == Glue(<<Dotted(Title(r)), <<r.year>>>> \o Quality2(r), ".") \o <<"-", "grp">>
Dubbed(r) == Glue(<<Dotted(Title(r)), <<"extended">>, <<"german">>, <<"dl">>, <<r.year>>>>
                    \o Quality2(r), ".") \o <<"-", "grp">>
Ungrouped(r) ==
  Glue(<<Dotted(Title(r)), <<r.year>>, r.mark, r.res.as, r.codec.as, r.source.as>>, ".")
Hyphened(r) == Glue(<<Title(r), <<r.year>>>> \o Quality2(r), "-") \o <<"-", "grp">>
Bracketed(r) ==
  Glue(<<Title(r), <<"(", r.year, ")">>, Glue(<<r.mark>>, " "),
         <<"[">> \o Glue(<<r.res.as, r.source.as, r.codec.as>>, " ") \o <<"]">>,
         <<"[", "yts", ".", "mx", "]">>>>, " ")
Fronted(r) ==
  <<"[", "grp", "]", " ">>
    \o Glue(<<Title(r), <<"(", r.year, ")">>, Glue(Quality2(r), " ")>>, " ")

Group(style) == CASE style = "ungrouped" -> <<>>
                  [] style = "bracketed" -> <<"yts", ".", "mx">>
                  [] OTHER -> <<"grp">>
Render(style, r) ==
  CASE style = "scene" -> Scene(r)
    [] style = "dubbed" -> Dubbed(r)
    [] style = "ungrouped" -> Ungrouped(r)
    [] style = "hyphened" -> Hyphened(r)
    [] style = "bracketed" -> Bracketed(r)
    [] style = "fronted" -> Fronted(r)
Styles == {"scene", "dubbed", "ungrouped", "hyphened", "bracketed", "fronted"}

\* A name without group whose last dash is in DVD-Rip or Blu-Ray loses its
\* last word to the group: the README tells of it.
Written(style, r) ==
  style = "ungrouped" => r.source.as \notin {<<"dvd", "-", "rip">>, <<"blu", "-", "ray">>}

Means(style, r) ==
  [title |-> Fields(Title(r)), year |-> r.year, resolution |-> r.res.is,
   source |-> r.source.is, codec |-> r.codec.is, group |-> Group(style),
   proper |-> r.mark = <<"proper">>, repack |-> r.mark = <<"repack">>]

\* Names that tell nothing, or less than that of the release.
MCVideo == {<<"movie">>, <<"grp", "-", "valk", ".", "720p">>}

-----------------------------------------------------------------------------
A(name, value) == [name |-> name, value |-> value]
Listing(style, r, size, link, enclosure, attrs) ==
  [title |-> Render(style, r), movie |-> r.movie, means |-> Means(style, r),
   size |-> size, link |-> link, enclosure |-> enclosure, attrs |-> attrs]

NamedItems ==
  {Listing(w[1], w[2], 0, page, [url |-> nzb, length |-> 7], <<A("seeders", 5)>>) :
     w \in {w \in Styles \X Releases : Written(w[1], w[2])}}

OneRelease == Named(Valkyrie, As(<<"bluray">>, "BluRay"), As(<<"1080p">>, "1080p"),
                    As(<<"x264">>, "x264"), <<>>)
AttrSets == {{A("seeders", 5), A("leechers", 3), A("peers", 8), A("size", 6)},
             {A("seeders", garbage), A("peers", 8), A("size", 0)},
             {A("leechers", 0), A("peers", 8), A("size", 99)},
             {A("seeders", 99), A("leechers", garbage)}}
LinkedItems ==
  {Listing("scene", OneRelease, size, link, [url |-> url, length |-> 7], attrs) :
     size \in {0, 4}, link \in {None, page, magnet}, url \in {None, nzb},
     attrs \in UNION {SetToSeqs(S) : S \in AttrSets}}
BadItem == Listing("scene", OneRelease, garbage, page, [url |-> None, length |-> 0], <<>>)

MCFeed == {<<x>> : x \in NamedItems \cup LinkedItems}
          \cup {<<x, BadItem>> : x \in {y \in LinkedItems : y.size = 4}}
          \cup {<<x, y>> : x, y \in {z \in LinkedItems : z.size = 4 /\ Len(z.attrs) = 2}}
=============================================================================
