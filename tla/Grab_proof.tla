----------------------------- MODULE Grab_proof -----------------------------
(***************************************************************************)
(* Proofs about Grab: what 201 promises, and that an unchanged table sends *)
(* every grab of a release to one server.                                  *)
(***************************************************************************)
EXTENDS Grab, TLAPS

(* Every request body makes a row (indexer.go:172-201).                    *)
LEMMA RowType == ASSUME NEW b \in Body PROVE Row(b) \in DownloadClient
<1>1. b \in BodyType
  BY GrabAssumption
<1>2. b.name \in Nat /\ b.implementation \in Implementation /\ b.server \in Server
  BY <1>1 DEF BodyType
<1>3. protocolFor(b.implementation, b.protocol) \in {"torrent", "usenet"}
  BY <1>1 DEF BodyType, protocolFor
<1>4. priorityOr(b.priority) \in Int
  <2>1. b.priority \in Int
    BY <1>1 DEF BodyType
  <2> QED
    BY <2>1 DEF priorityOr
<1>5. (b.enable # "false") \in BOOLEAN
  OBVIOUS
<1> QED
  BY <1>2, <1>3, <1>4, <1>5, Zenon DEF Row, DownloadClient

(* The row that a grab chooses is one of the table, for its protocol.      *)
LEMMA BestType ==
  ASSUME TypeOK, NEW r, NEW row \in Best(r)
  PROVE  row \in DownloadClient
BY GrabAssumption DEF TypeOK, Best, Matching

(* The first step of a client's Add.                                       *)
LEMMA NewType == \A impl : New(impl) \in {"login", "addurl", "refused"}
BY DEF New

LEMMA TypeInit == Init => TypeOK
BY RowType, GrabAssumption DEF Init, TypeOK

LEMMA TypeNext == TypeOK /\ [Next]_vars => TypeOK'
<1> SUFFICES ASSUME TypeOK, [Next]_vars PROVE TypeOK'
  OBVIOUS
<1> USE GrabAssumption
<1>1. ASSUME NEW p \in Proc, NEW r \in Release, Grab(p, r) PROVE TypeOK'
  <2>1. CASE Best(r) = {} /\ Enter(p, "refused") /\ UNCHANGED <<chosen, mishaps>>
    BY <1>1, <2>1 DEF Grab, Enter, TypeOK
  <2>2. CASE Enter(p, "refused") /\ Mishap /\ UNCHANGED chosen
    BY <1>1, <2>2 DEF Grab, Enter, Mishap, TypeOK
  <2>3. ASSUME NEW row \in Best(r), chosen' = [chosen EXCEPT ![p] = row],
               Enter(p, New(row.implementation)), UNCHANGED mishaps
        PROVE  TypeOK'
    <3>1. row \in DownloadClient /\ row # None
      BY BestType
    <3>2. New(row.implementation) \in {"login", "addurl", "refused"}
      BY NewType
    <3> QED
      BY <1>1, <2>3, <3>1, <3>2 DEF Grab, Enter, TypeOK
  <2> QED
    BY <1>1, <2>1, <2>2, <2>3 DEF Grab
<1>2. ASSUME NEW p \in Proc, Login(p) PROVE TypeOK'
  BY <1>2 DEF Login, Enter, Mishap, TypeOK
<1>3. ASSUME NEW p \in Proc, Add(p) PROVE TypeOK'
  BY <1>3 DEF Add, Accept, Enter, Mishap, TypeOK, DownloadClient
<1>4. ASSUME NEW p \in Proc, AddUrl(p) PROVE TypeOK'
  BY <1>4 DEF AddUrl, Accept, Enter, Mishap, TypeOK, DownloadClient
<1>5. ASSUME NEW p \in Proc, Reply(p) PROVE TypeOK'
  BY <1>5 DEF Reply, Enter, TypeOK
<1>6. ASSUME NEW c \in Client, NEW b \in Body,
             CreateDownloadClient(c, b) \/ UpdateDownloadClient(c, b)
      PROVE  TypeOK'
  <2>1. Row(b) \in DownloadClient
    BY RowType
  <2>2. rows' = [rows EXCEPT ![c] = Row(b)] /\ Changed
    BY <1>6 DEF CreateDownloadClient, UpdateDownloadClient
  <2> QED
    BY <2>1, <2>2 DEF Changed, handlers, TypeOK
<1>7. ASSUME NEW c \in Client, DeleteDownloadClient(c) PROVE TypeOK'
  BY <1>7 DEF DeleteDownloadClient, Changed, handlers, TypeOK
<1>8. CASE Crash
  BY <1>8 DEF Crash, Mishap, TypeOK
<1>9. CASE UNCHANGED vars
  BY <1>9 DEF vars, handlers, TypeOK
<1> QED
  BY <1>1, <1>2, <1>3, <1>4, <1>5, <1>6, <1>7, <1>8, <1>9 DEF Next, HandlerStep

-----------------------------------------------------------------------------
(* What a server has accepted it keeps, so only the step to "created"      *)
(* matters, and that one records the release with the chosen row's server. *)
LEMMA AckNext == TypeOK /\ AckedIsReceived /\ [Next]_vars => AckedIsReceived'
<1> SUFFICES ASSUME TypeOK, AckedIsReceived, [Next]_vars PROVE AckedIsReceived'
  OBVIOUS
<1>1. ASSUME NEW p \in Proc, NEW r \in Release, Grab(p, r) PROVE AckedIsReceived'
  <2>1. at' = [at EXCEPT ![p] = at'[p]] /\ at'[p] # "created"
    BY <1>1, NewType DEF Grab, Enter, TypeOK
  <2>2. \A q \in Proc \ {p} : release'[q] = release[q] /\ chosen'[q] = chosen[q]
    BY <1>1 DEF Grab, TypeOK
  <2> QED
    BY <1>1, <2>1, <2>2 DEF Grab, AckedIsReceived, TypeOK
<1>2. ASSUME NEW p \in Proc, Login(p) PROVE AckedIsReceived'
  BY <1>2 DEF Login, Enter, AckedIsReceived, TypeOK
<1>3. ASSUME NEW p \in Proc, Add(p) PROVE AckedIsReceived'
  BY <1>3 DEF Add, Accept, Enter, AckedIsReceived, TypeOK, DownloadClient
<1>4. ASSUME NEW p \in Proc, AddUrl(p) PROVE AckedIsReceived'
  BY <1>4 DEF AddUrl, Accept, Enter, AckedIsReceived, TypeOK, DownloadClient
<1>5. ASSUME NEW p \in Proc, Reply(p) PROVE AckedIsReceived'
  BY <1>5 DEF Reply, Enter, AckedIsReceived, TypeOK
<1>6. ASSUME NEW c \in Client, Changed PROVE AckedIsReceived'
  BY <1>6 DEF Changed, handlers, AckedIsReceived
<1>7. CASE Crash
  BY <1>7 DEF Crash, AckedIsReceived
<1>8. CASE UNCHANGED vars
  BY <1>8 DEF vars, handlers, AckedIsReceived
<1> QED
  BY <1>1, <1>2, <1>3, <1>4, <1>5, <1>6, <1>7, <1>8
  DEF Next, HandlerStep, CreateDownloadClient, UpdateDownloadClient, DeleteDownloadClient

(* An unchanged table has unchanged targets, and a changed one no claim.   *)
LEMMA OnTargetNext == TypeOK /\ OnTarget /\ [Next]_vars => OnTarget'
<1> DEFINE Held(got, where, what, row) ==
      /\ \A r \in Release, s \in Server : r \in got[s] => s \in Targets(r)
      /\ \A p \in Proc : where[p] \in {"login", "add", "addurl"} =>
           row[p].server \in Targets(what[p])
<1> SUFFICES ASSUME TypeOK, OnTarget, [Next]_vars, changes' = 0 PROVE OnTarget'
  BY DEF OnTarget
<1>1. UNCHANGED <<rows, changes>>
  <2>1. ~Changed
    BY DEF Changed, TypeOK
  <2> QED
    BY <2>1 DEF Next, HandlerStep, Grab, Login, Add, AddUrl, Reply, Crash,
                CreateDownloadClient, UpdateDownloadClient, DeleteDownloadClient, vars
<1>2. ASSUME NEW r PROVE Targets(r)' = Targets(r)
  BY <1>1 DEF Targets, Best, Matching
<1>3. Held(received, at, release, chosen)
  BY <1>1 DEF OnTarget
<1>4. SUFFICES Held(received', at', release', chosen')
  BY <1>2 DEF OnTarget
<1>5. ASSUME NEW p \in Proc, NEW r \in Release, Grab(p, r)
      PROVE  Held(received', at', release', chosen')
  <2>1. at'[p] \in {"login", "add", "addurl"} => chosen'[p].server \in Targets(r)
    <3>1. ASSUME NEW row \in Best(r), chosen' = [chosen EXCEPT ![p] = row]
          PROVE  chosen'[p].server \in Targets(r)
      BY <3>1 DEF Targets, TypeOK
    <3>2. Enter(p, "refused") => at'[p] \notin {"login", "add", "addurl"}
      BY DEF Enter, TypeOK
    <3> QED
      BY <1>5, <3>1, <3>2 DEF Grab
  <2>2. /\ received' = received
        /\ release' = [release EXCEPT ![p] = r]
        /\ \A q \in Proc \ {p} : at'[q] = at[q] /\ chosen'[q] = chosen[q]
    BY <1>5 DEF Grab, Enter, TypeOK
  <2> QED
    BY <1>3, <2>1, <2>2 DEF TypeOK
<1>6. ASSUME NEW p \in Proc, Login(p) PROVE Held(received', at', release', chosen')
  BY <1>3, <1>6 DEF Login, Enter, TypeOK
<1>7. ASSUME NEW p \in Proc, at[p] \in {"add", "addurl"}, UNCHANGED <<release, chosen>>,
             Accept(p) \/ UNCHANGED received,
             Enter(p, "created") \/ Enter(p, "refused")
      PROVE  Held(received', at', release', chosen')
  BY <1>3, <1>7 DEF Accept, Enter, TypeOK, DownloadClient
<1>8. ASSUME NEW p \in Proc, Reply(p) PROVE Held(received', at', release', chosen')
  BY <1>3, <1>8 DEF Reply, Enter, TypeOK
<1>9. CASE Crash
  BY <1>3, <1>9 DEF Crash
<1>10. CASE UNCHANGED <<received, at, release, chosen>>
  BY <1>3, <1>10
<1>11. ASSUME NEW p \in Proc, Add(p) \/ AddUrl(p)
       PROVE  Held(received', at', release', chosen')
  BY <1>7, <1>11 DEF Add, AddUrl
<1> QED
  BY <1>5, <1>6, <1>8, <1>9, <1>10, <1>11
  DEF Next, HandlerStep, CreateDownloadClient, UpdateDownloadClient,
      DeleteDownloadClient, Changed, handlers, vars

(* GrabInv is an invariant: types, the truth of 201, and the targets of an *)
(* unchanged table (grab.go:22-74).                                        *)
THEOREM GrabInductive == Spec => []GrabInv
<1>1. Init => GrabInv
  BY TypeInit DEF Init, GrabInv, AckedIsReceived, OnTarget
<1>2. GrabInv /\ [Next]_vars => GrabInv'
  BY TypeNext, AckNext, OnTargetNext DEF GrabInv
<1> QED
  BY <1>1, <1>2, PTL DEF Spec

(* Type correctness: every row of the table has a protocol and a priority, *)
(* whatever the request bodies left out (downloadclient.go:94-141).        *)
THEOREM GrabTypes == Spec => []TypeOK
BY GrabInductive, PTL DEF GrabInv

(* A grab answered with 201 has reached the client that the answer names   *)
(* (grab.go:60-73).                                                        *)
THEOREM AckIsReceipt == Spec => []AckedIsReceived
BY GrabInductive, PTL DEF GrabInv

(* Rows that are first in the order and do not tie are one row.            *)
LEMMA OneTarget ==
  ASSUME TypeOK, NoTies, NEW r, NEW s \in Targets(r), NEW t \in Targets(r)
  PROVE  s = t
<1>1. PICK c \in Matching(r) : s = rows[c].server /\ \A e \in Matching(r) : NotAfter(rows[c], rows[e])
  BY DEF Targets, Best
<1>2. PICK d \in Matching(r) : t = rows[d].server /\ \A e \in Matching(r) : NotAfter(rows[d], rows[e])
  BY DEF Targets, Best
<1>3. rows[c] \in DownloadClient /\ rows[d] \in DownloadClient /\ rows[c] # None /\ rows[d] # None
  BY DEF Matching, TypeOK
<1>4. rows[c].priority = rows[d].priority /\ rows[c].name = rows[d].name
  BY <1>1, <1>2, <1>3 DEF NotAfter, DownloadClient
<1> QED
  BY <1>1, <1>2, <1>3, <1>4 DEF NoTies, Matching

(* While the table is unchanged, retries, restarts and concurrent callers  *)
(* send a release to one server only (grab.go:41-52).                      *)
THEOREM RetriesStayPut == Spec => []OneServer
<1>1. GrabInv => OneServer
  BY OneTarget DEF GrabInv, OnTarget, OneServer
<1> QED
  BY <1>1, GrabInductive, PTL

-----------------------------------------------------------------------------
RightKind(row) ==
  /\ row.implementation = "QBittorrent" => row.protocol = "torrent"
  /\ row.implementation = "Sabnzbd" => row.protocol = "usenet"

\* A handler works with a row of the release's protocol that is of its kind.
KindInv ==
  /\ \A c \in Client : rows[c] # None => RightKind(rows[c])
  /\ \A p \in Proc : at[p] \in {"login", "add", "addurl"} =>
       /\ RightKind(chosen[p]) /\ chosen[p].protocol = Protocol(release[p])
       /\ chosen[p].implementation = IF at[p] = "addurl" THEN "Sabnzbd" ELSE "QBittorrent"

(* grab_kind needs a SABnzbd that was posted without its protocol, or a     *)
(* client with another one's: when every body states its kind, torrents go  *)
(* to qBittorrent and usenet to SABnzbd, whatever the table changes to while*)
(* a grab runs (downloadclient.go:94-141, grab.go:42-58).                   *)
THEOREM StatedKindsKept == ASSUME KindStated PROVE Spec => []SentToItsKind
<1>1. \A b \in Body : RightKind(Row(b))
  BY GrabAssumption DEF KindStated, RightKind, Row, protocolFor, BodyType
<1>2. Init => KindInv
  <2> SUFFICES ASSUME Init
               PROVE  KindInv
    OBVIOUS
  <2>1. ASSUME NEW c \in Client, rows[c] # None
        PROVE  RightKind(rows[c])
    BY <1>1, <2>1 DEF Init
  <2> QED
    BY <2>1 DEF Init, KindInv
<1>3. TypeOK /\ KindInv /\ [Next]_vars => KindInv'
  <2> SUFFICES ASSUME TypeOK, KindInv, [Next]_vars
               PROVE  KindInv'
    OBVIOUS
  <2>1. ASSUME NEW c \in Client, NEW b \in Body,
               CreateDownloadClient(c, b) \/ UpdateDownloadClient(c, b)
        PROVE  KindInv'
    BY <1>1, <2>1 DEF TypeOK, KindInv, CreateDownloadClient, UpdateDownloadClient, Changed,
       handlers, Protocol
  <2>2. ASSUME NEW c \in Client, DeleteDownloadClient(c)
        PROVE  KindInv'
    BY <2>2 DEF TypeOK, KindInv, DeleteDownloadClient, Changed, handlers, Protocol
  <2>3. ASSUME NEW p \in Proc, NEW r \in Release, Grab(p, r)
        PROVE  KindInv'
    <3>1. ASSUME NEW row \in Best(r), chosen' = [chosen EXCEPT ![p] = row],
                 at' = [at EXCEPT ![p] = New(row.implementation)]
          PROVE  KindInv'
      <4>1. RightKind(row) /\ row.protocol = Protocol(r)
        BY <3>1 DEF KindInv, Best, Matching
      <4>2. release' = [release EXCEPT ![p] = r] /\ rows' = rows
        BY <2>3 DEF Grab
      <4>3. New(row.implementation) \in {"login", "add", "addurl"} =>
              row.implementation = IF New(row.implementation) = "addurl"
                                   THEN "Sabnzbd" ELSE "QBittorrent"
        BY DEF New
      <4> QED
        BY <3>1, <4>1, <4>2, <4>3 DEF TypeOK, KindInv, Protocol
    <3>2. ASSUME at' = [at EXCEPT ![p] = "refused"], chosen' = chosen
          PROVE  KindInv'
      BY <2>3, <3>2 DEF TypeOK, KindInv, Grab, Protocol
    <3> QED
      BY <2>3, <3>1, <3>2 DEF Grab, Enter
  <2>4. ASSUME NEW p \in Proc, Login(p) \/ Add(p) \/ AddUrl(p)
        PROVE  KindInv'
    BY <2>4, ZenonT(30) DEF TypeOK, KindInv, Login, Add, AddUrl, Enter, Protocol
  <2>5. ASSUME NEW p \in Proc, Reply(p)
        PROVE  KindInv'
    BY <2>5 DEF TypeOK, KindInv, Reply, Enter, Protocol
  <2>6. CASE Crash
    BY <2>6 DEF KindInv, Crash
  <2>7. CASE UNCHANGED vars
    BY <2>7 DEF KindInv, vars, handlers, Protocol
  <2> QED
    BY <2>1, <2>2, <2>3, <2>4, <2>5, <2>6, <2>7 DEF Next, HandlerStep
<1>4. KindInv => SentToItsKind
  BY DEF KindInv, RightKind, SentToItsKind
<1> QED
  BY <1>2, <1>3, <1>4, GrabTypes, PTL DEF Spec
=============================================================================
