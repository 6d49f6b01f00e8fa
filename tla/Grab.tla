-------------------------------- MODULE Grab --------------------------------
(***************************************************************************)
(* POST /api/v3/release (internal/api/v3/grab.go, internal/download): a    *)
(* release is handed to the best download client of its protocol.  The     *)
(* handler reads the download_client table once and works with the row it  *)
(* chose while the table changes; the external client may refuse, or its   *)
(* answer be lost, after which the caller grabs again.                     *)
(***************************************************************************)
EXTENDS Integers

CONSTANTS
  Proc,        \* handlers of grab requests
  Client,      \* ids of download_client rows
  Server,      \* where an external download client listens (fields host, port)
  Body,        \* what a client's POST or PUT may carry
  Release,     \* what a grab's POST may carry
  MaxMishaps,  \* bound on failed calls, lost answers and crashes
  MaxChanges,  \* bound on changes of the table
  None

Implementation == {"QBittorrent", "Sabnzbd", "Transmission", ""}

\* The empty string and 0 stand for fields left out; name 0 is the empty name.
BodyType == [name : Nat, implementation : Implementation,
             protocol : {"torrent", "usenet", ""}, priority : Int,
             enable : {"true", "false", "absent"}, server : Server]
DownloadClient == [name : Nat, implementation : Implementation,
                   protocol : {"torrent", "usenet"}, priority : Int,
                   enable : BOOLEAN, server : Server]
\* magnetUrl and downloadUrl: whether the release has one.
ReleaseType == [title : Nat, magnetUrl : BOOLEAN, downloadUrl : BOOLEAN,
                protocol : {"torrent", "usenet", ""}]

ASSUME GrabAssumption ==
  /\ Body \subseteq BodyType
  /\ Release \subseteq ReleaseType
  /\ None \notin DownloadClient \cup Release
  /\ MaxMishaps \in Nat
  /\ MaxChanges \in Nat

VARIABLES
  rows,      \* the download_client table
  received,  \* the releases each server has accepted
  at,        \* where each handler is
  release,   \* the release it grabs
  chosen,    \* its copy of the row it chose
  garbled,   \* handlers that could not read the answer
  mishaps,
  changes

handlers == <<at, release, chosen, garbled>>
vars == <<rows, received, handlers, mishaps, changes>>

TypeOK ==
  /\ rows \in [Client -> DownloadClient \cup {None}]
  /\ received \in [Server -> SUBSET Release]
  /\ at \in [Proc -> {"idle", "login", "add", "addurl", "created", "refused"}]
  /\ release \in [Proc -> Release \cup {None}]
  /\ chosen \in [Proc -> DownloadClient \cup {None}]
  /\ garbled \subseteq Proc
  /\ mishaps \in 0..MaxMishaps
  /\ changes \in 0..MaxChanges
  /\ \A p \in Proc :
       /\ at[p] # "idle" <=> release[p] # None
       /\ at[p] \in {"login", "add", "addurl", "created"} => chosen[p] # None

-----------------------------------------------------------------------------
\* Mutant: the protocol is stored as it came.
protocolGiven(impl, given) == given

\* A missing protocol comes from the implementation's name; only the
\* indexers' names are known.
protocolFor(impl, given) ==
  IF given # "" THEN given ELSE IF impl = "Newznab" THEN "usenet" ELSE "torrent"
priorityOr(p) == IF p = 0 THEN 25 ELSE p

\* The row that a POST or PUT writes.
Row(b) ==
  [name |-> b.name, implementation |-> b.implementation,
   protocol |-> protocolFor(b.implementation, b.protocol),
   priority |-> priorityOr(b.priority), enable |-> b.enable # "false",
   server |-> b.server]

\* The table may hold whatever earlier requests left.
Init ==
  /\ rows \in [Client -> {Row(b) : b \in Body} \cup {None}]
  /\ received = [s \in Server |-> {}]
  /\ at = [p \in Proc |-> "idle"]
  /\ release = [p \in Proc |-> None]
  /\ chosen = [p \in Proc |-> None]
  /\ garbled = {}
  /\ mishaps = 0
  /\ changes = 0

Changed ==
  /\ changes < MaxChanges
  /\ changes' = changes + 1
  /\ UNCHANGED <<received, handlers, mishaps>>

CreateDownloadClient(c, b) ==
  /\ rows[c] = None
  /\ b.name # 0 /\ b.implementation # ""
  /\ rows' = [rows EXCEPT ![c] = Row(b)]
  /\ Changed

\* A PUT is not validated.
UpdateDownloadClient(c, b) ==
  /\ rows[c] # None
  /\ rows' = [rows EXCEPT ![c] = Row(b)]
  /\ Changed

DeleteDownloadClient(c) ==
  /\ rows[c] # None
  /\ rows' = [rows EXCEPT ![c] = None]
  /\ Changed

-----------------------------------------------------------------------------
Mishap == mishaps < MaxMishaps /\ mishaps' = mishaps + 1
Enter(p, step) == at' = [at EXCEPT ![p] = step]

\* "usenet must be explicit; default to torrent"
Protocol(r) == IF r.protocol = "" THEN "torrent" ELSE r.protocol

\* ListDownloadClients: ORDER BY priority, name; equal rows come in any order.
NotAfter(x, y) ==
  x.priority < y.priority \/ (x.priority = y.priority /\ x.name <= y.name)

Matching(r) ==
  {c \in Client : rows[c] # None /\ rows[c].enable /\ rows[c].protocol = Protocol(r)}

\* Mutants: the list is not ordered, or the first client of the protocol is
\* taken and only then found to be disabled.
AnyMatch(r) == {rows[c] : c \in Matching(r)}
FirstThenEnabled(r) ==
  LET listed == {c \in Client : rows[c] # None /\ rows[c].protocol = Protocol(r)}
  IN  {rows[c] : c \in {d \in listed :
         rows[d].enable /\ \A e \in listed : NotAfter(rows[d], rows[e])}}

\* The rows that the loop of grabRelease may choose.
Best(r) ==
  {rows[c] : c \in {d \in Matching(r) : \A e \in Matching(r) : NotAfter(rows[d], rows[e])}}

\* download.New: the first step of each implementation's Add.
New(impl) ==
  CASE impl = "QBittorrent" -> "login"
    [] impl = "Sabnzbd" -> "addurl"
    [] OTHER -> "refused"

\* A release with a link is decoded, the list read, a client chosen and built.
\* 409 without a client, 500 for an unknown implementation or a failed query.
Grab(p, r) ==
  /\ at[p] = "idle"
  /\ r.magnetUrl \/ r.downloadUrl
  /\ release' = [release EXCEPT ![p] = r]
  /\ \/ \E row \in Best(r) : /\ chosen' = [chosen EXCEPT ![p] = row]
                             /\ Enter(p, New(row.implementation))
                             /\ UNCHANGED mishaps
     \/ Best(r) = {} /\ Enter(p, "refused") /\ UNCHANGED <<chosen, mishaps>>
     \/ Enter(p, "refused") /\ Mishap /\ UNCHANGED chosen
  /\ UNCHANGED <<rows, received, garbled, changes>>

\* qbit.login: no answer, or neither 204 nor 200 "Ok.".
Login(p) ==
  /\ at[p] = "login"
  /\ \/ Enter(p, "add") /\ UNCHANGED mishaps
     \/ Enter(p, "refused") /\ Mishap
  /\ UNCHANGED <<rows, received, release, chosen, garbled, changes>>

Accept(p) ==
  received' = [received EXCEPT ![chosen[p].server] = @ \cup {release[p]}]

\* qbit.Add: added; refused with a status of 300 or more; or no answer in
\* time, with the release added or not.
Add(p) ==
  /\ at[p] = "add"
  /\ \/ Accept(p) /\ Enter(p, "created") /\ UNCHANGED mishaps
     \/ Accept(p) /\ Enter(p, "refused") /\ Mishap
     \/ UNCHANGED received /\ Enter(p, "refused") /\ Mishap
  /\ UNCHANGED <<rows, release, chosen, garbled, changes>>

\* Mutant: the status in SABnzbd's answer is not looked at.
AddUrlUnchecked(p) ==
  /\ at[p] = "addurl"
  /\ release[p].downloadUrl
  /\ \/ Accept(p) /\ Enter(p, "created") /\ UNCHANGED mishaps
     \/ UNCHANGED received /\ Enter(p, "created") /\ Mishap
  /\ UNCHANGED <<rows, release, chosen, garbled, changes>>

\* sab.Add: as above, but it has no use for a magnet, and a 200 whose body is
\* not the expected JSON counts as success.
AddUrl(p) ==
  /\ at[p] = "addurl"
  /\ \/ ~release[p].downloadUrl
        /\ Enter(p, "refused")
        /\ UNCHANGED <<received, garbled, mishaps>>
     \/ release[p].downloadUrl /\ Accept(p) /\ Enter(p, "created")
        /\ UNCHANGED <<garbled, mishaps>>
     \/ release[p].downloadUrl /\ (Accept(p) \/ UNCHANGED received) /\ Mishap
        /\ \/ Enter(p, "refused") /\ UNCHANGED garbled
           \/ Enter(p, "created") /\ garbled' = garbled \cup {p}
  /\ UNCHANGED <<rows, release, chosen, changes>>

\* 201 "grabbed" with the name of the client, or an error.
Reply(p) ==
  /\ at[p] \in {"created", "refused"}
  /\ Enter(p, "idle")
  /\ release' = [release EXCEPT ![p] = None]
  /\ chosen' = [chosen EXCEPT ![p] = None]
  /\ garbled' = garbled \ {p}
  /\ UNCHANGED <<rows, received, mishaps, changes>>

\* The process dies and is started again; nothing of a grab is stored.
Crash ==
  /\ Mishap
  /\ at' = [p \in Proc |-> "idle"]
  /\ release' = [p \in Proc |-> None]
  /\ chosen' = [p \in Proc |-> None]
  /\ garbled' = {}
  /\ UNCHANGED <<rows, received, changes>>

HandlerStep(p) == Login(p) \/ Add(p) \/ AddUrl(p) \/ Reply(p)

Next ==
  \/ \E p \in Proc : HandlerStep(p) \/ \E r \in Release : Grab(p, r)
  \/ \E c \in Client : \/ \E b \in Body : \/ CreateDownloadClient(c, b)
                                          \/ UpdateDownloadClient(c, b)
                       \/ DeleteDownloadClient(c)
  \/ Crash

Spec == Init /\ [][Next]_vars

\* Handlers run; a caller without its release asks again, and since the
\* program starts a goroutine for every request it is heard.
Received(r) == \E s \in Server : r \in received[s]
Retry(r) == ~Received(r) /\ \E p \in Proc : Grab(p, r)
Fairness ==
  /\ \A p \in Proc : WF_vars(HandlerStep(p))
  /\ \A r \in Release : SF_vars(Retry(r))
LiveSpec == Spec /\ Fairness

-----------------------------------------------------------------------------
(* A grab answered with 201 was accepted by the client whose name the      *)
(* answer gives, as that client was configured when it was chosen, however *)
(* the table changes meanwhile (grab.go:41-73) - unless SABnzbd's answer   *)
(* could not be read (download.go:209).                                    *)
AckedIsReceived ==
  \A p \in Proc :
    at[p] = "created" /\ p \notin garbled => release[p] \in received[chosen[p].server]

(* While the table stays as it is, all grabs of a release go to one server:*)
(* a retry after a lost answer, a second caller or a restart never sends it*)
(* to another client ("picks the highest-priority enabled client matching  *)
(* the protocol", JOURNEY.md:215-216).  Only rows that tie in priority and *)
(* name leave a choice.                                                    *)
NoTies ==
  \A c, d \in Client :
    /\ rows[c] # None /\ rows[d] # None
    /\ rows[c].priority = rows[d].priority /\ rows[c].name = rows[d].name
    => c = d
OneServer ==
  changes = 0 /\ NoTies =>
    \A r \in Release, s, t \in Server : r \in received[s] \cap received[t] => s = t

(* A caller that keeps asking gets its release to a client once faults have*)
(* stopped and the one client of its protocol with the best priority can   *)
(* take it: a disabled or worse client never stands in the way             *)
(* (grab.go:42-52).                                                        *)
CanTake(row, r) ==
  New(row.implementation) = "login" \/ (New(row.implementation) = "addurl" /\ r.downloadUrl)
Served(r) ==
  \E c \in Matching(r) :
    /\ CanTake(rows[c], r)
    /\ \A d \in Matching(r) \ {c} : rows[c].priority < rows[d].priority
EventuallyReceived ==
  \A r \in Release : <>[]Served(r) /\ (r.magnetUrl \/ r.downloadUrl) => <>Received(r)

(* "qBittorrent for torrents, SABnzbd for usenet" (download.go:1-2).  The  *)
(* code does not ensure it.                                                *)
SentToItsKind ==
  \A p \in Proc :
    /\ at[p] \in {"login", "add"} => Protocol(release[p]) = "torrent"
    /\ at[p] = "addurl" => Protocol(release[p]) = "usenet"

\* Bodies from which each implementation gets a row of its own protocol.
KindStated ==
  \A b \in Body : /\ b.implementation = "QBittorrent" => b.protocol # "usenet"
                  /\ b.implementation = "Sabnzbd" => b.protocol = "usenet"

-----------------------------------------------------------------------------
(* Inductive strengthening of OneServer: whoever has a release, or is about*)
(* to, is the one client that the unchanged table makes best.              *)
Targets(r) == {row.server : row \in Best(r)}
OnTarget ==
  changes = 0 =>
    /\ \A r \in Release, s \in Server : r \in received[s] => s \in Targets(r)
    /\ \A p \in Proc : at[p] \in {"login", "add", "addurl"} =>
         chosen[p].server \in Targets(release[p])

GrabInv == TypeOK /\ AckedIsReceived /\ OnTarget
=============================================================================
