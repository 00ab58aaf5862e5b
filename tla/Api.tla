-------------------------------- MODULE Api ---------------------------------
(***************************************************************************)
(* Clients that read: the GET routes of the API (internal/server/          *)
(* httpserver) and the use cases behind them (internal/server/service).    *)
(*                                                                         *)
(* A download reads the row, then opens the object the row names: between  *)
(* the two anything may happen to either.  Clients follow links: the one a *)
(* 201 carries, and the thumbnail links of metadata and lists.  A client   *)
(* sends one request at a time.  A read changes nothing on the server, so  *)
(* an answer that teaches the client nothing is no step.                   *)
(***************************************************************************)
EXTENDS GophProfile

CONSTANTS Reader,     \* the clients that read
          NoLink

Link == AvatarId \X Key

ASSUME NoLinkAssumption == NoLink \notin Link

VARIABLES known,      \* known[r]: the links r was given
          opening,    \* opening[r]: the object r's download is about to open
          missed      \* missed[r]: the known links that were answered 404

readerVars == <<known, opening, missed>>
apiVars == <<vars, readerVars>>

ReaderTypeOK ==
  /\ known \in [Reader -> SUBSET Link]
  /\ opening \in [Reader -> Link \cup {NoLink}]
  /\ missed \in [Reader -> SUBSET Link]

ApiInit ==
  /\ Init
  /\ known = [r \in Reader |-> {}]
  /\ opening = [r \in Reader |-> NoLink]
  /\ missed = [r \in Reader |-> {}]

-----------------------------------------------------------------------------
(* Learning links *)

Learn(r, links) ==
  /\ opening[r] = NoLink
  /\ known' = [known EXCEPT ![r] = @ \cup links]
  /\ UNCHANGED <<opening, missed>>

\* The 201 of an upload carries the URL of the original.
UploadAnswered(r, a) == upload[a] = "created" /\ Learn(r, {<<a, OriginalKey>>})

\* The thumbnails toMetadata lists.
ThumbnailLinks(a) == {<<a, size>> : size \in row[a].thumbs}

Metadata(r, a) == Visible(a) /\ Learn(r, ThumbnailLinks(a))

ListByUser(u) == {a \in AvatarId : Owner[a] = u /\ Visible(a)}

List(r, u) == Learn(r, UNION {ThumbnailLinks(a) : a \in ListByUser(u)})

-----------------------------------------------------------------------------
(* Downloads *)

\* The row was read and names the object.
Found(r, link) ==
  /\ opening[r] = NoLink
  /\ opening' = [opening EXCEPT ![r] = link]
  /\ UNCHANGED <<known, missed>>

\* The answer is 404.
Miss(r, link) == missed' = [missed EXCEPT ![r] = @ \cup ({link} \cap known[r])]

NotFound(r, link) == opening[r] = NoLink /\ Miss(r, link) /\ UNCHANGED <<known, opening>>

GetFile(r, a) ==
  IF Visible(a) THEN Found(r, <<a, OriginalKey>>) ELSE NotFound(r, <<a, OriginalKey>>)

LatestFile(r, u) == \E a \in LatestByUser(u) : Found(r, <<a, OriginalKey>>)

\* Faulty ThumbnailFile: the processing status decides, not the recorded keys.
ThumbnailFileIfCompleted(r, a, size) ==
  IF Visible(a) /\ row[a].processing = "completed"
    THEN Found(r, <<a, size>>) ELSE NotFound(r, <<a, size>>)

ThumbnailFile(r, a, size) ==
  IF Visible(a) /\ size \in row[a].thumbs
    THEN Found(r, <<a, size>>) ELSE NotFound(r, <<a, size>>)

\* Store.Get and the answer: 200, 404 for a missing object, 500.
OpenObject(r) ==
  /\ opening[r] # NoLink
  /\ opening' = [opening EXCEPT ![r] = NoLink]
  /\ \E o \in {"ok"} \cup BucketFaults :
       IF o = "ok" /\ opening[r][2] \notin object[opening[r][1]]
         THEN Miss(r, opening[r]) ELSE UNCHANGED missed
  /\ UNCHANGED known

ReaderStep(r) ==
  /\ \/ \E a \in AvatarId : UploadAnswered(r, a) \/ Metadata(r, a) \/ GetFile(r, a)
     \/ \E u \in UserId : List(r, u) \/ LatestFile(r, u)
     \/ \E a \in AvatarId, size \in ThumbnailSizes : ThumbnailFile(r, a, size)
     \/ OpenObject(r)
  /\ UNCHANGED vars

ApiNext == (SystemNext /\ UNCHANGED readerVars) \/ \E r \in Reader : ReaderStep(r)

ApiSpec == ApiInit /\ [][ApiNext]_apiVars

-----------------------------------------------------------------------------
(* Properties *)

\* KnownLinksServed: a link a client was given answers 404 only once the avatar
\* is deleted, however long ago it was given, whatever redeliveries do to the
\* avatar's status, and although row and object are read one after the other.
KnownLinksServed ==
  \A r \in Reader : \A link \in missed[r] : row[link[1]].stage = "deleted"

\* The avatar is deleted, or a download of the link will find row and object.
LinkStands(link) ==
  \/ row[link[1]].stage = "deleted"
  \/ /\ Visible(link[1]) /\ link[2] \in object[link[1]]
     /\ link[2] \in ThumbnailSizes => link[2] \in row[link[1]].thumbs

\* The inductive invariant.
ApiInv ==
  /\ SystemInv /\ ReaderTypeOK
  /\ \A a \in AvatarId : upload[a] \in {"publish", "created"} => LinkStands(<<a, OriginalKey>>)
  /\ \A r \in Reader : \A link \in known[r] : LinkStands(link)
  /\ KnownLinksServed

=============================================================================
