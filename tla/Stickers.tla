------------------------------ MODULE Stickers ------------------------------
(***************************************************************************)
(* The public sticker packs: the publish tool (sticker-publish) that       *)
(* checks a directory, signs its manifest and writes it in three kinds of  *)
(* statements, and the four reading calls of StickerService beside it.     *)
(*                                                                         *)
(* A hash is the thing hashed, so a blob is named by its image and a pack  *)
(* by the canonical part of its manifest.  An image is the record of what  *)
(* its header says; the header itself is modelled byte by byte, because    *)
(* the three layouts of its dimensions are what the check is about.        *)
(***************************************************************************)
EXTENDS Integers, Sequences, FiniteSets, SequencesExt

CONSTANTS
    StickerPlan,          \* bound: [calls, errors, cuts]; a call: [kind, ...]
    Canvas, MaxBlob, MaxStickers, MaxHave,
    PageUsual, PageMax,   \* DEFAULT_PAGE, MAX_PAGE
    StickerMax            \* sticker_rate_limit_per_hour

VARIABLES
    stickerPlan,  \* the scenario
    snow,         \* the clock, in microseconds
    blobs,        \* sticker_blobs
    packs,        \* sticker_packs
    fetches,      \* calls in the window of each client
    scall,        \* the progress of each call
    serrors,      \* failed database accesses so far
    scuts         \* publishes that died so far

stickerVars == <<stickerPlan, snow, blobs, packs, fetches, scall, serrors, scuts>>

----------------------------------------------------------------------------
(* The header of a WebP file                                               *)

\* The container format: the first ten bytes of the first chunk's payload.
WebP(img) ==
    CASE img.form = "VP8 " ->
            <<0, 0, 0, 157, 1, 42, img.w % 256, img.w \div 256 + 64 * img.scale, img.h % 256, img.h \div 256 + 64 * img.scale>>
      [] img.form = "VP8L" ->
            LET v == (img.w - 1) + (img.h - 1) * 2^14 + img.scale * 2^28
            IN <<47, v % 256, (v \div 2^8) % 256, (v \div 2^16) % 256, (v \div 2^24) % 256, 0, 0, 0, 0, 0>>
      [] img.form = "VP8X" ->
            <<IF img.animated THEN 2 ELSE 16, 0, 0, 0,
              (img.w - 1) % 256, ((img.w - 1) \div 2^8) % 256, (img.w - 1) \div 2^16,
              (img.h - 1) % 256, ((img.h - 1) \div 2^8) % 256, (img.h - 1) \div 2^16>>
      [] OTHER -> <<0, 0, 0, 0, 0, 0, 0, 0, 0, 0>>

Unreadable == [w |-> 0, h |-> 0, animated |-> TRUE]
\* WebPHeader::parse: 14-bit words under two scale bits; 14 + 14 bits, less one,
\* packed over four bytes; 24-bit words, less one.
ParseVP8(b) ==
    IF <<b[4], b[5], b[6]>> # <<157, 1, 42>> THEN Unreadable
    ELSE [w |-> b[7] + (b[8] % 64) * 2^8, h |-> b[9] + (b[10] % 64) * 2^8, animated |-> FALSE]
ParseVP8L(b) ==
    IF b[1] # 47 THEN Unreadable
    ELSE [w |-> 1 + b[2] + (b[3] % 64) * 2^8, h |-> 1 + b[3] \div 64 + b[4] * 4 + (b[5] % 16) * 2^10, animated |-> FALSE]
ParseVP8X(b) ==
    [w |-> 1 + b[5] + b[6] * 2^8 + b[7] * 2^16, h |-> 1 + b[8] + b[9] * 2^8 + b[10] * 2^16,
     animated |-> (b[1] \div 2) % 2 = 1]
ParseWebP(form, b) ==
    CASE form = "VP8 " -> ParseVP8(b) [] form = "VP8L" -> ParseVP8L(b) [] form = "VP8X" -> ParseVP8X(b) [] OTHER -> Unreadable
IsStickerCanvas(header) == ~header.animated /\ header.w = Canvas /\ header.h = Canvas

ValidBlob(img) == img.size \in 1..MaxBlob /\ IsStickerCanvas(ParseWebP(img.form, WebP(img)))

----------------------------------------------------------------------------
(* What the publish tool accepts                                           *)

\* load_blob: the file against the rules and against what pack.json claims.
LoadBlob(e) ==
    LET header == ParseWebP(e.file.form, WebP(e.file))
    IN /\ ValidBlob(e.file)
       /\ e.file = e.sha256
       /\ e.file.size = e.byteLen
       /\ header.w = e.width /\ header.h = e.height
       /\ e.emoji # ""

\* The entry of the manifest comes from the file, not from pack.json.
Entry(e) == [sha256 |-> e.file, emoji |-> e.emoji, byteLen |-> e.file.size]
\* canonical_bytes, and so pack_id: everything but the signature.
PackId(dir) == [title |-> dir.title, stickers |-> [n \in DOMAIN dir.entries |-> Entry(dir.entries[n])]]

\* Title and publisher are one number, whose order is that of the pack_id.
Blank == 0
ValidManifest(id) ==
    /\ Len(id.stickers) \in 1..MaxStickers
    /\ id.title # Blank
    /\ \A n \in DOMAIN id.stickers : id.stickers[n].byteLen \in 1..MaxBlob

\* build: the indices in file order, every blob, then the manifest.
Builds(dir) ==
    /\ \A n \in DOMAIN dir.entries : dir.entries[n].index = n - 1
    /\ Len(dir.entries) \in 1..MaxStickers
    /\ \A n \in DOMAIN dir.entries : LoadBlob(dir.entries[n])
    /\ ValidManifest(PackId(dir))
\* load_signing_key: a seed that does not derive the published key is refused.
KeyFits(c) == c.published \in {"", c.key}

----------------------------------------------------------------------------

SCalls == DOMAIN stickerPlan.calls
SC(i) == stickerPlan.calls[i]
NewSCall == [at |-> "ready", next |-> 1, got |-> <<>>, cursor |-> <<>>, owed |-> {}]

SAt(i, where) == scall[i].at = where
STo(i, where) == scall' = [scall EXCEPT ![i].at = where]
SBegins(i, kind) ==
    /\ SC(i).kind = kind /\ SAt(i, "ready")
    /\ \A j \in SCalls : j < i => ~SAt(j, "ready")
SErrs == serrors < stickerPlan.errors /\ serrors' = serrors + 1

StickersInit ==
    /\ stickerPlan \in StickerPlan
    /\ snow = 0
    /\ blobs = {}
    /\ packs = <<>>
    /\ fetches = <<>>
    /\ scall = [i \in SCalls |-> NewSCall]
    /\ serrors = 0 /\ scuts = 0

----------------------------------------------------------------------------
(* sticker-publish                                                         *)

Id(i) == PackId(SC(i).dir)
PublishOnly == UNCHANGED <<stickerPlan, snow, fetches, scuts>>

\* run: build, sign and, unless it is a dry run, connect.
BuildPack(i) ==
    /\ SBegins(i, "publish")
    /\ STo(i, IF ~(Builds(SC(i).dir) /\ KeyFits(SC(i))) THEN "refused" ELSE IF SC(i).dry THEN "done" ELSE "blobs")
    /\ PublishOnly /\ UNCHANGED <<blobs, packs, serrors>>

MoreBlobs(i) == scall[i].next <= Len(Id(i).stickers)
\* insert_blob: nothing happens when it is there.
InsertBlob(i) ==
    /\ SAt(i, "blobs") /\ MoreBlobs(i)
    /\ \/ /\ blobs' = blobs \cup {Id(i).stickers[scall[i].next].sha256}
          /\ scall' = [scall EXCEPT ![i].next = @ + 1]
          /\ UNCHANGED serrors
       \/ SErrs /\ STo(i, "failed") /\ UNCHANGED blobs
    /\ PublishOnly /\ UNCHANGED packs

\* A row that is there keeps all but its manifest bytes, here the signing key.
UpsertedPack(id, key) ==
    IF id \in DOMAIN packs THEN [packs[id] EXCEPT !.key = key] ELSE [at |-> snow, key |-> key, listed |-> FALSE]
\* upsert_pack_unlisted
UpsertPackUnlisted(i) ==
    /\ SAt(i, "blobs") /\ ~MoreBlobs(i)
    /\ \/ /\ packs' = [id \in DOMAIN packs \cup {Id(i)} |-> IF id = Id(i) THEN UpsertedPack(id, SC(i).key) ELSE packs[id]]
          /\ STo(i, IF SC(i).unlisted THEN "done" ELSE "list")
          /\ UNCHANGED serrors
       \/ SErrs /\ STo(i, "failed") /\ UNCHANGED packs
    /\ PublishOnly /\ UNCHANGED blobs

\* set_listed
SetListed(i) ==
    /\ SAt(i, "list")
    /\ \/ packs' = [packs EXCEPT ![Id(i)].listed = TRUE] /\ STo(i, "done") /\ UNCHANGED serrors
       \/ SErrs /\ STo(i, "failed") /\ UNCHANGED packs
    /\ PublishOnly /\ UNCHANGED blobs

\* The tool dies between two statements.
PublishDies(i) ==
    /\ scall[i].at \in {"blobs", "list"} /\ scuts < stickerPlan.cuts
    /\ scuts' = scuts + 1
    /\ STo(i, "failed")
    /\ UNCHANGED <<stickerPlan, snow, blobs, packs, fetches, serrors>>

----------------------------------------------------------------------------
(* StickerService                                                          *)

\* client_ip: the last hop of x-forwarded-for, else x-real-ip.
ClientIp(c) ==
    IF c.hops # <<>> /\ Last(c.hops) # "" THEN Last(c.hops)
    ELSE IF c.real # "" THEN c.real ELSE "unknown"
Fetched(ip) == IF ip \in DOMAIN fetches THEN fetches[ip] ELSE 0
\* gate: one window for the four calls.
Gate(i) == Fetched(ClientIp(SC(i))) < StickerMax
Charged(i) ==
    LET ip == ClientIp(SC(i))
    IN [a \in DOMAIN fetches \cup {ip} |-> IF a = ip THEN Fetched(ip) + 1 ELSE fetches[a]]

Reads == UNCHANGED <<stickerPlan, snow, blobs, packs, scuts>>

Limit(size) == IF size = 0 THEN PageUsual ELSE IF size < PageMax THEN size ELSE PageMax
\* The catalog's order, newest first; Rank stands for the bytes of a pack_id.
Rank(id) == id.title
Before(a, b) == packs[a].at > packs[b].at \/ (packs[a].at = packs[b].at /\ Rank(a) > Rank(b))
Position(id) == <<packs[id].at, Rank(id)>>
\* Mutant: the cursor is the time alone.
PastCursorTime(id, cursor) == cursor = <<>> \/ packs[id].at < cursor[1]
\* PageCursor: strictly after the last pack of the page before.
PastCursor(id, cursor) ==
    \/ cursor = <<>>
    \/ packs[id].at < cursor[1]
    \/ packs[id].at = cursor[1] /\ Rank(id) < cursor[2]
CatalogListed == {id \in DOMAIN packs : packs[id].listed}
\* list_packs
Page(cursor, limit) ==
    LET all == SetToSortSeq({id \in CatalogListed : PastCursor(id, cursor)}, Before)
    IN SubSeq(all, 1, IF Len(all) < limit THEN Len(all) ELSE limit)

\* ListStickerPacks, page after page: a full page has a token, the next may be empty.
ListStickerPacks(i) ==
    /\ SBegins(i, "browse") \/ (SC(i).kind = "browse" /\ SAt(i, "more"))
    /\ fetches' = IF Gate(i) THEN Charged(i) ELSE fetches
    /\ \/ ~Gate(i) /\ STo(i, "limited") /\ UNCHANGED serrors
       \/ /\ Gate(i)
          /\ LET limit == Limit(SC(i).size)
                 page == Page(scall[i].cursor, limit)
             IN scall' = [scall EXCEPT ![i].got = @ \o page,
                                       ![i].owed = IF SAt(i, "ready") THEN CatalogListed ELSE @,
                                       ![i].cursor = IF page = <<>> THEN <<>> ELSE Position(Last(page)),
                                       ![i].at = IF Len(page) = limit THEN "more" ELSE "done"]
          /\ UNCHANGED serrors
       \/ Gate(i) /\ SErrs /\ STo(i, "failed")
    /\ Reads

PackStored(id) == id \in DOMAIN packs

\* GetStickerPackManifest
GetStickerPackManifest(i) ==
    /\ SBegins(i, "manifest")
    /\ fetches' = IF Gate(i) THEN Charged(i) ELSE fetches
    /\ \/ ~Gate(i) /\ STo(i, "limited") /\ UNCHANGED serrors
       \/ Gate(i) /\ STo(i, IF PackStored(Id(i)) THEN "done" ELSE "absent") /\ UNCHANGED serrors
       \/ Gate(i) /\ SErrs /\ STo(i, "failed")
    /\ Reads

\* Manifest order, less what the client holds.
WantedBlobs(id, have) == SelectSeq([n \in DOMAIN id.stickers |-> id.stickers[n].sha256], LAMBDA b : b \notin have)

\* GetStickerPackBlobs: the request, and the manifest it names.
GetStickerPackBlobs(i) ==
    /\ SBegins(i, "fetch")
    /\ fetches' = IF Gate(i) THEN Charged(i) ELSE fetches
    /\ \/ ~Gate(i) /\ STo(i, "limited") /\ UNCHANGED serrors
       \/ /\ Gate(i) /\ Cardinality(SC(i).have) > MaxHave
          /\ STo(i, "refused") /\ UNCHANGED serrors
       \/ /\ Gate(i) /\ Cardinality(SC(i).have) <= MaxHave
          /\ STo(i, IF PackStored(Id(i)) THEN "stream" ELSE "absent") /\ UNCHANGED serrors
       \/ Gate(i) /\ SErrs /\ STo(i, "failed")
    /\ Reads

\* The stream: one blob after the other, an absent one ends it with an error.
StreamBlob(i) ==
    LET wanted == WantedBlobs(Id(i), SC(i).have)
    IN /\ SAt(i, "stream")
       /\ \/ scall[i].next > Len(wanted) /\ STo(i, "done") /\ UNCHANGED serrors
          \/ /\ scall[i].next <= Len(wanted)
             /\ IF wanted[scall[i].next] \in blobs
                THEN scall' = [scall EXCEPT ![i].got = Append(@, wanted[scall[i].next]), ![i].next = @ + 1]
                ELSE STo(i, "data loss")
             /\ UNCHANGED serrors
          \/ SErrs /\ STo(i, "failed")
       /\ Reads /\ UNCHANGED fetches

\* GetStickerBlob
GetStickerBlob(i) ==
    /\ SBegins(i, "blob")
    /\ fetches' = IF Gate(i) THEN Charged(i) ELSE fetches
    /\ \/ ~Gate(i) /\ STo(i, "limited") /\ UNCHANGED serrors
       \/ Gate(i) /\ STo(i, IF SC(i).sha256 \in blobs THEN "done" ELSE "absent") /\ UNCHANGED serrors
       \/ Gate(i) /\ SErrs /\ STo(i, "failed")
    /\ Reads

\* A microsecond passes between two publishes, or does not.
STime(i) ==
    /\ SBegins(i, "tick")
    /\ snow' = snow + 1
    /\ STo(i, "done")
    /\ UNCHANGED <<stickerPlan, blobs, packs, fetches, serrors, scuts>>

StickersNext ==
    \E i \in SCalls :
        \/ BuildPack(i) \/ InsertBlob(i) \/ UpsertPackUnlisted(i) \/ SetListed(i) \/ PublishDies(i)
        \/ ListStickerPacks(i) \/ GetStickerPackManifest(i) \/ GetStickerPackBlobs(i) \/ StreamBlob(i) \/ GetStickerBlob(i)
        \/ STime(i)

StickersSpec == StickersInit /\ [][StickersNext]_stickerVars

----------------------------------------------------------------------------
(* Properties                                                              *)

StickerStates == {"ready", "blobs", "list", "more", "stream", "done", "failed", "refused", "limited", "absent", "data loss"}
\* Types; a client's window never holds more than the limit.
StickersTypeOK ==
    /\ stickerPlan \in StickerPlan /\ snow \in Nat
    /\ \A i \in SCalls : scall[i].at \in StickerStates
    /\ \A a \in DOMAIN fetches : fetches[a] \in 1..StickerMax
    /\ \A id \in DOMAIN packs : packs[id].at <= snow

\* A pack that can be named can be shown: whenever its manifest can be served,
\* listed or not, every blob it names is stored, wherever a publish died; so no
\* stream of GetStickerPackBlobs ends for a missing blob.
PackIsComplete ==
    /\ \A id \in DOMAIN packs : \A n \in DOMAIN id.stickers : id.stickers[n].sha256 \in blobs
    /\ \A i \in SCalls : ~SAt(i, "data loss")

\* A fetch that ended gave, with what the client had, every sticker of the pack,
\* and nothing the client had.
FetchWhole ==
    \A i \in SCalls :
        SC(i).kind = "fetch" /\ SAt(i, "done") =>
            LET got == {scall[i].got[n] : n \in DOMAIN scall[i].got}
                all == {Id(i).stickers[n].sha256 : n \in DOMAIN Id(i).stickers}
            IN got = all \ SC(i).have

\* Paging through the catalog while packs are published shows every pack that
\* was listed at the first page, and none twice (the order's ties included).
CatalogWhole ==
    \A i \in SCalls :
        SC(i).kind = "browse" =>
            /\ Cardinality({scall[i].got[n] : n \in DOMAIN scall[i].got}) = Len(scall[i].got)
            /\ SAt(i, "done") => scall[i].owed \subseteq {scall[i].got[n] : n \in DOMAIN scall[i].got}

\* What a directory ought to be: static images on the canvas, said by the image
\* itself and not by its header.
Proper(dir) ==
    /\ dir.title # Blank /\ Len(dir.entries) \in 1..MaxStickers
    /\ \A n \in DOMAIN dir.entries :
        LET e == dir.entries[n]
        IN /\ e.index = n - 1 /\ e.emoji # "" /\ e.sha256 = e.file /\ e.byteLen = e.file.size
           /\ e.file.form \in {"VP8 ", "VP8L", "VP8X"}
           /\ ~e.file.animated /\ e.file.w = Canvas /\ e.file.h = Canvas /\ e.file.size \in 1..MaxBlob
           /\ e.width = Canvas /\ e.height = Canvas
\* The publish tool refuses exactly the directories that are not proper (and
\* keys that are not the published one): the header is read as it was written,
\* in its three layouts, scale and alpha bits included.
PublishJudges ==
    \A i \in SCalls :
        SC(i).kind = "publish" /\ ~SAt(i, "ready") =>
            (SAt(i, "refused") <=> ~Proper(SC(i).dir) \/ SC(i).published \notin {"", SC(i).key})

\* Publishing a pack again changes nothing but its signature: it keeps its
\* place in the catalog, and what is listed is never withdrawn by a new run.
PublishedTwice ==
    [][\A id \in DOMAIN packs :
        id \in DOMAIN packs' /\ packs'[id].at = packs[id].at /\ (packs[id].listed => packs'[id].listed)]_stickerVars

\* A pack that is shown is whole and was judged, while others publish, die and
\* publish again: its blobs are there, no page and no fetch leaves one out, and a
\* new run neither moves nor withdraws it.
PacksWhole == [](PackIsComplete /\ FetchWhole /\ CatalogWhole /\ PublishJudges) /\ PublishedTwice
=============================================================================
